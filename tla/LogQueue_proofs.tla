--------------------------- MODULE LogQueue_proofs ---------------------------
(***************************************************************************)
(* Proofs about the ring of LogQueue.  IInv of LogQueueProperties is       *)
(* inductive for any number of producers and calls, and any capacity above *)
(* one; the safety properties and the refinement of BoundedLog follow.     *)
(***************************************************************************)
EXTENDS LogQueueProperties, TLAPS

LEMMA SlotIsSlot == ASSUME NEW n \in Int PROVE SlotOf(n) \in Slots
BY LogQueueAssumption DEF SlotOf, Slots

LEMMA EntryIsEntry ==
  ASSUME TypeOK, NEW p \in Producers, pc[p] # "idle"
  PROVE  Entry(p) \in Entries
<1>1. calls[p] \in 1..MaxCalls
  BY LogQueueAssumption DEF TypeOK
<1> QED
  BY <1>1 DEF Entry, Entries

(* Every variable keeps its type.                                          *)
THEOREM TypeCorrect == Spec => []TypeOK
<1>1. Init => TypeOK
  BY LogQueueAssumption DEF Init, TypeOK, Slots
<1>2. TypeOK /\ [Next]_vars => TypeOK'
  <2> SUFFICES ASSUME TypeOK, [Next]_vars PROVE TypeOK'
    OBVIOUS
  <2>0. MaxCalls \in Nat /\ Capacity \in Nat \ {0}
    BY LogQueueAssumption
  <2> USE <2>0
  <2>1. ASSUME NEW p \in Producers, LoadHead(p) PROVE TypeOK'
    BY <2>1 DEF LoadHead, TypeOK, consumerVars, history
  <2>2. ASSUME NEW p \in Producers, ReadSeq(p) PROVE TypeOK'
    <3>1. Entry(p) \in Entries
      BY <2>2, EntryIsEntry DEF Outcome, ReadSeq
    <3>2. /\ pc' \in [Producers -> {"idle", "read", "reload", "cas", "write",
                                    "writing", "publish"}]
          /\ refused' \in SUBSET Entries
          /\ \A q \in Producers : pc'[q] # "idle" => pc[q] # "idle"
      BY <2>2, <3>1 DEF Outcome, ReadSeq, TypeOK
    <3> QED
      BY <2>2, <3>2 DEF Outcome, ReadSeq, TypeOK, consumerVars
  <2>3. ASSUME NEW p \in Producers, ReloadHead(p) PROVE TypeOK'
    BY <2>3 DEF ReloadHead, TypeOK, consumerVars, history
  <2>4. ASSUME NEW p \in Producers, CasSucceeds(p) PROVE TypeOK'
    <3>1. Entry(p) \in Entries
      BY <2>4, EntryIsEntry DEF CasWins, CasSucceeds
    <3> QED
      BY <2>4, <3>1 DEF CasWins, CasSucceeds, TypeOK, consumerVars
  <2>5. ASSUME NEW p \in Producers, CasFails(p) PROVE TypeOK'
    BY <2>5 DEF CasFails, TypeOK, consumerVars, history
  <2>6. ASSUME NEW p \in Producers, BeginWrite(p) PROVE TypeOK'
    BY <2>6 DEF BeginWrite, TypeOK, consumerVars, history
  <2>7. ASSUME NEW p \in Producers, EndWrite(p) PROVE TypeOK'
    <3>1. Entry(p) \in Entries
      BY <2>7, EntryIsEntry DEF EndWrite
    <3>2. data' \in [Slots -> Entries \union {Torn, Empty}]
      BY <2>7, <3>1 DEF EndWrite, TypeOK
    <3> QED
      BY <2>7, <3>2 DEF EndWrite, TypeOK, consumerVars, history
  <2>8. ASSUME NEW p \in Producers, Publish(p) PROVE TypeOK'
    <3>0. ph[p] + 1 \in Nat
      BY DEF TypeOK
    <3>1. seq' \in [Slots -> Nat]
      BY <2>8, <3>0 DEF PublishedSeq, Publish, TypeOK
    <3> QED
      BY <2>8, <3>1 DEF PublishedSeq, Publish, TypeOK, consumerVars, history
  <2>9. ASSUME FindEntry PROVE TypeOK'
    BY <2>9 DEF FindEntry, TypeOK, producerVars, history
  <2>10. ASSUME BeginCopy PROVE TypeOK'
    <3>1. out' \in Entries \union {Torn, Empty}
      BY <2>10, SlotIsSlot DEF BeginCopy, TypeOK
    <3> QED
      BY <2>10, <3>1 DEF BeginCopy, TypeOK, producerVars, history
  <2>11. ASSUME EndCopy PROVE TypeOK'
    <3>1. out' \in Entries \union {Torn, Empty}
      BY <2>11 DEF EndCopy, TypeOK
    <3> QED
      BY <2>11, <3>1 DEF EndCopy, TypeOK, producerVars, history
  <2>12. ASSUME AdvanceTail PROVE TypeOK'
    BY <2>12 DEF AdvanceTail, TypeOK, producerVars, history
  <2>13. ASSUME ReleaseSlot PROVE TypeOK'
    <3>0. tail - 1 + Capacity \in Nat
      BY DEF TypeOK
    <3>1. seq' \in [Slots -> Nat]
      BY <2>13, <3>0 DEF FreeSeq, ReleaseSlot, TypeOK
    <3>2. delivered' \in Seq(Entries \union {Torn, Empty})
      BY <2>13 DEF FreeSeq, ReleaseSlot, TypeOK
    <3> QED
      BY <2>13, <3>1, <3>2 DEF FreeSeq, ReleaseSlot, TypeOK, producerVars
  <2>14. CASE UNCHANGED vars
    BY <2>14 DEF vars, TypeOK, producerVars, consumerVars, history
  <2> QED
    BY <2>1, <2>2, <2>3, <2>4, <2>5, <2>6, <2>7, <2>8, <2>9, <2>10, <2>11,
       <2>12, <2>13, <2>14 DEF Next, TryPush, TryPop
<1> QED BY <1>1, <1>2, PTL DEF Spec
-----------------------------------------------------------------------------
(* Arithmetic of the counters. *)

LEMMA DivMod ==
  ASSUME NEW a \in Int, NEW m \in Nat \ {0}
  PROVE  \E q \in Int, r \in 0..(m - 1) : a = m * q + r /\ a % m = r
<1>1. a % m \in 0..(m - 1) /\ a \div m \in Int /\ a = m * (a \div m) + (a % m)
  OBVIOUS
<1> QED
  BY <1>1

LEMMA ZeroMultiple ==
  ASSUME NEW k \in Int, NEW m \in Nat \ {0}, m * k < m, -m < m * k
  PROVE  k = 0
<1>1. CASE k >= 1
  BY <1>1
<1>2. CASE k <= -1
  BY <1>2
<1> QED
  BY <1>1, <1>2

LEMMA ModZero ==
  ASSUME NEW d \in Int, NEW m \in Nat \ {0}, d % m = 0, d < m, -m < d
  PROVE  d = 0
BY DivMod, ZeroMultiple

LEMMA ModInjective ==
  ASSUME NEW a \in Int, NEW b \in Int, NEW m \in Nat \ {0},
         a % m = b % m, a - b < m, b - a < m
  PROVE  a = b
<1>1. PICK q \in Int, r \in 0..(m - 1) : a = m * q + r /\ a % m = r
  BY DivMod
<1>2. PICK p \in Int, s \in 0..(m - 1) : b = m * p + s /\ b % m = s
  BY DivMod
<1>3. a - b = m * (q - p)
  BY <1>1, <1>2
<1>4. q - p = 0
  BY <1>3, ZeroMultiple
<1> QED
  BY <1>3, <1>4

LEMMA ModShift ==
  ASSUME NEW a \in Int, NEW m \in Nat \ {0}
  PROVE  (a + m) % m = a % m
<1>0. a + m \in Int
  OBVIOUS
<1>1. PICK q \in Int, r \in 0..(m - 1) : a = m * q + r /\ a % m = r
  BY DivMod
<1>2. PICK p \in Int, s \in 0..(m - 1) : a + m = m * p + s /\ (a + m) % m = s
  BY <1>0, DivMod
<1>3. m * (p - q - 1) = r - s
  BY <1>1, <1>2
<1>4. p - q - 1 = 0
  <2>1. r - s < m /\ -m < r - s
    OBVIOUS
  <2> QED
    BY <2>1, <1>3, ZeroMultiple
<1> QED
  BY <1>1, <1>2, <1>3, <1>4

(* Tickets less than a lap apart are in different slots. *)
LEMMA SlotInjective ==
  ASSUME NEW a \in Int, NEW b \in Int,
         a - b < Capacity, b - a < Capacity, SlotOf(a) = SlotOf(b)
  PROVE  a = b
BY LogQueueAssumption, ModInjective DEF SlotOf

LEMMA SlotShift ==
  ASSUME NEW n \in Int
  PROVE  SlotOf(n + Capacity) = SlotOf(n)
BY LogQueueAssumption, ModShift DEF SlotOf

LEMMA WordInjective ==
  ASSUME NEW a \in Int, NEW b \in Int,
         a - b < Modulus, b - a < Modulus, Word(a) = Word(b)
  PROVE  a = b
BY LogQueueAssumption, ModInjective DEF Word

(* A zero difference of two counters less than Modulus apart is equality,  *)
(* however the build evaluates it.                                         *)
LEMMA DiffZero ==
  ASSUME NEW s \in Int, NEW h \in Int,
         s - h < Modulus, h - s < Modulus, 0 \in Diffs(s, h)
  PROVE  s = h
<1>0. Modulus \in Nat \ {0}
  BY LogQueueAssumption
<1>1. Modulus \div 2 \in Int /\ Modulus \div 2 < Modulus /\ 0 <= Modulus \div 2
  BY <1>0
<1>2. \A w \in 0..(Modulus - 1) : Signed(w) \in Int
  BY <1>0, <1>1 DEF Signed
<1>3. Word(s) \in 0..(Modulus - 1) /\ Word(h) \in 0..(Modulus - 1)
      /\ Word(s - h) \in 0..(Modulus - 1)
  BY <1>0 DEF Word
<1>4. CASE Signed(Word(s - h)) = 0
  <2>1. Word(s - h) = 0
    BY <1>0, <1>1, <1>3, <1>4 DEF Signed
  <2> QED
    BY <2>1, <1>0, ModZero DEF Word
<1>5. CASE Signed(Word(s)) - Signed(Word(h)) = 0
  <2>1. Word(s) = Word(h)
    BY <1>0, <1>1, <1>3, <1>5 DEF Signed
  <2> QED
    BY <2>1, WordInjective
<1> QED
  BY <1>4, <1>5 DEF Diffs
-----------------------------------------------------------------------------
(* The steps of TryPush that claim nothing leave the ring alone. *)

LEMMA ConstantsOK ==
  /\ Capacity \in Nat \ {0}
  /\ Modulus \in Nat \ {0}
  /\ Modulus > 2 * Capacity
  /\ MaxCalls \in Nat
BY LogQueueAssumption

LEMMA ClaimantFrame ==
  ASSUME IInv, NEW p \in Producers, ~Owns(p), ~Owns(p)',
         \A q \in Producers \ {p} :
           pc'[q] = pc[q] /\ ph'[q] = ph[q] /\ calls'[q] = calls[q],
         UNCHANGED <<head, seq, data, tail, cpc, out, accepted, delivered>>
  PROVE  CountersInv' /\ RingInv' /\ OwnerInv' /\ ConsumerInv' /\ DeliveredPrefix'
<1>1. \A q \in Producers :
        /\ Owns(q)' <=> Owns(q)
        /\ Owns(q) => pc'[q] = pc[q] /\ ph'[q] = ph[q] /\ calls'[q] = calls[q]
  BY DEF Owns
<1>2. \A n : Claimed(n)' <=> Claimed(n)
  BY <1>1 DEF Claimed
<1>3. Released' = Released
  BY DEF Released
<1>4. CountersInv'
  BY <1>3 DEF IInv, RingCorrect, CountersInv
<1>5. RingInv'
  BY <1>2, <1>3 DEF IInv, RingCorrect, RingInv, SlotInv
<1>6. OwnerInv'
  BY <1>1, <1>3 DEF IInv, RingCorrect, OwnerInv, Entry
<1>7. ConsumerInv'
  BY <1>2 DEF IInv, RingCorrect, ConsumerInv
<1>8. DeliveredPrefix'
  BY DEF IInv, RingCorrect, DeliveredPrefix
<1> QED
  BY <1>4, <1>5, <1>6, <1>7, <1>8

LEMMA LoadHeadStep ==
  ASSUME IInv, NEW p \in Producers, LoadHead(p)
  PROVE  RingCorrect'
<1>1. CountersInv' /\ RingInv' /\ OwnerInv' /\ ConsumerInv' /\ DeliveredPrefix'
  <2>1. ~Owns(p) /\ ~Owns(p)'
    BY DEF LoadHead, Owns, IInv, TypeOK
  <2> QED
    BY <2>1, ClaimantFrame DEF LoadHead, consumerVars, history, IInv, TypeOK
<1>2. CasInv'
  <2>1. head \in Nat /\ Released' = Released /\ head' = head
    BY DEF LoadHead, consumerVars, IInv, TypeOK, Released
  <2>2. Modulus \div 2 >= Capacity
    BY ConstantsOK
  <2> QED
    BY <2>1, <2>2, ConstantsOK DEF LoadHead, IInv, TypeOK, RingCorrect, CasInv
<1> QED
  BY <1>1, <1>2 DEF RingCorrect

LEMMA ReloadHeadStep ==
  ASSUME IInv, NEW p \in Producers, ReloadHead(p) \/ CasFails(p)
  PROVE  RingCorrect'
<1>1. CountersInv' /\ RingInv' /\ OwnerInv' /\ ConsumerInv' /\ DeliveredPrefix'
  <2>1. ~Owns(p) /\ ~Owns(p)'
    BY DEF ReloadHead, CasWins, CasFails, Owns, IInv, TypeOK
  <2> QED
    BY <2>1, ClaimantFrame
       DEF ReloadHead, CasWins, CasFails, consumerVars, history, IInv, TypeOK
<1>2. CasInv'
  <2>1. head \in Nat /\ Released' = Released /\ head' = head
    BY DEF ReloadHead, CasWins, CasFails, consumerVars, IInv, TypeOK, Released
  <2>2. Modulus \div 2 >= Capacity
    BY ConstantsOK
  <2>3. /\ pc'[p] = "read" /\ ph'[p] = head
        /\ \A q \in Producers \ {p} : pc'[q] = pc[q] /\ ph'[q] = ph[q]
    BY DEF ReloadHead, CasWins, CasFails, IInv, TypeOK
  <2> QED
    BY <2>1, <2>2, <2>3, ConstantsOK DEF IInv, RingCorrect, CasInv
<1> QED
  BY <1>1, <1>2 DEF RingCorrect

(* A zero difference read with a current head shows a free slot. *)
LEMMA ReadSeqStep ==
  ASSUME IInv, Capacity > 1, NEW p \in Producers, ReadSeq(p)
  PROVE  RingCorrect'
<1>0. Capacity \in Nat /\ Modulus \in Nat /\ Modulus > 2 * Capacity
  BY ConstantsOK
<1>1. CountersInv' /\ RingInv' /\ OwnerInv' /\ ConsumerInv' /\ DeliveredPrefix'
  <2>1. ~Owns(p) /\ ~Owns(p)'
    BY DEF Outcome, ReadSeq, Owns, IInv, TypeOK
  <2> QED
    BY <2>1, ClaimantFrame DEF Outcome, ReadSeq, consumerVars, IInv, TypeOK
<1>2. ASSUME pc'[p] = "cas", ph[p] = head
      PROVE  head < Released + Capacity
  <2>1. 0 \in Diffs(seq[SlotOf(head)], head)
    BY <1>2 DEF Outcome, ReadSeq, IInv, TypeOK
  <2>2. SUFFICES ASSUME head = Released + Capacity PROVE FALSE
    BY <1>0 DEF IInv, RingCorrect, CountersInv, TypeOK, Released
  <2>3. Released \in Int
    BY DEF IInv, TypeOK, Released
  <2>4. SlotOf(head) = SlotOf(Released)
    BY <2>2, <2>3, SlotShift
  <2>5. seq[SlotOf(head)] \in {Released, Released + 1}
    <3>1. SlotInv(Released)
      BY <1>0, <2>3 DEF IInv, RingCorrect, RingInv
    <3> QED
      BY <3>1, <2>4 DEF SlotInv
  <2>6. seq[SlotOf(head)] = head
    BY <1>0, <2>1, <2>2, <2>3, <2>5, DiffZero DEF IInv, TypeOK
  <2> QED
    BY <1>0, <2>2, <2>3, <2>5, <2>6
<1>3. CasInv'
  <2>1. /\ pc[p] = "read"
        /\ \A q \in Producers \ {p} : pc'[q] = pc[q]
        /\ head' = head /\ ph' = ph /\ Released' = Released
    BY DEF Outcome, ReadSeq, consumerVars, Released, IInv, TypeOK
  <2> QED
    BY <1>2, <2>1 DEF IInv, RingCorrect, CasInv
<1> QED
  BY <1>1, <1>3 DEF RingCorrect

(* The CAS succeeds only with the current head: within StallBound equal    *)
(* words are equal counters.                                               *)
LEMMA CasHeadIsCurrent ==
  ASSUME IInv, NEW p \in Producers, CasSucceeds(p)
  PROVE  ph[p] = head
<1>1. ph[p] \in Nat /\ head \in Nat /\ ph[p] <= head
      /\ head - ph[p] <= Modulus \div 2 - Capacity
  BY DEF CasWins, CasSucceeds, IInv, TypeOK, RingCorrect, CasInv
<1>2. /\ Modulus \div 2 < Modulus /\ Modulus \div 2 \in Int
      /\ Capacity \in Nat /\ Modulus \in Nat
  BY ConstantsOK
<1>3. head - ph[p] < Modulus /\ ph[p] - head < Modulus
  BY <1>1, <1>2
<1> QED
  BY <1>1, <1>3, WordInjective DEF CasWins, CasSucceeds

(* The winner of the CAS owns the slot of the ticket it has drawn. *)
LEMMA CasSucceedsStep ==
  ASSUME IInv, NEW p \in Producers, CasSucceeds(p)
  PROVE  RingCorrect'
<1> DEFINE R == Released
<1>0. Capacity \in Nat \ {0} /\ Modulus \in Nat /\ Modulus > 2 * Capacity
  BY ConstantsOK
<1>1. /\ head \in Nat /\ tail \in Nat /\ R \in Int /\ ph \in [Producers -> Nat]
      /\ pc[p] = "cas" /\ pc'[p] = "write"
      /\ \A q \in Producers \ {p} : pc'[q] = pc[q]
      /\ head' = head + 1 /\ Released' = R
      /\ ph' = ph /\ calls' = calls /\ seq' = seq /\ data' = data
      /\ tail' = tail /\ cpc' = cpc /\ out' = out /\ delivered' = delivered
      /\ accepted' = Append(accepted, Entry(p))
  BY DEF CasWins, CasSucceeds, consumerVars, IInv, TypeOK, Released
<1>2. ph[p] = head
  BY CasHeadIsCurrent
<1>3. tail <= head /\ head < R + Capacity /\ R <= tail
  BY <1>1, <1>2 DEF IInv, RingCorrect, CountersInv, CasInv, Released
<1>4. Entry(p) \in Entries
  BY <1>1, EntryIsEntry DEF IInv
<1>5. /\ Len(accepted) = head /\ Len(accepted') = head + 1
      /\ accepted'[head + 1] = Entry(p)
      /\ \A i \in 1..head : accepted'[i] = accepted[i]
  <2>1. accepted \in Seq(Entries) /\ Len(accepted) = head
    BY DEF IInv, TypeOK, RingCorrect, CountersInv
  <2> QED
    BY <1>1, <1>4, <2>1
<1>6. \A q \in Producers : Owns(q)' <=> (q = p \/ Owns(q))
  BY <1>1 DEF Owns
<1>7. \A n : Claimed(n)' <=> (n = head \/ Claimed(n))
  BY <1>1, <1>2, <1>6 DEF Claimed
<1>8. \A q \in Producers : Owns(q) => ph[q] >= R /\ ph[q] < head
  BY <1>1 DEF IInv, RingCorrect, OwnerInv
<1>9. CountersInv'
  BY <1>0, <1>1, <1>3, <1>5 DEF IInv, RingCorrect, CountersInv
<1>10. RingInv'
  <2>1. SUFFICES ASSUME NEW n \in R..(R + Capacity - 1)
                 PROVE  SlotInv(n)'
    BY <1>1 DEF RingInv
  <2>2. SlotInv(n)
    BY DEF IInv, RingCorrect, RingInv
  <2>3. n \in Int
    BY <1>0, <1>1
  <2>4. CASE n = head
    BY <1>1, <1>7, <2>2, <2>4 DEF SlotInv
  <2>5. CASE n < head
    <3>1. n + 1 \in 1..head
      BY <1>1, <2>3, <2>5, <1>3 DEF Released, IInv, RingCorrect, CountersInv
    <3> QED
      BY <1>1, <1>5, <1>7, <2>2, <2>3, <2>5, <3>1 DEF SlotInv
  <2>6. CASE n > head
    BY <1>1, <1>7, <2>2, <2>3, <2>6 DEF SlotInv
  <2> QED
    BY <1>1, <2>3, <2>4, <2>5, <2>6
<1>11. OwnerInv'
  <2>1. ASSUME NEW q \in Producers, Owns(q), q # p
        PROVE  /\ ph[q] + 1 \in 1..head
               /\ accepted[ph[q] + 1] = Entry(q)
               /\ pc[q] = "publish" => data[SlotOf(ph[q])] = Entry(q)
               /\ \A r \in Producers \ {q} : Owns(r) => ph[q] # ph[r]
    BY <1>1, <2>1 DEF IInv, RingCorrect, OwnerInv
  <2>2. Entry(p)' = Entry(p) /\ \A q \in Producers : Entry(q)' = Entry(q)
    BY <1>1 DEF Entry
  <2> QED
    BY <1>1, <1>2, <1>3, <1>5, <1>6, <1>8, <2>1, <2>2 DEF OwnerInv
<1>12. CasInv'
  <2>1. ASSUME NEW q \in Producers, pc'[q] \in {"read", "cas"}
        PROVE  /\ q # p /\ pc[q] = pc'[q]
               /\ ph[q] <= head
               /\ head - ph[q] < Modulus \div 2 - Capacity
    BY <1>1, <2>1 DEF IInv, RingCorrect, CasInv, CasSucceeds, StallBound
  <2>2. Modulus \div 2 \in Int
    BY <1>0
  <2> QED
    BY <1>0, <1>1, <2>1, <2>2 DEF CasInv
<1>13. ConsumerInv'
  <2>1. /\ cpc \in {"copy", "copying", "advance"} => tail < head /\ ~Claimed(tail)
        /\ cpc = "release" => tail > 0 /\ ~Claimed(tail - 1)
        /\ cpc \in {"copying", "advance"} => out = accepted[tail + 1]
        /\ cpc = "release" => out = accepted[tail]
    BY DEF IInv, RingCorrect, ConsumerInv, CountersInv
  <2>2. cpc = "release" => tail \in 1..head
    BY <1>1, <1>3, <2>1
  <2>3. cpc \in {"copying", "advance"} => tail + 1 \in 1..head
    BY <1>1, <1>3, <2>1
  <2> QED
    BY <1>1, <1>3, <1>5, <1>7, <2>1, <2>2, <2>3 DEF ConsumerInv
<1>14. DeliveredPrefix'
  BY <1>1, <1>5 DEF IInv, TypeOK, RingCorrect, CountersInv, DeliveredPrefix
<1> QED
  BY <1>9, <1>10, <1>11, <1>12, <1>13, <1>14 DEF RingCorrect

(* The owner of ticket n is the only producer at its slot, and the slot is *)
(* not the one of another ticket of the current lap.                       *)
LEMMA OwnerFacts ==
  ASSUME IInv, NEW p \in Producers, Owns(p)
  PROVE  /\ ph[p] \in Nat /\ head \in Nat /\ tail \in Nat /\ Released \in Int
         /\ ph[p] >= Released /\ ph[p] < head /\ head <= Released + Capacity
         /\ Len(accepted) = head /\ ph[p] + 1 \in 1..Len(accepted)
         /\ accepted[ph[p] + 1] = Entry(p)
         /\ Claimed(ph[p])
         /\ \A q \in Producers \ {p} : Owns(q) => ph[q] # ph[p]
         /\ SlotOf(ph[p]) \in Slots
         /\ \A n \in Released..(Released + Capacity - 1) :
              n # ph[p] => SlotOf(n) # SlotOf(ph[p])
         /\ seq[SlotOf(ph[p])] = ph[p]
<1>0. Capacity \in Nat \ {0}
  BY ConstantsOK
<1>1. /\ ph[p] \in Nat /\ head \in Nat /\ tail \in Nat /\ Released \in Int
      /\ tail \in {Released, Released + 1}
  BY DEF IInv, TypeOK, Released
<1>2. /\ ph[p] >= Released /\ ph[p] < head /\ head <= Released + Capacity
      /\ Len(accepted) = head /\ tail <= head /\ Released >= 0
  BY <1>1 DEF IInv, RingCorrect, OwnerInv, CountersInv, Released, TypeOK
<1>3. /\ accepted[ph[p] + 1] = Entry(p)
      /\ \A q \in Producers \ {p} : Owns(q) => ph[q] # ph[p]
  BY DEF IInv, RingCorrect, OwnerInv
<1>4. Claimed(ph[p])
  BY DEF Claimed
<1>5. SlotOf(ph[p]) \in Slots
  BY <1>1, SlotIsSlot
<1>6. ASSUME NEW n \in Released..(Released + Capacity - 1), n # ph[p]
      PROVE  SlotOf(n) # SlotOf(ph[p])
  <2>1. n \in Int /\ n - ph[p] < Capacity /\ ph[p] - n < Capacity
    BY <1>0, <1>1, <1>2
  <2> QED
    BY <1>1, <1>6, <2>1, SlotInjective
<1>7. seq[SlotOf(ph[p])] = ph[p]
  <2>1. ph[p] \in Released..(Released + Capacity - 1)
    BY <1>0, <1>1, <1>2
  <2> QED
    BY <1>4, <2>1 DEF IInv, RingCorrect, RingInv, SlotInv
<1> QED
  BY <1>1, <1>2, <1>3, <1>4, <1>5, <1>6, <1>7

(* Writing the message of an owned slot disturbs nobody. *)
LEMMA WriteStep ==
  ASSUME IInv, NEW p \in Producers, BeginWrite(p) \/ EndWrite(p)
  PROVE  RingCorrect'
<1> DEFINE R == Released
<1>0. Capacity \in Nat \ {0}
  BY ConstantsOK
<1>1. /\ Owns(p) /\ head' = head /\ Released' = R /\ ph' = ph /\ calls' = calls
      /\ seq' = seq /\ tail' = tail /\ cpc' = cpc /\ out' = out
      /\ delivered' = delivered /\ accepted' = accepted
      /\ \A q \in Producers \ {p} : pc'[q] = pc[q]
      /\ pc'[p] \in {"writing", "publish"}
      /\ pc'[p] = "publish" => data'[SlotOf(ph[p])] = Entry(p)
      /\ \A i \in Slots : i # SlotOf(ph[p]) => data'[i] = data[i]
  <2>1. SlotOf(ph[p]) \in Slots
    BY SlotIsSlot DEF IInv, TypeOK
  <2> QED
    BY <2>1 DEF BeginWrite, EndWrite, Owns, consumerVars, history, IInv, TypeOK,
                Released
<1>2. /\ ph[p] \in Nat /\ head \in Nat /\ tail \in Nat /\ R \in Int
      /\ ph[p] >= R /\ ph[p] < head /\ head <= R + Capacity
      /\ accepted[ph[p] + 1] = Entry(p)
      /\ Claimed(ph[p])
      /\ \A q \in Producers \ {p} : Owns(q) => ph[q] # ph[p]
      /\ \A n \in R..(R + Capacity - 1) :
              n # ph[p] => SlotOf(n) # SlotOf(ph[p])
  BY <1>1, OwnerFacts
<1>3. \A q \in Producers : (Owns(q)' <=> Owns(q)) /\ Entry(q)' = Entry(q)
  BY <1>1 DEF Owns, Entry
<1>4. \A n : Claimed(n)' <=> Claimed(n)
  BY <1>1, <1>3 DEF Claimed
<1>5. CountersInv'
  BY <1>1 DEF IInv, RingCorrect, CountersInv
<1>6. RingInv'
  <2>1. SUFFICES ASSUME NEW n \in R..(R + Capacity - 1)
                 PROVE  SlotInv(n)'
    BY <1>1 DEF RingInv
  <2>2. SlotInv(n) /\ n \in Int
    BY <1>0, <1>2 DEF IInv, RingCorrect, RingInv
  <2>3. CASE n = ph[p]
    BY <1>1, <1>2, <1>4, <2>2, <2>3 DEF SlotInv
  <2>4. CASE n # ph[p]
    BY <1>1, <1>2, <1>4, <2>2, <2>4, SlotIsSlot DEF SlotInv
  <2> QED
    BY <2>3, <2>4
<1>7. OwnerInv'
  <2>1. SUFFICES ASSUME NEW q \in Producers, Owns(q)'
                 PROVE  /\ ph[q] >= R /\ ph[q] < head
                        /\ accepted[ph[q] + 1] = Entry(q)
                        /\ pc'[q] = "publish" => data'[SlotOf(ph[q])] = Entry(q)
                        /\ \A r \in Producers \ {q} : Owns(r)' => ph[r] # ph[q]
    BY <1>1, <1>3 DEF OwnerInv
  <2>2. Owns(q)
    BY <1>3, <2>1
  <2>3. CASE q = p
    BY <1>1, <1>2, <1>3, <2>3
  <2>4. CASE q # p
    <3>1. /\ ph[q] \in R..(R + Capacity - 1) /\ ph[q] < head
          /\ accepted[ph[q] + 1] = Entry(q)
          /\ pc[q] = "publish" => data[SlotOf(ph[q])] = Entry(q)
          /\ \A r \in Producers \ {q} : Owns(r) => ph[r] # ph[q]
          /\ ph[q] \in Int
      BY <1>0, <1>2, <2>2, OwnerFacts DEF IInv, RingCorrect, OwnerInv
    <3>2. SlotOf(ph[q]) # SlotOf(ph[p]) /\ SlotOf(ph[q]) \in Slots
      BY <1>2, <2>2, <2>4, <3>1, SlotIsSlot
    <3> QED
      BY <1>1, <1>3, <2>4, <3>1, <3>2
  <2> QED
    BY <2>3, <2>4
<1>8. CasInv'
  BY <1>1 DEF IInv, RingCorrect, CasInv
<1>9. ConsumerInv'
  BY <1>1, <1>4 DEF IInv, RingCorrect, ConsumerInv
<1>10. DeliveredPrefix'
  BY <1>1 DEF IInv, RingCorrect, DeliveredPrefix
<1> QED
  BY <1>5, <1>6, <1>7, <1>8, <1>9, <1>10 DEF RingCorrect

(* The release store makes the entry of the owned slot visible. *)
LEMMA PublishStep ==
  ASSUME IInv, NEW p \in Producers, Publish(p)
  PROVE  RingCorrect'
<1> DEFINE R == Released
<1>0. Capacity \in Nat \ {0}
  BY ConstantsOK
<1>1. /\ Owns(p) /\ pc[p] = "publish" /\ pc'[p] = "idle"
      /\ head' = head /\ Released' = R /\ ph' = ph /\ calls' = calls
      /\ data' = data /\ tail' = tail /\ cpc' = cpc /\ out' = out
      /\ delivered' = delivered /\ accepted' = accepted
      /\ \A q \in Producers \ {p} : pc'[q] = pc[q]
      /\ seq'[SlotOf(ph[p])] = ph[p] + 1
      /\ \A i \in Slots : i # SlotOf(ph[p]) => seq'[i] = seq[i]
  <2>1. SlotOf(ph[p]) \in Slots
    BY SlotIsSlot DEF IInv, TypeOK
  <2> QED
    BY <2>1 DEF PublishedSeq, Publish, Owns, consumerVars, history, IInv, TypeOK, Released
<1>2. /\ ph[p] \in Nat /\ head \in Nat /\ tail \in Nat /\ R \in Int
      /\ ph[p] >= R /\ ph[p] < head /\ head <= R + Capacity
      /\ accepted[ph[p] + 1] = Entry(p)
      /\ Claimed(ph[p])
      /\ \A q \in Producers \ {p} : Owns(q) => ph[q] # ph[p]
      /\ \A n \in R..(R + Capacity - 1) :
              n # ph[p] => SlotOf(n) # SlotOf(ph[p])
  BY <1>1, OwnerFacts
<1>3. \A q \in Producers : Owns(q)' <=> (q # p /\ Owns(q))
  BY <1>1 DEF Owns
<1>4. \A n : Claimed(n)' <=> (n # ph[p] /\ Claimed(n))
  BY <1>1, <1>2, <1>3 DEF Claimed
<1>5. CountersInv'
  BY <1>1 DEF IInv, RingCorrect, CountersInv
<1>6. RingInv'
  <2>1. SUFFICES ASSUME NEW n \in R..(R + Capacity - 1)
                 PROVE  SlotInv(n)'
    BY <1>1 DEF RingInv
  <2>2. SlotInv(n) /\ n \in Int
    BY <1>0, <1>2 DEF IInv, RingCorrect, RingInv
  <2>3. CASE n = ph[p]
    <3>1. data[SlotOf(ph[p])] = Entry(p)
      BY <1>1 DEF IInv, RingCorrect, OwnerInv
    <3> QED
      BY <1>1, <1>2, <1>4, <2>2, <2>3, <3>1 DEF SlotInv
  <2>4. CASE n # ph[p]
    <3>1. SlotOf(n) \in Slots /\ SlotOf(n) # SlotOf(ph[p])
      BY <1>2, <2>2, <2>4, SlotIsSlot
    <3>2. seq'[SlotOf(n)] = seq[SlotOf(n)] /\ (Claimed(n)' <=> Claimed(n))
      BY <1>1, <1>4, <2>4, <3>1
    <3> QED
      BY <1>1, <2>2, <3>2 DEF SlotInv
  <2> QED
    BY <2>3, <2>4
<1>7. OwnerInv'
  BY <1>1, <1>3 DEF IInv, RingCorrect, OwnerInv, Entry
<1>8. CasInv'
  BY <1>1 DEF IInv, RingCorrect, CasInv
<1>9. ConsumerInv'
  BY <1>1, <1>4 DEF IInv, RingCorrect, ConsumerInv
<1>10. DeliveredPrefix'
  BY <1>1 DEF IInv, RingCorrect, DeliveredPrefix
<1> QED
  BY <1>5, <1>6, <1>7, <1>8, <1>9, <1>10 DEF RingCorrect
-----------------------------------------------------------------------------
(* The steps of TryPop. *)

LEMMA CountersFacts ==
  ASSUME IInv
  PROVE  /\ head \in Nat /\ tail \in Nat /\ Released \in Nat
         /\ tail <= head /\ head <= Released + Capacity
         /\ Len(accepted) = head /\ Len(delivered) = Released
         /\ cpc = "release" => Released = tail - 1
         /\ cpc # "release" => Released = tail
BY DEF IInv, TypeOK, RingCorrect, CountersInv, Released

(* While the consumer only copies, the producers see nothing. *)
LEMMA CopyFrame ==
  ASSUME IInv, cpc # "release", cpc' # "release",
         UNCHANGED <<head, tail, seq, data, producerVars, history>>
  PROVE  CountersInv' /\ RingInv' /\ OwnerInv' /\ CasInv' /\ DeliveredPrefix'
         /\ (\A n : Claimed(n)' <=> Claimed(n))
<1>1. Released' = Released /\ pc' = pc /\ ph' = ph /\ calls' = calls
      /\ accepted' = accepted /\ delivered' = delivered
  BY DEF Released, producerVars, history
<1>2. \A q \in Producers : (Owns(q)' <=> Owns(q)) /\ Entry(q)' = Entry(q)
  BY <1>1 DEF Owns, Entry
<1>3. \A n : Claimed(n)' <=> Claimed(n)
  BY <1>1, <1>2 DEF Claimed
<1>4. CountersInv'
  BY <1>1 DEF IInv, RingCorrect, CountersInv
<1>5. RingInv'
  BY <1>1, <1>3 DEF IInv, RingCorrect, RingInv, SlotInv
<1>6. OwnerInv'
  BY <1>1, <1>2 DEF IInv, RingCorrect, OwnerInv
<1>7. CasInv'
  BY <1>1 DEF IInv, RingCorrect, CasInv
<1>8. DeliveredPrefix'
  BY <1>1 DEF IInv, RingCorrect, DeliveredPrefix
<1> QED
  BY <1>3, <1>4, <1>5, <1>6, <1>7, <1>8

LEMMA FindEntryStep ==
  ASSUME IInv, FindEntry
  PROVE  RingCorrect'
<1>0. Capacity \in Nat \ {0} /\ Modulus \in Nat /\ Modulus > 2 * Capacity
  BY ConstantsOK
<1>1. CountersInv' /\ RingInv' /\ OwnerInv' /\ CasInv' /\ DeliveredPrefix'
      /\ (\A n : Claimed(n)' <=> Claimed(n))
  BY CopyFrame DEF FindEntry
<1>2. tail < head /\ ~Claimed(tail)
  <2>1. tail \in Nat /\ Released = tail
    BY CountersFacts DEF FindEntry
  <2>2. SlotInv(tail)
    BY <1>0, <2>1 DEF IInv, RingCorrect, RingInv
  <2>3. seq[SlotOf(tail)] \in {tail, tail + 1}
    BY <2>2 DEF SlotInv
  <2>4. seq[SlotOf(tail)] = tail + 1
    BY <1>0, <2>1, <2>3, DiffZero DEF FindEntry
  <2> QED
    BY <2>1, <2>2, <2>4 DEF SlotInv
<1>3. ConsumerInv'
  BY <1>1, <1>2 DEF FindEntry, ConsumerInv
<1> QED
  BY <1>1, <1>3 DEF RingCorrect

(* The slot at tail is published: its message cannot change.  *)
LEMMA CopyStep ==
  ASSUME IInv, BeginCopy \/ EndCopy
  PROVE  RingCorrect'
<1>0. Capacity \in Nat \ {0}
  BY ConstantsOK
<1>1. CountersInv' /\ RingInv' /\ OwnerInv' /\ CasInv' /\ DeliveredPrefix'
      /\ (\A n : Claimed(n)' <=> Claimed(n))
  BY CopyFrame DEF BeginCopy, EndCopy
<1>2. /\ tail < head /\ ~Claimed(tail)
      /\ cpc = "copying" => out = accepted[tail + 1]
  BY DEF BeginCopy, EndCopy, IInv, RingCorrect, ConsumerInv
<1>3. data[SlotOf(tail)] = accepted[tail + 1]
  <2>1. tail \in Nat /\ Released = tail
    BY CountersFacts DEF BeginCopy, EndCopy
  <2> QED
    BY <1>0, <1>2, <2>1 DEF IInv, RingCorrect, RingInv, SlotInv
<1>4. /\ tail' = tail /\ head' = head /\ accepted' = accepted
      /\ out' = accepted[tail + 1] /\ cpc' \in {"copying", "advance"}
  BY <1>2, <1>3 DEF BeginCopy, EndCopy, history
<1>5. ConsumerInv'
  BY <1>1, <1>2, <1>4 DEF ConsumerInv
<1> QED
  BY <1>1, <1>5 DEF RingCorrect

LEMMA AdvanceTailStep ==
  ASSUME IInv, AdvanceTail
  PROVE  RingCorrect'
<1>1. /\ tail' = tail + 1 /\ head' = head /\ seq' = seq /\ data' = data
      /\ pc' = pc /\ ph' = ph /\ calls' = calls /\ out' = out
      /\ accepted' = accepted /\ delivered' = delivered
      /\ cpc = "advance" /\ cpc' = "release"
  BY DEF AdvanceTail, producerVars, history
<1>2. /\ head \in Nat /\ tail \in Nat /\ Released = tail
      /\ head <= Released + Capacity
  BY <1>1, CountersFacts
<1>3. tail < head /\ ~Claimed(tail) /\ out = accepted[tail + 1]
  BY <1>1 DEF IInv, RingCorrect, ConsumerInv
<1>4. Released' = Released
  BY <1>1, <1>2 DEF Released
<1>5. \A q \in Producers : (Owns(q)' <=> Owns(q)) /\ Entry(q)' = Entry(q)
  BY <1>1 DEF Owns, Entry
<1>6. \A n : Claimed(n)' <=> Claimed(n)
  BY <1>1, <1>5 DEF Claimed
<1>7. CountersInv'
  BY <1>1, <1>2, <1>3, <1>4 DEF IInv, RingCorrect, CountersInv
<1>8. RingInv'
  BY <1>1, <1>4, <1>6 DEF IInv, RingCorrect, RingInv, SlotInv
<1>9. OwnerInv'
  BY <1>1, <1>4, <1>5 DEF IInv, RingCorrect, OwnerInv
<1>10. CasInv'
  BY <1>1, <1>4 DEF IInv, RingCorrect, CasInv
<1>11. ConsumerInv'
  BY <1>1, <1>2, <1>3, <1>6 DEF ConsumerInv
<1>12. DeliveredPrefix'
  BY <1>1 DEF IInv, RingCorrect, DeliveredPrefix
<1> QED
  BY <1>7, <1>8, <1>9, <1>10, <1>11, <1>12 DEF RingCorrect

(* The slot of the popped ticket becomes the free slot of the ticket one   *)
(* lap later.                                                              *)
LEMMA ReleaseSlotStep ==
  ASSUME IInv, ReleaseSlot
  PROVE  RingCorrect'
<1> DEFINE R == Released
<1>0. Capacity \in Nat \ {0}
  BY ConstantsOK
<1>1. /\ tail' = tail /\ head' = head /\ data' = data
      /\ pc' = pc /\ ph' = ph /\ calls' = calls /\ out' = out
      /\ accepted' = accepted /\ delivered' = Append(delivered, out)
      /\ cpc = "release" /\ cpc' = "idle"
  BY DEF FreeSeq, ReleaseSlot, producerVars
<1>2. /\ head \in Nat /\ tail \in Nat /\ R \in Nat /\ R = tail - 1
      /\ tail <= head /\ head <= R + Capacity
      /\ Len(accepted) = head /\ Len(delivered) = R
  BY <1>1, CountersFacts
<1>3. ~Claimed(R) /\ out = accepted[tail]
  BY <1>1, <1>2 DEF IInv, RingCorrect, ConsumerInv
<1>4. Released' = R + 1
  BY <1>1, <1>2 DEF Released
<1>5. /\ seq'[SlotOf(R)] = R + Capacity
      /\ \A i \in Slots : i # SlotOf(R) => seq'[i] = seq[i]
  BY <1>2, SlotIsSlot DEF FreeSeq, ReleaseSlot, IInv, TypeOK
<1>6. \A q \in Producers : (Owns(q)' <=> Owns(q)) /\ Entry(q)' = Entry(q)
  BY <1>1 DEF Owns, Entry
<1>7. \A n : Claimed(n)' <=> Claimed(n)
  BY <1>1, <1>6 DEF Claimed
<1>8. CountersInv'
  <2>1. Len(delivered') = R + 1
    BY <1>1, <1>2 DEF IInv, TypeOK
  <2> QED
    BY <1>0, <1>1, <1>2, <1>4, <2>1 DEF CountersInv
<1>9. RingInv'
  <2>1. SUFFICES ASSUME NEW n \in (R + 1)..(R + Capacity)
                 PROVE  SlotInv(n)'
    BY <1>0, <1>2, <1>4 DEF RingInv
  <2>2. n \in Nat
    BY <1>2
  <2>3. CASE n = R + Capacity
    <3>1. SlotOf(n) = SlotOf(R) /\ n >= head
      BY <1>2, <2>3, SlotShift
    <3> QED
      BY <1>1, <1>2, <1>5, <2>2, <2>3, <3>1 DEF SlotInv
  <2>4. CASE n # R + Capacity
    <3>1. SlotInv(n)
      BY <1>0, <1>2, <2>4 DEF IInv, RingCorrect, RingInv
    <3>2. SlotOf(n) # SlotOf(R)
      <4>1. n - R < Capacity /\ R - n < Capacity /\ n # R
        BY <1>0, <1>2, <2>4
      <4> QED
        BY <1>2, <2>2, <4>1, SlotInjective
    <3>3. seq'[SlotOf(n)] = seq[SlotOf(n)]
      BY <1>5, <2>2, <3>2, SlotIsSlot
    <3> QED
      BY <1>1, <1>7, <3>1, <3>3 DEF SlotInv
  <2> QED
    BY <2>3, <2>4
<1>10. OwnerInv'
  <2>1. ASSUME NEW q \in Producers, Owns(q)
        PROVE  ph[q] >= R + 1
    <3>1. ph[q] # R
      BY <1>3, <2>1 DEF Claimed
    <3> QED
      BY <1>2, <2>1, <3>1, OwnerFacts
  <2> QED
    BY <1>1, <1>4, <1>6, <2>1 DEF IInv, RingCorrect, OwnerInv
<1>11. CasInv'
  <2>1. head < R + Capacity => head < R + 1 + Capacity
    BY <1>0, <1>2
  <2> QED
    BY <1>1, <1>4, <2>1 DEF IInv, RingCorrect, CasInv
<1>12. ConsumerInv'
  BY <1>1 DEF ConsumerInv
<1>13. DeliveredPrefix'
  <2>1. /\ Len(delivered') = R + 1
        /\ delivered'[R + 1] = out
        /\ \A i \in 1..R : delivered'[i] = delivered[i]
    BY <1>1, <1>2 DEF IInv, TypeOK
  <2>2. \A i \in 1..R : delivered[i] = accepted[i]
    BY <1>2 DEF IInv, RingCorrect, DeliveredPrefix
  <2> QED
    BY <1>1, <1>2, <1>3, <2>1, <2>2 DEF DeliveredPrefix
<1> QED
  BY <1>8, <1>9, <1>10, <1>11, <1>12, <1>13 DEF RingCorrect
-----------------------------------------------------------------------------
(* The ring invariant, for any number of producers and calls, and any      *)
(* capacity above one.  With one slot the sequence numbers of "published"  *)
(* and "free for the next lap" are the same number, and ReadSeqStep fails. *)

LEMMA InitOK == Init => RingCorrect
<1> SUFFICES ASSUME Init PROVE RingCorrect
  OBVIOUS
<1>0. Capacity \in Nat \ {0} /\ Modulus \div 2 >= Capacity
  BY ConstantsOK
<1>1. \A p \in Producers : ~Owns(p)
  BY DEF Init, Owns
<1>2. \A n : ~Claimed(n)
  BY <1>1 DEF Claimed
<1>3. Released = 0
  BY DEF Init, Released
<1>4. CountersInv
  BY <1>0, <1>3 DEF Init, CountersInv
<1>5. RingInv
  <2>1. \A n \in 0..(Capacity - 1) : SlotOf(n) = n /\ n \in Slots
    BY <1>0 DEF SlotOf, Slots
  <2> QED
    BY <1>0, <1>3, <2>1 DEF Init, RingInv, SlotInv
<1>6. OwnerInv
  BY <1>1 DEF OwnerInv
<1>7. CasInv
  BY <1>0, <1>3 DEF Init, CasInv
<1>8. ConsumerInv
  BY DEF Init, ConsumerInv
<1>9. DeliveredPrefix
  BY DEF Init, DeliveredPrefix
<1> QED
  BY <1>4, <1>5, <1>6, <1>7, <1>8, <1>9 DEF RingCorrect

LEMMA StepOK ==
  ASSUME IInv, Capacity > 1, [Next]_vars
  PROVE  RingCorrect'
<1>1. ASSUME NEW p \in Producers, TryPush(p) PROVE RingCorrect'
  BY <1>1, LoadHeadStep, ReadSeqStep, ReloadHeadStep, CasSucceedsStep,
     WriteStep, PublishStep DEF TryPush
<1>2. ASSUME TryPop PROVE RingCorrect'
  BY <1>2, FindEntryStep, CopyStep, AdvanceTailStep, ReleaseSlotStep DEF TryPop
<1>3. CASE UNCHANGED vars
  <2>1. /\ head' = head /\ tail' = tail /\ seq' = seq /\ data' = data
        /\ pc' = pc /\ ph' = ph /\ calls' = calls /\ cpc' = cpc /\ out' = out
        /\ accepted' = accepted /\ delivered' = delivered
    BY <1>3 DEF vars, producerVars, consumerVars, history
  <2>2. \A q \in Producers : (Owns(q)' <=> Owns(q)) /\ Entry(q)' = Entry(q)
    BY <2>1 DEF Owns, Entry
  <2>3. \A n : Claimed(n)' <=> Claimed(n)
    BY <2>1, <2>2 DEF Claimed
  <2>4. Released' = Released
    BY <2>1 DEF Released
  <2>5. RingInv'
    BY <2>1, <2>3, <2>4 DEF IInv, RingCorrect, RingInv, SlotInv
  <2>6. OwnerInv' /\ CountersInv' /\ CasInv'
    BY <2>1, <2>2, <2>4 DEF IInv, RingCorrect, OwnerInv, CountersInv, CasInv
  <2>7. ConsumerInv' /\ DeliveredPrefix'
    BY <2>1, <2>3 DEF IInv, RingCorrect, ConsumerInv, DeliveredPrefix
  <2> QED
    BY <2>5, <2>6, <2>7 DEF RingCorrect
<1> QED
  BY <1>1, <1>2, <1>3 DEF Next

(* The inductive invariant holds in every reachable state: each slot's     *)
(* sequence number says exactly whether it is free, claimed or published.  *)
THEOREM RingInvariant ==
  ASSUME Capacity > 1
  PROVE  Spec => []IInv
<1>1. Init => RingCorrect
  BY InitOK
<1>2. TypeOK /\ RingCorrect /\ [Next]_vars => RingCorrect'
  BY StepOK DEF IInv
<1>3. Spec => []TypeOK
  BY TypeCorrect
<1> QED
  BY <1>1, <1>2, <1>3, PTL DEF Spec, IInv

(* No accepted message is lost, duplicated, reordered or torn.             *)
THEOREM NoLossNoTear ==
  ASSUME Capacity > 1
  PROVE  Spec => []DeliveredPrefix
<1>1. IInv => DeliveredPrefix
  BY DEF IInv, RingCorrect
<1> QED
  BY <1>1, RingInvariant, PTL

(* The ring never holds more than Capacity messages.                       *)
THEOREM CapacityRespected ==
  ASSUME Capacity > 1
  PROVE  Spec => []NeverOverfull
<1>1. IInv => NeverOverfull
  BY CountersFacts, ConstantsOK DEF NeverOverfull
<1> QED
  BY <1>1, RingInvariant, PTL

(* The message of a slot is never accessed by two threads at once.         *)
THEOREM NoDataRace ==
  ASSUME Capacity > 1
  PROVE  Spec => []SlotExclusive
<1>1. ASSUME IInv PROVE SlotExclusive
  <2> SUFFICES ASSUME NEW p \in Producers, Owns(p)
               PROVE  /\ \A q \in Producers \ {p} :
                           Owns(q) => SlotOf(ph[q]) # SlotOf(ph[p])
                      /\ cpc \in {"copy", "copying", "advance"} =>
                           SlotOf(ph[p]) # SlotOf(tail)
    BY DEF SlotExclusive
  <2>1. Capacity \in Nat \ {0}
    BY ConstantsOK
  <2>2. ASSUME NEW q \in Producers \ {p}, Owns(q)
        PROVE  SlotOf(ph[q]) # SlotOf(ph[p])
    <3>1. ph[q] \in Released..(Released + Capacity - 1)
      BY <1>1, <2>1, <2>2, OwnerFacts
    <3> QED
      BY <1>1, <2>2, <3>1, OwnerFacts
  <2>3. ASSUME cpc \in {"copy", "copying", "advance"}
        PROVE  SlotOf(ph[p]) # SlotOf(tail)
    <3>1. tail = Released /\ tail \in Released..(Released + Capacity - 1)
      BY <1>1, <2>1, <2>3, CountersFacts
    <3>2. tail # ph[p]
      BY <1>1, <2>3 DEF IInv, RingCorrect, ConsumerInv, Claimed
    <3> QED
      BY <1>1, <3>1, <3>2, OwnerFacts
  <2> QED
    BY <2>2, <2>3
<1> QED
  BY <1>1, RingInvariant, PTL
-----------------------------------------------------------------------------
(* The order of one producer's messages. *)

LEMMA OrderStep ==
  ASSUME TypeOK, OrderInv, [Next]_vars
  PROVE  OrderInv'
<1>1. ASSUME NEW p \in Producers, LoadHead(p) PROVE OrderInv'
  <2>1. /\ pc[p] = "idle" /\ pc' = [pc EXCEPT ![p] = "read"]
        /\ calls' = [calls EXCEPT ![p] = @ + 1]
        /\ accepted' = accepted /\ refused' = refused
    BY <1>1 DEF LoadHead, history
  <2>2. \A i \in 1..Len(accepted) : accepted[i][1] \in Producers /\ accepted[i][2] \in Int
    BY SMTT(30) DEF TypeOK, Entries
  <2>3. \A e \in refused : e[1] \in Producers /\ e[2] \in Int
    BY DEF TypeOK, Entries
  <2>4. \A q \in Producers :
          /\ calls[q] \in Int /\ calls'[q] \in Int /\ calls[q] <= calls'[q]
          /\ q = p => calls[q] < calls'[q]
          /\ q # p => calls'[q] = calls[q] /\ pc'[q] = pc[q]
    BY <2>1 DEF TypeOK
  <2>5. ASSUME NEW i \in 1..Len(accepted)
        PROVE  /\ accepted[i][2] <= calls'[accepted[i][1]]
               /\ pc'[accepted[i][1]] \in {"read", "reload", "cas"} =>
                    accepted[i][2] < calls'[accepted[i][1]]
    BY <2>2, <2>4 DEF OrderInv
  <2>6. ASSUME NEW e \in refused
        PROVE  /\ e[2] <= calls'[e[1]]
               /\ pc'[e[1]] # "idle" => e[2] < calls'[e[1]]
    BY <2>3, <2>4 DEF OrderInv
  <2> QED
    BY <2>1, <2>5, <2>6 DEF OrderInv
<1>2. ASSUME NEW p \in Producers, ReadSeq(p) PROVE OrderInv'
  <2>1. /\ pc[p] = "read" /\ calls' = calls /\ accepted' = accepted
        /\ \A q \in Producers \ {p} : pc'[q] = pc[q]
        /\ \/ refused' = refused
           \/ refused' = refused \union {Entry(p)} /\ pc'[p] = "idle"
    BY <1>2 DEF Outcome, ReadSeq, TypeOK
  <2>2. \A i \in 1..Len(accepted) : accepted[i][1] \in Producers
    BY DEF TypeOK, Entries
  <2>3. \A e \in refused : e[1] \in Producers
    BY DEF TypeOK, Entries
  <2>4. calls[p] \in Int /\ Entry(p)[1] = p /\ Entry(p)[2] = calls[p]
    BY DEF TypeOK, Entry
  <2>5. ASSUME NEW i \in 1..Len(accepted)
        PROVE  /\ accepted[i][2] <= calls[accepted[i][1]]
               /\ pc'[accepted[i][1]] \in {"read", "reload", "cas"} =>
                    accepted[i][2] < calls[accepted[i][1]]
    BY <2>1, <2>2 DEF OrderInv
  <2>6. ASSUME NEW e \in refused'
        PROVE  /\ e[2] <= calls[e[1]]
               /\ pc'[e[1]] # "idle" => e[2] < calls[e[1]]
    <3>1. CASE e \in refused
      BY <2>1, <2>3, <3>1 DEF OrderInv
    <3>2. CASE e \notin refused
      BY <2>1, <2>4, <3>2
    <3> QED
      BY <3>1, <3>2
  <2> QED
    BY <2>1, <2>5, <2>6 DEF OrderInv
<1>3. ASSUME NEW p \in Producers, CasSucceeds(p) PROVE OrderInv'
  <2>1. /\ pc[p] = "cas" /\ pc' = [pc EXCEPT ![p] = "write"]
        /\ calls' = calls /\ refused' = refused
        /\ accepted' = Append(accepted, Entry(p))
    BY <1>3 DEF CasWins, CasSucceeds
  <2>2. Entry(p) \in Entries
    BY <2>1, EntryIsEntry
  <2>3. calls[p] \in Int /\ Entry(p)[1] = p /\ Entry(p)[2] = calls[p]
    BY DEF TypeOK, Entry
  <2>4. /\ Len(accepted') = Len(accepted) + 1 /\ Len(accepted) \in Nat
        /\ accepted'[Len(accepted) + 1] = Entry(p)
        /\ \A i \in 1..Len(accepted) : accepted'[i] = accepted[i]
    BY <2>1, <2>2 DEF TypeOK
  <2>5. \A i \in 1..Len(accepted) : accepted[i][1] \in Producers /\ accepted[i][2] \in Int
    BY SMTT(30) DEF TypeOK, Entries
  <2>6. \A q \in Producers : pc'[q] \in {"read", "reload", "cas"} =>
                               pc[q] \in {"read", "reload", "cas"} /\ q # p
    BY <2>1 DEF TypeOK
  <2>7. \A i \in 1..Len(accepted) : accepted[i][1] = p => accepted[i][2] < calls[p]
    BY <2>1 DEF OrderInv
  <2>8. ASSUME NEW i \in 1..Len(accepted')
        PROVE  /\ accepted'[i][2] <= calls[accepted'[i][1]]
               /\ pc'[accepted'[i][1]] \in {"read", "reload", "cas"} =>
                    accepted'[i][2] < calls[accepted'[i][1]]
    <3>1. CASE i \in 1..Len(accepted)
      BY <2>4, <2>5, <2>6, <3>1 DEF OrderInv
    <3>2. CASE i = Len(accepted) + 1
      BY <2>3, <2>4, <2>6, <3>2
    <3> QED
      BY <2>4, <3>1, <3>2
  <2>9. ASSUME NEW i \in 1..Len(accepted'), NEW j \in 1..Len(accepted'),
               i < j, accepted'[i][1] = accepted'[j][1]
        PROVE  accepted'[i][2] < accepted'[j][2]
    <3>1. i \in 1..Len(accepted)
      BY <2>4, <2>9
    <3>2. CASE j \in 1..Len(accepted)
      BY <2>4, <2>9, <3>1, <3>2 DEF OrderInv
    <3>3. CASE j = Len(accepted) + 1
      BY <2>3, <2>4, <2>7, <2>9, <3>1, <3>3
    <3> QED
      BY <2>4, <3>2, <3>3
  <2>10. ASSUME NEW e \in refused
        PROVE  /\ e[2] <= calls[e[1]]
               /\ pc'[e[1]] # "idle" => e[2] < calls[e[1]]
    <3>1. e[1] \in Producers
      BY DEF TypeOK, Entries
    <3> QED
      BY <2>1, <3>1 DEF OrderInv, TypeOK
  <2> QED
    BY <2>1, <2>8, <2>9, <2>10 DEF OrderInv
<1>4. ASSUME /\ calls' = calls /\ accepted' = accepted /\ refused' = refused
             /\ \A q \in Producers :
                  /\ pc'[q] \in {"read", "reload", "cas"} =>
                       pc[q] \in {"read", "reload", "cas"}
                  /\ pc'[q] # "idle" => pc[q] # "idle"
      PROVE  OrderInv'
  <2>1. \A i \in 1..Len(accepted) : accepted[i][1] \in Producers
    BY DEF TypeOK, Entries
  <2>2. \A e \in refused : e[1] \in Producers
    BY DEF TypeOK, Entries
  <2> QED
    BY <1>4, <2>1, <2>2 DEF OrderInv
<1>5. ASSUME NEW p \in Producers,
             \/ ReloadHead(p) \/ CasFails(p) \/ BeginWrite(p) \/ EndWrite(p)
             \/ Publish(p)
      PROVE  OrderInv'
  BY <1>4, <1>5 DEF ReloadHead, CasWins, CasFails, BeginWrite, EndWrite, Publish, history,
                    TypeOK
<1>6. ASSUME TryPop \/ UNCHANGED vars PROVE OrderInv'
  BY <1>4, <1>6 DEF TryPop, FindEntry, BeginCopy, EndCopy, AdvanceTail,
                    ReleaseSlot, vars, producerVars, history
<1> QED
  BY <1>1, <1>2, <1>3, <1>5, <1>6 DEF Next, TryPush

LEMMA OrderInvariant == Spec => []OrderInv
<1>1. Init => OrderInv
  BY DEF Init, OrderInv
<1> QED
  BY <1>1, OrderStep, TypeCorrect, PTL DEF Spec

(* The messages of one producer are popped in the order it pushed them.    *)
THEOREM ProducerOrderKept ==
  ASSUME Capacity > 1
  PROVE  Spec => []ProducerOrder
<1>1. IInv /\ OrderInv => ProducerOrder
  <2> SUFFICES ASSUME IInv, OrderInv,
                      NEW i \in 1..Len(delivered), NEW j \in 1..Len(delivered),
                      i < j, delivered[i][1] = delivered[j][1]
               PROVE  delivered[i][2] < delivered[j][2]
    BY DEF ProducerOrder
  <2>1. /\ i \in 1..Len(accepted) /\ delivered[i] = accepted[i]
        /\ j \in 1..Len(accepted) /\ delivered[j] = accepted[j]
    BY CountersFacts DEF IInv, RingCorrect, DeliveredPrefix
  <2> QED
    BY <2>1 DEF OrderInv
<1> QED
  BY <1>1, RingInvariant, OrderInvariant, PTL
-----------------------------------------------------------------------------
(* A push is refused only when the ring is full. *)

LEMMA ModAddMultiple ==
  ASSUME NEW a \in Int, NEW k \in Int, NEW m \in Nat \ {0}
  PROVE  (a + m * k) % m = a % m
<1>0. a + m * k \in Int
  OBVIOUS
<1>1. PICK q \in Int, r \in 0..(m - 1) : a = m * q + r /\ a % m = r
  BY DivMod
<1>2. PICK p \in Int, s \in 0..(m - 1) :
        a + m * k = m * p + s /\ (a + m * k) % m = s
  BY <1>0, DivMod
<1>3. m * (p - q - k) = r - s
  BY <1>1, <1>2
<1>4. p - q - k = 0
  <2>1. r - s < m /\ -m < r - s
    OBVIOUS
  <2> QED
    BY <2>1, <1>3, ZeroMultiple
<1> QED
  BY <1>1, <1>2, <1>3, <1>4

(* Each counter below the end of the current lap is in the slot of a       *)
(* ticket of the lap, itself or one whole laps later.                      *)
LEMMA SlotTicket ==
  ASSUME NEW n \in Int, NEW low \in Int, n <= low + Capacity
  PROVE  \E t \in low..(low + Capacity - 1) :
           /\ SlotOf(t) = SlotOf(n)
           /\ t < n => t <= n - Capacity
<1>0. Capacity \in Nat \ {0}
  BY ConstantsOK
<1>1. PICK q \in Int, r \in 0..(Capacity - 1) : n - low = Capacity * q + r
  <2>1. n - low \in Int
    OBVIOUS
  <2> QED
    BY <1>0, <2>1, DivMod
<1>2. low + r \in low..(low + Capacity - 1)
  BY <1>0
<1>3. n = (low + r) + Capacity * q
  BY <1>0, <1>1
<1>4. SlotOf(low + r) = SlotOf(n)
  <2>1. low + r \in Int
    OBVIOUS
  <2> QED
    BY <1>0, <1>3, <2>1, ModAddMultiple DEF SlotOf
<1>5. ASSUME low + r < n PROVE low + r <= n - Capacity
  <2>1. Capacity * q > 0
    BY <1>0, <1>3, <1>5
  <2>2. q >= 1
    BY <1>0, <2>1
  <2>3. Capacity * q >= Capacity
    BY <1>0, <2>2
  <2> QED
    BY <1>0, <1>3, <2>3
<1> QED
  BY <1>2, <1>4, <1>5

LEMMA RefusalMeansFull ==
  ASSUME IInv, SignRules = {"wrapped"}, NEW p \in Producers, pc[p] = "read",
         NEW diff \in Diffs(seq[SlotOf(ph[p])], ph[p]), diff < 0
  PROVE  head - Released = Capacity
<1> DEFINE R == Released
           s == seq[SlotOf(ph[p])]
           half == Modulus \div 2
<1>0. /\ Capacity \in Nat \ {0} /\ Modulus \in Nat \ {0}
      /\ half \in Nat /\ half < Modulus /\ Capacity <= half
  BY ConstantsOK
<1>1. /\ head \in Nat /\ R \in Nat /\ R <= head /\ head <= R + Capacity
      /\ ph[p] \in Nat
  BY CountersFacts DEF IInv, TypeOK, RingCorrect, CountersInv
<1>2. ph[p] <= head /\ head - ph[p] <= half - Capacity
  BY DEF IInv, RingCorrect, CasInv
<1>3. PICK t \in R..(R + Capacity - 1) :
        SlotOf(t) = SlotOf(ph[p]) /\ (t < ph[p] => t <= ph[p] - Capacity)
  <2>1. ph[p] \in Int /\ R \in Int /\ ph[p] <= R + Capacity
    BY <1>0, <1>1, <1>2
  <2> HIDE DEF R
  <2> QED
    BY <2>1, SlotTicket
<1>4. s \in {t, t + 1} /\ (s = t + 1 => t < head) /\ t \in Int
  BY <1>0, <1>1, <1>3 DEF IInv, RingCorrect, RingInv, SlotInv
<1>5. s - ph[p] < half
  <2>1. s <= head + Capacity - 1
    <3>1. CASE s = t
      BY <1>0, <1>1, <1>3, <1>4, <3>1
    <3>2. CASE s = t + 1
      BY <1>0, <1>1, <1>3, <1>4, <3>2
    <3> QED
      BY <1>4, <3>1, <3>2
  <2> HIDE DEF s, half
  <2> QED
    BY <1>0, <1>1, <1>2, <1>4, <2>1
<1>6. s < ph[p]
  <2>1. SUFFICES ASSUME s >= ph[p] PROVE FALSE
    BY <1>1, <1>4
  <2>2. s - ph[p] \in 0..(half - 1) /\ s - ph[p] \in 0..(Modulus - 1)
    BY <1>0, <1>1, <1>4, <1>5, <2>1
  <2>3. Word(s - ph[p]) = s - ph[p]
    BY <1>0, <2>2 DEF Word
  <2>4. Signed(Word(s - ph[p])) = s - ph[p]
    BY <1>0, <2>2, <2>3 DEF Signed
  <2>5. diff = Signed(Word(s - ph[p]))
    BY DEF Diffs
  <2> QED
    BY <2>2, <2>4, <2>5
<1>7. t < ph[p]
  BY <1>1, <1>4, <1>6
<1> HIDE DEF R, s, half
<1>8. R + Capacity <= ph[p]
  BY <1>0, <1>1, <1>3, <1>7
<1> QED
  BY <1>0, <1>1, <1>2, <1>8 DEF R

(* A message is dropped only when Capacity messages are waiting: with the  *)
(* wrapping subtraction the comparison of words is the comparison of       *)
(* counters, across the wrap of uint32_t.                                  *)
THEOREM DropsOnlyWhenFull ==
  ASSUME Capacity > 1, SignRules = {"wrapped"}
  PROVE  Spec => RefusedOnlyWhenFull
<1>1. ASSUME IInv, [Next]_vars
      PROVE  refused' # refused => head - Released = Capacity
  <2> SUFFICES ASSUME refused' # refused PROVE head - Released = Capacity
    OBVIOUS
  <2>1. PICK p \in Producers : ReadSeq(p)
    BY <1>1 DEF Next, TryPush, TryPop, LoadHead, ReloadHead, CasSucceeds,
       CasFails, BeginWrite, EndWrite, Publish, FindEntry, BeginCopy, EndCopy,
       AdvanceTail, ReleaseSlot, vars, history
  <2>2. PICK diff \in Diffs(seq[SlotOf(ph[p])], ph[p]) : diff < 0
    BY <2>1 DEF Outcome, ReadSeq
  <2> QED
    BY <1>1, <2>1, <2>2, RefusalMeansFull DEF Outcome, ReadSeq
<1>2. IInv /\ [Next]_vars =>
        [refused' # refused => head - Released = Capacity]_vars
  BY <1>1
<1> QED
  BY <1>2, RingInvariant, PTL DEF Spec, RefusedOnlyWhenFull
-----------------------------------------------------------------------------
(* The ring implements the bounded log. *)

(* Whatever leaves the claims and the three histories alone is a stutter.  *)
LEMMA StutterMaps ==
  ASSUME UNCHANGED history, \A n : Claimed(n)' <=> Claimed(n)
  PROVE  UNCHANGED Log!vars
BY DEF Log!vars, Visible, history

(* The entry of a push that has not claimed a slot is not in the log yet.  *)
LEMMA EntryIsFresh ==
  ASSUME TypeOK, OrderInv, NEW p \in Producers, pc[p] \in {"read", "cas"}
  PROVE  Log!Fresh(Entry(p))
<1>1. Entry(p)[1] = p /\ Entry(p)[2] = calls[p] /\ calls[p] \in Int
  BY DEF Entry, TypeOK
<1>2. Entry(p) \notin refused
  BY <1>1 DEF OrderInv
<1>3. \A i \in 1..Len(accepted) : accepted[i] # Entry(p)
  BY <1>1 DEF OrderInv
<1> QED
  BY <1>2, <1>3 DEF Log!Fresh

LEMMA ClaimsFrame ==
  ASSUME TypeOK, NEW p \in Producers, ph' = [ph EXCEPT ![p] = ph'[p]],
         \A q \in Producers \ {p} : pc'[q] = pc[q],
         Owns(p)' <=> Owns(p), Owns(p) => ph'[p] = ph[p]
  PROVE  \A n : Claimed(n)' <=> Claimed(n)
<1>1. \A q \in Producers :
        (Owns(q)' <=> Owns(q)) /\ (Owns(q) => ph'[q] = ph[q])
  BY DEF Owns, TypeOK
<1> QED
  BY <1>1 DEF Claimed

LEMMA StepMaps ==
  ASSUME IInv, OrderInv, SignRules = {"wrapped"}, [Next]_vars
  PROVE  [Log!Next]_Log!vars
<1>0. TypeOK /\ Len(accepted) \in Nat /\ Len(accepted) = head
  BY CountersFacts DEF IInv
<1>1. ASSUME NEW p \in Producers,
             \/ LoadHead(p) \/ ReloadHead(p) \/ CasFails(p)
             \/ BeginWrite(p) \/ EndWrite(p)
      PROVE  UNCHANGED Log!vars
  <2>1. UNCHANGED history
    BY <1>1 DEF LoadHead, ReloadHead, CasFails, BeginWrite, EndWrite
  <2>2. \A n : Claimed(n)' <=> Claimed(n)
    BY <1>0, <1>1, ClaimsFrame
       DEF LoadHead, ReloadHead, CasFails, BeginWrite, EndWrite, Owns, TypeOK
  <2> QED
    BY <2>1, <2>2, StutterMaps
<1>2. ASSUME NEW p \in Producers, ReadSeq(p)
      PROVE  Log!Next \/ UNCHANGED Log!vars
  <2>1. \A n : Claimed(n)' <=> Claimed(n)
    BY <1>0, <1>2, ClaimsFrame DEF Outcome, ReadSeq, Owns, TypeOK
  <2>2. UNCHANGED <<accepted, Visible, delivered>>
    BY <1>2, <2>1 DEF Outcome, ReadSeq, Visible
  <2>3. CASE refused' = refused
    BY <2>2, <2>3 DEF Log!vars
  <2>4. CASE refused' # refused
    <3>1. /\ refused' = refused \union {Entry(p)}
          /\ head - Released = Capacity
      BY <1>2, <2>4, RefusalMeansFull DEF Outcome, ReadSeq
    <3>2. Log!Full
      BY <3>1, CountersFacts DEF Log!Full
    <3>3. Entry(p) \in Entries /\ Log!Fresh(Entry(p))
      BY <1>0, <1>2, EntryIsEntry, EntryIsFresh DEF Outcome, ReadSeq
    <3> QED
      BY <2>2, <3>1, <3>2, <3>3 DEF Log!Next, Log!Refuse
  <2> QED
    BY <2>3, <2>4
<1>3. ASSUME NEW p \in Producers, CasSucceeds(p)
      PROVE  Log!Next
  <2>1. ph[p] = head
    BY <1>3, CasHeadIsCurrent
  <2>2. ~Log!Full
    BY <1>3, <2>1, CountersFacts, ConstantsOK
       DEF Log!Full, CasSucceeds, IInv, RingCorrect, CasInv
  <2>3. Entry(p) \in Entries /\ Log!Fresh(Entry(p))
    BY <1>0, <1>3, EntryIsEntry, EntryIsFresh DEF CasWins, CasSucceeds
  <2>4. /\ accepted' = Append(accepted, Entry(p))
        /\ delivered' = delivered /\ refused' = refused
    BY <1>3 DEF CasWins, CasSucceeds
  <2>5. \A n : Claimed(n)' <=> (n = head \/ Claimed(n))
    BY <1>0, <1>3, <2>1 DEF CasWins, CasSucceeds, Claimed, Owns, TypeOK
  <2>6. Len(accepted') = head + 1
    BY <1>0, <2>3, <2>4 DEF TypeOK
  <2>7. ~Claimed(head)
    <3>1. \A q \in Producers : Owns(q) => ph[q] < head
      BY OwnerFacts
    <3> QED
      BY <1>0, <3>1 DEF Claimed, TypeOK
  <2>8. Visible' = Visible
    BY <1>0, <2>5, <2>6 DEF Visible
  <2> QED
    BY <2>2, <2>3, <2>4, <2>8 DEF Log!Next, Log!Reserve
<1>4. ASSUME NEW p \in Producers, Publish(p)
      PROVE  Log!Next
  <2>1. Owns(p)
    BY <1>4 DEF PublishedSeq, Publish, Owns
  <2>2. /\ ph[p] \in Nat /\ ph[p] + 1 \in 1..Len(accepted) /\ Claimed(ph[p])
        /\ \A q \in Producers \ {p} : Owns(q) => ph[q] # ph[p]
    BY <2>1, OwnerFacts
  <2>3. UNCHANGED history
    BY <1>4 DEF PublishedSeq, Publish
  <2>4. \A n : Claimed(n)' <=> (n # ph[p] /\ Claimed(n))
    <3>1. \A q \in Producers : (Owns(q)' <=> (q # p /\ Owns(q))) /\ ph'[q] = ph[q]
      BY <1>0, <1>4 DEF PublishedSeq, Publish, Owns, TypeOK
    <3> QED
      BY <2>1, <2>2, <3>1 DEF Claimed
  <2>5. accepted' = accepted
    BY <2>3 DEF history
  <2>6. \A i \in 1..Len(accepted) : i - 1 = ph[p] <=> i = ph[p] + 1
    BY <2>2
  <2>7. Visible' = Visible \union {ph[p] + 1} /\ ph[p] + 1 \notin Visible
    BY <2>2, <2>4, <2>5, <2>6 DEF Visible
  <2> QED
    BY <2>2, <2>3, <2>7 DEF Log!Next, Log!Publish, history
<1>5. ASSUME FindEntry \/ BeginCopy \/ EndCopy \/ AdvanceTail \/ UNCHANGED vars
      PROVE  UNCHANGED Log!vars
  <2>1. UNCHANGED history /\ pc' = pc /\ ph' = ph
    BY <1>5 DEF FindEntry, BeginCopy, EndCopy, AdvanceTail, vars, producerVars
  <2>2. \A n : Claimed(n)' <=> Claimed(n)
    BY <2>1 DEF Claimed, Owns
  <2> QED
    BY <2>1, <2>2, StutterMaps
<1>6. ASSUME ReleaseSlot
      PROVE  Log!Next
  <2>1. /\ pc' = pc /\ ph' = ph /\ accepted' = accepted /\ refused' = refused
        /\ delivered' = Append(delivered, out) /\ cpc = "release"
    BY <1>6 DEF FreeSeq, ReleaseSlot, producerVars
  <2>2. \A n : Claimed(n)' <=> Claimed(n)
    BY <2>1 DEF Claimed, Owns
  <2>3. Visible' = Visible
    BY <2>1, <2>2 DEF Visible
  <2>4. /\ Len(delivered) = tail - 1 /\ tail \in Nat /\ tail <= head
        /\ tail - 1 >= 0
    BY <2>1, CountersFacts
  <2>5. ~Claimed(tail - 1) /\ out = accepted[tail]
    BY <2>1 DEF IInv, RingCorrect, ConsumerInv
  <2>6. Len(delivered) + 1 \in Visible
    BY <1>0, <2>4, <2>5 DEF Visible
  <2>7. out = accepted[Len(delivered) + 1]
    BY <2>4, <2>5
  <2> QED
    BY <2>1, <2>3, <2>6, <2>7 DEF Log!Next, Log!Pop
<1> QED
  BY <1>1, <1>2, <1>3, <1>4, <1>5, <1>6 DEF Next, TryPush, TryPop

(* The ring of compare-and-swap, sequence numbers and word arithmetic is a *)
(* bounded FIFO log whose reservations are the successful CASes.           *)
THEOREM RingImplementsLog ==
  ASSUME Capacity > 1, SignRules = {"wrapped"}
  PROVE  Spec => ImplementsBoundedLog
<1>1. Init => Log!Init
  BY DEF Init, Log!Init, Visible
<1>2. IInv /\ OrderInv /\ [Next]_vars => [Log!Next]_Log!vars
  BY StepMaps
<1> QED
  BY <1>1, <1>2, RingInvariant, OrderInvariant, PTL
     DEF Spec, ImplementsBoundedLog, Log!Spec

=============================================================================
