--------------------------- MODULE Outputs_proofs ---------------------------
(***************************************************************************)
(* Proofs about the parts of dtCore that turn what they are given into     *)
(* bytes or files, for any sizes of buffers and files, any lengths of what *)
(* is put into them, and any failures.                                     *)
(***************************************************************************)
EXTENDS Outputs, SequenceTheorems, WellFoundedInduction, TLAPS

(* Induction over the natural numbers, for sets: a smallest number that is *)
(* not in the set would have a predecessor that is.                        *)
LEMMA NatSetInduction ==
  ASSUME NEW S, 0 \in S, \A n \in Nat : n \in S => n + 1 \in S
  PROVE  \A n \in Nat : n \in S
<1> DEFINE R == OpToRel(<, Nat)
           T == {n \in Nat : n \notin S}
<1>1. IsWellFoundedOn(R, Nat)
  BY NatLessThanWellFounded, PTL
<1>2. \A x, y \in Nat : x < y => <<x, y>> \in R
  BY DEF OpToRel
<1>3. SUFFICES ASSUME T # {} PROVE FALSE
  OBVIOUS
<1>4. T \subseteq Nat
  OBVIOUS
<1>5. PICK x \in T : \A y \in T : ~(<<y, x>> \in R)
  <2> HIDE DEF R, T
  <2> QED
    BY <1>1, <1>3, <1>4, WFMin
<1>6. x \in Nat /\ x # 0
  OBVIOUS
<1>7. x - 1 \in T /\ x - 1 \in Nat /\ x - 1 < x
  BY <1>6
<1> QED
  BY <1>2, <1>5, <1>6, <1>7

-----------------------------------------------------------------------------
(* The sizes of the members of a sequence, added up.                       *)

SizeStep(q, g, n) == IF n = 0 THEN 0 ELSE g[n - 1] + q[n].size

(* The function that Size chooses exists.                                  *)
LEMMA SizeExists ==
  ASSUME NEW q
  PROVE  \A n \in Nat : \E g : g = [k \in 0..n |-> SizeStep(q, g, k)]
<1> DEFINE S == {n \in Nat : \E g : g = [k \in 0..n |-> SizeStep(q, g, k)]}
<1>1. 0 \in S
  <2> DEFINE g == [k \in 0..0 |-> 0]
  <2>1. g = [k \in 0..0 |-> SizeStep(q, g, k)]
    BY DEF SizeStep
  <2> QED
    BY <2>1
<1>2. ASSUME NEW n \in Nat, n \in S PROVE n + 1 \in S
  <2>1. PICK g : g = [k \in 0..n |-> SizeStep(q, g, k)]
    BY <1>2
  <2> DEFINE h == [k \in 0..(n + 1) |-> IF k = n + 1 THEN g[n] + q[n + 1].size ELSE g[k]]
  <2>2. \A k \in 0..(n + 1) : h[k] = SizeStep(q, h, k)
    <3> SUFFICES ASSUME NEW k \in 0..(n + 1) PROVE h[k] = SizeStep(q, h, k)
      OBVIOUS
    <3>1. CASE k = n + 1
      <4>1. k # 0 /\ k - 1 = n /\ n \in 0..(n + 1) /\ n # n + 1
        BY <3>1
      <4>2. h[k] = g[n] + q[k].size /\ h[n] = g[n]
        BY <3>1, <4>1
      <4> QED
        BY <4>1, <4>2 DEF SizeStep
    <3>2. CASE k # n + 1
      <4>1. k \in 0..n /\ h[k] = g[k]
        BY <3>2
      <4>2. g[k] = SizeStep(q, g, k)
        BY <2>1, <4>1
      <4>3. k # 0 => k - 1 \in 0..n /\ h[k - 1] = g[k - 1]
        BY <4>1
      <4> QED
        BY <4>1, <4>2, <4>3 DEF SizeStep
    <3> QED
      BY <3>1, <3>2
  <2>3. DOMAIN h = 0..(n + 1) /\ h = [k \in DOMAIN h |-> h[k]]
    OBVIOUS
  <2> HIDE DEF h
  <2>4. h = [k \in 0..(n + 1) |-> SizeStep(q, h, k)]
    BY <2>2, <2>3
  <2>5. n + 1 \in Nat
    OBVIOUS
  <2> QED
    BY <2>4, <2>5
<1> HIDE DEF S
<1>3. \A n \in Nat : n \in S
  BY <1>1, <1>2, NatSetInduction
<1> QED
  BY <1>3 DEF S

(* The sizes of the first members of q, added up.                          *)
SizeUpTo(q) == CHOOSE g : g = [k \in 0..Len(q) |-> SizeStep(q, g, k)]

LEMMA SizesAre ==
  ASSUME NEW T, NEW q \in Seq(T)
  PROVE  /\ Mcap!Size(q) = SizeUpTo(q)[Len(q)] /\ Stream!TextSize(q) = SizeUpTo(q)[Len(q)]
         /\ \A n \in 0..Len(q) : SizeUpTo(q)[n] = SizeStep(q, SizeUpTo(q), n)
<1>1. Len(q) \in Nat
  OBVIOUS
<1>2. \E g : g = [k \in 0..Len(q) |-> SizeStep(q, g, k)]
  BY <1>1, SizeExists
<1>3. SizeUpTo(q) = [k \in 0..Len(q) |-> SizeStep(q, SizeUpTo(q), k)]
  BY <1>2 DEF SizeUpTo
<1>4. Mcap!Size(q) = SizeUpTo(q)[Len(q)]
  BY DEF Mcap!Size, SizeUpTo, SizeStep
<1>5. Stream!TextSize(q) = SizeUpTo(q)[Len(q)]
  BY DEF Stream!TextSize, SizeUpTo, SizeStep
<1> QED
  BY <1>3, <1>4, <1>5

(* The sum of the first members does not depend on those that follow.     *)
LEMMA SizeOfPrefix ==
  ASSUME NEW T, NEW q \in Seq(T), NEW r \in Seq(T),
         Len(q) <= Len(r), \A n \in 1..Len(q) : r[n] = q[n]
  PROVE  SizeUpTo(r)[Len(q)] = SizeUpTo(q)[Len(q)]
<1> DEFINE S == {n \in Nat : n <= Len(q) => SizeUpTo(r)[n] = SizeUpTo(q)[n]}
<1>0. Len(q) \in Nat /\ Len(r) \in Nat
  OBVIOUS
<1>1. 0 \in S
  BY <1>0, SizesAre DEF SizeStep
<1>2. ASSUME NEW n \in Nat, n \in S PROVE n + 1 \in S
  <2>1. CASE n + 1 <= Len(q)
    <3>1. n + 1 \in 0..Len(q) /\ n + 1 \in 0..Len(r) /\ n + 1 # 0 /\ (n + 1) - 1 = n /\ r[n + 1] = q[n + 1]
      BY <1>0, <2>1
    <3>2. SizeUpTo(q)[n + 1] = SizeUpTo(q)[n] + q[n + 1].size
      BY <3>1, SizesAre DEF SizeStep
    <3>3. SizeUpTo(r)[n + 1] = SizeUpTo(r)[n] + r[n + 1].size
      BY <3>1, SizesAre DEF SizeStep
    <3> QED
      BY <1>0, <1>2, <2>1, <3>1, <3>2, <3>3
  <2> QED
    BY <2>1
<1> HIDE DEF S
<1>3. \A n \in Nat : n \in S
  BY <1>1, <1>2, NatSetInduction
<1> QED
  BY <1>0, <1>3, SizesAre DEF S

-----------------------------------------------------------------------------
(* The sink of the terminal.                                               *)

Below(p, q) == \A i \in 1..Len(p), j \in 1..Len(q) : p[i] < q[j]
Holds(q, from, to) == q # <<>> => {q[i] : i \in 1..Len(q)} = (q[1]..to) \ from

(* What a concatenation holds.                                             *)
LEMMA ConcatFacts ==
  ASSUME NEW p \in Seq(Nat), NEW q \in Seq(Nat)
  PROVE  /\ p \o q \in Seq(Nat) /\ Len(p) \in Nat /\ Len(q) \in Nat
         /\ Len(p \o q) = Len(p) + Len(q)
         /\ \A i \in 1..Len(p \o q) :
              \/ i \in 1..Len(p) /\ (p \o q)[i] = p[i]
              \/ i - Len(p) \in 1..Len(q) /\ (p \o q)[i] = q[i - Len(p)]
OBVIOUS

(* What the parts of a sequence of numbers are.                            *)
LEMMA Parts ==
  ASSUME NEW q \in Seq(Nat), NEW n \in 0..Len(q)
  PROVE  /\ SubSeq(q, 1, n) \in Seq(Nat) /\ Len(SubSeq(q, 1, n)) = n
         /\ \A i \in 1..n : SubSeq(q, 1, n)[i] = q[i]
         /\ SubSeq(q, n + 1, Len(q)) \in Seq(Nat) /\ Len(SubSeq(q, n + 1, Len(q))) = Len(q) - n
         /\ \A i \in 1..(Len(q) - n) : SubSeq(q, n + 1, Len(q))[i] = q[n + i]
<1>1. n \in Nat /\ Len(q) \in Nat /\ n <= Len(q)
  OBVIOUS
<1>2. \A i \in 1..n : q[i] \in Nat
  BY <1>1
<1>3. /\ SubSeq(q, 1, n) \in Seq(Nat)
      /\ Len(SubSeq(q, 1, n)) = IF 1 <= n THEN n - 1 + 1 ELSE 0
      /\ \A i \in 1..(n - 1 + 1) : SubSeq(q, 1, n)[i] = q[1 + i - 1]
  BY <1>1, <1>2, SubSeqProperties
<1>4. \A i \in (n + 1)..Len(q) : q[i] \in Nat
  BY <1>1
<1>5. /\ SubSeq(q, n + 1, Len(q)) \in Seq(Nat)
      /\ Len(SubSeq(q, n + 1, Len(q))) = IF n + 1 <= Len(q) THEN Len(q) - (n + 1) + 1 ELSE 0
      /\ \A i \in 1..(Len(q) - (n + 1) + 1) : SubSeq(q, n + 1, Len(q))[i] = q[(n + 1) + i - 1]
  BY <1>1, <1>4, SubSeqProperties
<1> DEFINE x == SubSeq(q, 1, n)
           y == SubSeq(q, n + 1, Len(q))
<1> HIDE DEF x, y
<1>6. x \in Seq(Nat) /\ Len(x) = n /\ \A i \in 1..n : x[i] = q[i]
  <2>1. \A i \in 1..n : 1 + i - 1 = i
    OBVIOUS
  <2>2. /\ x \in Seq(Nat) /\ Len(x) = IF 1 <= n THEN n - 1 + 1 ELSE 0
        /\ \A i \in 1..(n - 1 + 1) : x[i] = q[1 + i - 1]
    BY <1>3 DEF x
  <2> QED
    BY <1>1, <2>1, <2>2
<1>7. y \in Seq(Nat) /\ Len(y) = Len(q) - n /\ \A i \in 1..(Len(q) - n) : y[i] = q[n + i]
  <2>1. \A i \in 1..(Len(q) - n) : (n + 1) + i - 1 = n + i
    BY <1>1
  <2>2. /\ y \in Seq(Nat) /\ Len(y) = IF n + 1 <= Len(q) THEN Len(q) - (n + 1) + 1 ELSE 0
        /\ \A i \in 1..(Len(q) - (n + 1) + 1) : y[i] = q[(n + 1) + i - 1]
    BY <1>5 DEF y
  <2> QED
    BY <1>1, <2>1, <2>2
<1> QED
  BY <1>6, <1>7 DEF x, y

LEMMA InOrderConcat ==
  ASSUME NEW p \in Seq(Nat), NEW q \in Seq(Nat)
  PROVE  /\ Sink!InOrder(p) /\ Sink!InOrder(q) /\ Below(p, q) => Sink!InOrder(p \o q)
         /\ \A r : Below(p, r) /\ Below(q, r) => Below(p \o q, r)
         /\ \A r : Below(r, p) /\ Below(r, q) => Below(r, p \o q)
<1>1. /\ p \o q \in Seq(Nat) /\ Len(p \o q) = Len(p) + Len(q)
      /\ \A i \in 1..(Len(p) + Len(q)) : (p \o q)[i] = IF i <= Len(p) THEN p[i] ELSE q[i - Len(p)]
      /\ Len(p) \in Nat /\ Len(q) \in Nat
  OBVIOUS
<1> DEFINE s == p \o q
<1> HIDE DEF s
<1>2. ASSUME Sink!InOrder(p), Sink!InOrder(q), Below(p, q), NEW i \in 1..Len(s), NEW j \in 1..Len(s), i < j
      PROVE  s[i] < s[j]
  <2>1. CASE j <= Len(p)
    BY <1>1, <1>2, <2>1 DEF Sink!InOrder, s
  <2>2. CASE i <= Len(p) /\ ~(j <= Len(p))
    BY <1>1, <1>2, <2>2 DEF Below, s
  <2>3. CASE ~(i <= Len(p))
    <3>1. /\ i - Len(p) \in 1..Len(q) /\ j - Len(p) \in 1..Len(q) /\ i - Len(p) < j - Len(p)
          /\ s[i] = q[i - Len(p)] /\ s[j] = q[j - Len(p)]
      BY <1>1, <1>2, <2>3 DEF s
    <3> QED
      BY <1>2, <3>1 DEF Sink!InOrder
  <2> QED
    BY <1>1, <1>2, <2>1, <2>2, <2>3
<1>3. ASSUME NEW r, Below(p, r), Below(q, r) PROVE Below(s, r)
  <2> SUFFICES ASSUME NEW i \in 1..Len(s), NEW j \in 1..Len(r) PROVE s[i] < r[j]
    BY DEF Below
  <2>1. CASE i <= Len(p)
    <3>1. i \in 1..Len(p) /\ s[i] = p[i]
      BY <1>1, <2>1 DEF s
    <3> QED
      BY <1>3, <3>1 DEF Below
  <2>2. CASE ~(i <= Len(p))
    <3>1. i - Len(p) \in 1..Len(q) /\ s[i] = q[i - Len(p)]
      BY <1>1, <2>2 DEF s
    <3> QED
      BY <1>3, <3>1 DEF Below
  <2> QED
    BY <2>1, <2>2
<1>4. ASSUME NEW r, Below(r, p), Below(r, q) PROVE Below(r, s)
  <2> SUFFICES ASSUME NEW i \in 1..Len(r), NEW j \in 1..Len(s) PROVE r[i] < s[j]
    BY DEF Below
  <2>1. CASE j <= Len(p)
    <3>1. j \in 1..Len(p) /\ s[j] = p[j]
      BY <1>1, <2>1 DEF s
    <3> QED
      BY <1>4, <3>1 DEF Below
  <2>2. CASE ~(j <= Len(p))
    <3>1. j - Len(p) \in 1..Len(q) /\ s[j] = q[j - Len(p)]
      BY <1>1, <2>2 DEF s
    <3> QED
      BY <1>4, <3>1 DEF Below
  <2> QED
    BY <2>1, <2>2
<1> QED
  BY <1>2, <1>3, <1>4 DEF Sink!InOrder, s

(* The first n bytes get out, and all but the first m stay.                *)
LEMMA Taken ==
  ASSUME NEW p \in Seq(Nat), NEW q \in Seq(Nat), Sink!InOrder(p), Sink!InOrder(q), Below(p, q),
         NEW n \in 0..Len(q), NEW m \in 0..Len(q), n <= m
  PROVE  LET o == p \o SubSeq(q, 1, n)
             k == SubSeq(q, m + 1, Len(q))
         IN  o \in Seq(Nat) /\ k \in Seq(Nat) /\ Sink!InOrder(o) /\ Sink!InOrder(k) /\ Below(o, k)
<1> DEFINE t == SubSeq(q, 1, n)
           k == SubSeq(q, m + 1, Len(q))
<1>1. /\ t \in Seq(Nat) /\ Len(t) = n /\ (\A i \in 1..n : t[i] = q[i])
      /\ k \in Seq(Nat) /\ Len(k) = Len(q) - m /\ (\A i \in 1..(Len(q) - m) : k[i] = q[m + i])
  BY Parts
<1>2. Len(q) \in Nat /\ n \in Nat /\ m \in Nat
  OBVIOUS
<1> HIDE DEF t, k
<1>a. /\ \A i \in 1..Len(t) : i \in 1..Len(q) /\ i <= n /\ t[i] = q[i]
      /\ \A i \in 1..Len(k) : m + i \in 1..Len(q) /\ m + i > n /\ k[i] = q[m + i]
  BY <1>1, <1>2
<1>3. Sink!InOrder(t) /\ Sink!InOrder(k)
  <2>1. ASSUME NEW i \in 1..Len(t), NEW j \in 1..Len(t), i < j PROVE t[i] < t[j]
    BY <1>a, <2>1 DEF Sink!InOrder
  <2>2. ASSUME NEW i \in 1..Len(k), NEW j \in 1..Len(k), i < j PROVE k[i] < k[j]
    <3>1. m + i < m + j
      BY <1>1, <1>2, <2>2
    <3> QED
      BY <1>a, <3>1 DEF Sink!InOrder
  <2> QED
    BY <2>1, <2>2 DEF Sink!InOrder
<1>4. Below(p, t) /\ Below(p, k) /\ Below(t, k)
  <2>1. ASSUME NEW i \in 1..Len(p), NEW j \in 1..Len(t) PROVE p[i] < t[j]
    BY <1>a DEF Below
  <2>2. ASSUME NEW i \in 1..Len(p), NEW j \in 1..Len(k) PROVE p[i] < k[j]
    BY <1>a DEF Below
  <2>3. ASSUME NEW i \in 1..Len(t), NEW j \in 1..Len(k) PROVE t[i] < k[j]
    <3>1. i < m + j
      BY <1>a, <1>1, <1>2
    <3> QED
      BY <1>a, <3>1 DEF Sink!InOrder
  <2> QED
    BY <2>1, <2>2, <2>3 DEF Below
<1>5. Sink!InOrder(p \o t) /\ Below(p \o t, k) /\ p \o t \in Seq(Nat)
  BY <1>1, <1>3, <1>4, InOrderConcat
<1> QED
  BY <1>1, <1>3, <1>5 DEF t, k

(* What stays of a buffer that holds the newest bytes holds the newest.    *)
LEMMA StaysNewest ==
  ASSUME NEW q \in Seq(Nat), Sink!InOrder(q), NEW c, NEW to \in Nat, Holds(q, c, to),
         NEW m \in 0..Len(q)
  PROVE  Holds(SubSeq(q, m + 1, Len(q)), c, to)
<1> DEFINE k == SubSeq(q, m + 1, Len(q))
<1>1. k \in Seq(Nat) /\ Len(k) = Len(q) - m /\ (\A i \in 1..(Len(q) - m) : k[i] = q[m + i])
  BY Parts
<1>2. Len(q) \in Nat /\ m \in Nat /\ m <= Len(q) /\ \A i \in 1..Len(q) : q[i] \in Nat
  OBVIOUS
<1> HIDE DEF k
<1>3. SUFFICES ASSUME k # <<>> PROVE {k[i] : i \in 1..Len(k)} = (k[1]..to) \ c
  BY DEF Holds, k
<1>4. Len(k) >= 1 /\ m < Len(q) /\ q # <<>>
  BY <1>1, <1>2, <1>3
<1>5. {q[i] : i \in 1..Len(q)} = (q[1]..to) \ c
  BY <1>4 DEF Holds
<1>6. k[1] = q[m + 1] /\ q[1] <= q[m + 1] /\ q[1] \in Nat /\ q[m + 1] \in Nat
  <2>1. m + 1 \in 1..Len(q) /\ 1 \in 1..Len(q)
    BY <1>2, <1>4
  <2>2. m # 0 => q[1] < q[m + 1]
    BY <1>2, <2>1 DEF Sink!InOrder
  <2> QED
    BY <1>1, <1>2, <1>4, <2>1, <2>2
<1>7. ASSUME NEW i \in 1..Len(k) PROVE k[i] \in (k[1]..to) \ c
  <2>1. m + i \in 1..Len(q) /\ m + 1 \in 1..Len(q) /\ k[i] = q[m + i] /\ i \in Nat /\ i >= 1
    BY <1>1, <1>2, <1>4
  <2>2. q[m + i] \in (q[1]..to) \ c
    BY <1>5, <2>1
  <2>3. i # 1 => q[m + 1] < q[m + i]
    BY <1>2, <2>1 DEF Sink!InOrder
  <2>4. q[m + 1] <= q[m + i]
    BY <1>2, <2>1, <2>3
  <2> QED
    BY <1>2, <1>6, <2>1, <2>2, <2>4
<1>8. ASSUME NEW x \in (k[1]..to) \ c PROVE \E i \in 1..Len(k) : x = k[i]
  <2>1. x \in (q[1]..to) \ c
    BY <1>6
  <2>2. PICK j \in 1..Len(q) : x = q[j]
    BY <1>5, <2>1
  <2>3. j > m
    <3>1. SUFFICES ASSUME j <= m PROVE FALSE
      BY <1>2
    <3>2. j < m + 1 /\ m + 1 \in 1..Len(q)
      BY <1>2, <1>4, <3>1
    <3>3. q[j] < q[m + 1]
      BY <3>2 DEF Sink!InOrder
    <3> QED
      BY <1>2, <1>6, <2>2, <3>3
  <2>4. j - m \in 1..Len(k) /\ k[j - m] = q[m + (j - m)] /\ m + (j - m) = j
    BY <1>1, <1>2, <2>3
  <2> QED
    BY <2>2, <2>4
<1> QED
  BY <1>7, <1>8

(* The bytes of a message.                                                 *)
LEMMA BytesAre ==
  ASSUME NEW a \in Nat, NEW s \in Nat \ {0}, NEW n \in Nat, s <= n + 1
  PROVE  /\ Sink!Bytes(a + s, a + n) \in Seq(Nat)
         /\ Len(Sink!Bytes(a + s, a + n)) = n - s + 1
         /\ \A i \in 1..(n - s + 1) : Sink!Bytes(a + s, a + n)[i] = a + s + i - 1
         /\ Sink!InOrder(Sink!Bytes(a + s, a + n))
<1> DEFINE l == n - s + 1
           d == Sink!Bytes(a + s, a + n)
<1>1. d = [i \in 1..l |-> a + s + i - 1] /\ l \in Nat
  <2>1. (a + n) - (a + s) + 1 = l /\ l \in Nat
    OBVIOUS
  <2> QED
    BY <2>1 DEF Sink!Bytes
<1> HIDE DEF l, d
<1>2. d \in Seq(Nat) /\ Len(d) = l /\ \A i \in 1..l : d[i] = a + s + i - 1
  <2>1. \A i \in 1..l : a + s + i - 1 \in Nat
    BY <1>1
  <2>2. d \in [1..l -> Nat]
    BY <1>1, <2>1
  <2>3. d \in Seq(Nat)
    BY <1>1, <2>2, SeqDef
  <2> QED
    BY <1>1, <2>3
<1>3. Sink!InOrder(d)
  BY <1>1, <1>2 DEF Sink!InOrder
<1> QED
  BY <1>2, <1>3 DEF l, d

(* New bytes behind those that are kept.                                   *)
LEMMA NewestBehind ==
  ASSUME NEW k \in Seq(Nat), NEW c, NEW a \in Nat, c \subseteq 1..a, Holds(k, c, a),
         \A i \in 1..Len(k) : k[i] \in 1..a, NEW s \in Nat \ {0}, NEW n \in Nat, s <= n + 1
  PROVE  Holds(k \o Sink!Bytes(a + s, a + n), c \union (a + 1)..(a + s - 1), a + n)
<1> DEFINE l == n - s + 1
           d == Sink!Bytes(a + s, a + n)
<1>1. l \in Nat
  OBVIOUS
<1>2. d \in Seq(Nat) /\ Len(d) = l /\ \A i \in 1..l : d[i] = a + s + i - 1
  BY BytesAre
<1> HIDE DEF l, d
<1> DEFINE e == c \union (a + 1)..(a + s - 1)
           q == k \o d
<1>4. /\ q \in Seq(Nat) /\ Len(q) = Len(k) + l /\ Len(k) \in Nat
      /\ \A i \in 1..(Len(k) + l) : q[i] = IF i <= Len(k) THEN k[i] ELSE d[i - Len(k)]
  <2>1. /\ k \o d \in Seq(Nat) /\ Len(k \o d) = Len(k) + Len(d) /\ Len(k) \in Nat
        /\ \A i \in 1..Len(k \o d) :
             \/ i \in 1..Len(k) /\ (k \o d)[i] = k[i]
             \/ i - Len(k) \in 1..Len(d) /\ (k \o d)[i] = d[i - Len(k)]
    BY <1>2, ConcatFacts
  <2>2. \A i \in 1..(Len(k) + l) : q[i] = IF i <= Len(k) THEN k[i] ELSE d[i - Len(k)]
    BY <1>1, <1>2, <2>1
  <2> QED
    BY <1>2, <2>1, <2>2
<1>5. l = n - s + 1
  BY DEF l
<1> HIDE DEF q
<1>6. ASSUME q # <<>> PROVE {q[i] : i \in 1..Len(q)} = (q[1]..(a + n)) \ e
  <2>1. CASE k = <<>>
    <3>1. Len(k) = 0 /\ l >= 1
      BY <1>1, <1>4, <1>6, <2>1
    <3>2. \A i \in 1..l : q[i] = a + s + i - 1
      BY <1>1, <1>2, <1>4, <3>1
    <3>3. q[1] = a + s /\ Len(q) = l
      BY <1>1, <1>4, <3>1, <3>2
    <3>4. \A i \in 1..l : q[i] \in (q[1]..(a + n)) \ e
      BY <1>1, <1>5, <3>2, <3>3
    <3>5. ASSUME NEW x \in (q[1]..(a + n)) \ e PROVE \E i \in 1..l : x = q[i]
      <4>1. x - (a + s) + 1 \in 1..l /\ x = a + s + (x - (a + s) + 1) - 1
        BY <1>1, <1>5, <3>3
      <4> QED
        BY <3>2, <4>1
    <3> QED
      BY <3>3, <3>4, <3>5
  <2>2. CASE k # <<>>
    <3>1. {k[i] : i \in 1..Len(k)} = (k[1]..a) \ c
      BY <2>2 DEF Holds
    <3>2. Len(k) >= 1 /\ q[1] = k[1] /\ k[1] \in 1..a
      BY <1>1, <1>4, <2>2
    <3>3. ASSUME NEW i \in 1..Len(q) PROVE q[i] \in (q[1]..(a + n)) \ e
      <4>1. CASE i <= Len(k)
        <5>1. q[i] = k[i] /\ i \in 1..Len(k)
          BY <1>1, <1>4, <4>1
        <5>2. k[i] \in (k[1]..a) \ c
          BY <3>1, <5>1
        <5> QED
          BY <3>2, <5>1, <5>2
      <4>2. CASE ~(i <= Len(k))
        <5>1. q[i] = d[i - Len(k)] /\ i - Len(k) \in 1..l
          BY <1>1, <1>4, <4>2
        <5>2. q[i] = a + s + (i - Len(k)) - 1
          BY <1>2, <5>1
        <5> QED
          <6> DEFINE j == i - Len(k)
          <6>1. j \in Nat /\ 1 <= j /\ j <= n - s + 1 /\ q[i] = a + s + j - 1
            BY <1>1, <1>4, <1>5, <5>1, <5>2
          <6> HIDE DEF j
          <6>2. q[i] \in Nat /\ q[i] >= a + s /\ q[i] <= a + n
            BY <6>1
          <6>3. q[i] \notin e /\ q[1] <= a
            BY <3>2, <6>2
          <6> QED
            BY <3>2, <6>2, <6>3
      <4> QED
        BY <4>1, <4>2
    <3>4. ASSUME NEW x \in (q[1]..(a + n)) \ e PROVE \E i \in 1..Len(q) : x = q[i]
      <4>1. CASE x <= a
        <5>1. x \in (k[1]..a) \ c
          BY <3>2, <4>1
        <5>2. PICK i \in 1..Len(k) : x = k[i]
          BY <3>1, <5>1
        <5>3. i \in 1..Len(q) /\ q[i] = k[i]
          BY <1>1, <1>4
        <5> QED
          BY <5>2, <5>3
      <4>2. CASE ~(x <= a)
        <5>1. x >= a + s /\ x <= a + n /\ x \in Int
          BY <3>2, <4>2
        <5>2. x - (a + s) + 1 \in 1..l
          BY <1>1, <1>5, <5>1
        <5>3. /\ Len(k) + (x - (a + s) + 1) \in 1..Len(q) /\ ~(Len(k) + (x - (a + s) + 1) <= Len(k))
              /\ (Len(k) + (x - (a + s) + 1)) - Len(k) = x - (a + s) + 1
          BY <1>1, <1>4, <5>1, <5>2
        <5>4. q[Len(k) + (x - (a + s) + 1)] = d[x - (a + s) + 1]
          BY <1>4, <5>3
        <5>5. d[x - (a + s) + 1] = a + s + (x - (a + s) + 1) - 1
          BY <1>2, <5>2
        <5>6. a + s + (x - (a + s) + 1) - 1 = x
          BY <5>1
        <5> QED
          BY <5>3, <5>4, <5>5, <5>6
      <4> QED
        BY <3>2, <4>1, <4>2
    <3> QED
      BY <3>3, <3>4
  <2> QED
    BY <2>1, <2>2
<1>7. Holds(q, e, a + n)
  BY <1>6 DEF Holds
<1> QED
  BY <1>7 DEF q, d

(* The invariant in the terms of the lemmas.                               *)
LEMMA StdoutParts ==
  ASSUME Sink!StdoutSinkAssumption, Sink!SinkInv
  PROVE  /\ m_buf \in Seq(Nat) /\ out \in Seq(Nat) /\ appended \in Nat /\ appended <= MaxBytes
         /\ \A i \in 1..Len(m_buf) : m_buf[i] \in 1..appended
         /\ \A i \in 1..Len(out) : out[i] \in 1..appended
         /\ Sink!InOrder(out) /\ Sink!InOrder(m_buf) /\ Below(out, m_buf)
         /\ Holds(m_buf, cut, appended) /\ cut \subseteq 1..appended
         /\ Len(m_buf) <= INTERNAL_BUF_SIZE /\ INTERNAL_BUF_SIZE \in Nat /\ INTERNAL_BUF_SIZE >= 1
         /\ MaxBytes \in Nat
<1>1. m_buf \in Seq(1..appended) /\ out \in Seq(1..appended) /\ appended \in 0..MaxBytes
  BY DEF Sink!SinkInv, Sink!SinkTypeOK
<1>2. MaxBytes \in Nat /\ INTERNAL_BUF_SIZE \in Nat /\ INTERNAL_BUF_SIZE >= 1
  BY DEF Sink!StdoutSinkAssumption
<1>3. 1..appended \subseteq Nat /\ appended \in Nat /\ appended <= MaxBytes
  BY <1>1, <1>2
<1>4. m_buf \in Seq(Nat) /\ out \in Seq(Nat)
  BY <1>1, <1>3
<1>5. /\ \A i \in 1..Len(m_buf) : m_buf[i] \in 1..appended
      /\ \A i \in 1..Len(out) : out[i] \in 1..appended
  BY <1>1
<1>6. /\ Sink!InOrder(out) /\ Sink!InOrder(m_buf) /\ Below(out, m_buf)
      /\ Holds(m_buf, cut, appended)
  BY DEF Sink!SinkInv, Below, Holds
<1>7. cut \subseteq 1..appended /\ Len(m_buf) <= INTERNAL_BUF_SIZE
  BY DEF Sink!SinkInv, Sink!SinkTypeOK
<1> QED
  BY <1>2, <1>3, <1>4, <1>5, <1>6, <1>7

(* Numbers in order that begin with 1 at least are as many as the last     *)
(* of them tells, at most.                                                 *)
LEMMA AsManyAsLast ==
  ASSUME NEW q \in Seq(Nat), Sink!InOrder(q), \A i \in 1..Len(q) : q[i] >= 1
  PROVE  \A i \in 1..Len(q) : q[i] >= i
<1> DEFINE S == {n \in Nat : n \in 1..Len(q) => q[n] >= n}
<1>1. 0 \in S
  OBVIOUS
<1>2. ASSUME NEW n \in Nat, n \in S PROVE n + 1 \in S
  <2> SUFFICES ASSUME n + 1 \in 1..Len(q) PROVE q[n + 1] >= n + 1
    OBVIOUS
  <2>1. CASE n = 0
    BY <2>1
  <2>2. CASE n # 0
    <3>1. n \in 1..Len(q) /\ n < n + 1 /\ q[n] \in Nat /\ q[n + 1] \in Nat
      BY <2>2
    <3>2. q[n] < q[n + 1]
      BY <3>1 DEF Sink!InOrder
    <3>3. q[n] >= n
      BY <1>2, <3>1
    <3> QED
      BY <3>1, <3>2, <3>3
  <2> QED
    BY <2>1, <2>2
<1> HIDE DEF S
<1>3. \A n \in Nat : n \in S
  BY <1>1, <1>2, NatSetInduction
<1> QED
  BY <1>3 DEF S

LEMMA NumbersIn ==
  ASSUME NEW q \in Seq(Nat), NEW T, \A i \in 1..Len(q) : q[i] \in T
  PROVE  q \in Seq(T)
<1>1. q \in [1..Len(q) -> T] /\ Len(q) \in Nat
  OBVIOUS
<1> QED
  BY <1>1, SeqDef

(* What the parts add up to again.                                         *)
LEMMA StdoutFromParts ==
  ASSUME Sink!StdoutSinkAssumption, NEW a \in 0..MaxBytes, NEW b \in Seq(Nat), NEW o \in Seq(Nat),
         \A i \in 1..Len(b) : b[i] \in 1..a, \A i \in 1..Len(o) : o[i] \in 1..a, Sink!InOrder(o)
  PROVE  b \in Seq(1..a) /\ o \in Seq(1..a) /\ Len(o) <= MaxBytes
<1>1. b \in Seq(1..a) /\ o \in Seq(1..a)
  BY NumbersIn
<1>3. Len(o) <= MaxBytes
  <2>1. CASE Len(o) = 0
    BY <2>1 DEF Sink!StdoutSinkAssumption
  <2>2. CASE Len(o) # 0
    <3>1. Len(o) \in 1..Len(o) /\ Len(o) \in Nat
      BY <2>2
    <3>2. \A i \in 1..Len(o) : o[i] >= 1
      OBVIOUS
    <3>3. o[Len(o)] >= Len(o) /\ o[Len(o)] \in 1..a
      BY <3>1, <3>2, AsManyAsLast
    <3> QED
      BY <3>1, <3>3 DEF Sink!StdoutSinkAssumption
  <2> QED
    BY <2>1, <2>2
<1> QED
  BY <1>1, <1>3

(* FlushBuffer and the destructor: the first n bytes get out.              *)
LEMMA StdoutFlushed ==
  ASSUME Sink!StdoutSinkAssumption, Sink!SinkInv, NEW n \in 0..Len(m_buf),
         out' = out \o Sink!Written(n), m_buf' = Sink!Kept(n),
         m_stdout_fd' \in {"private", "stdout", "closed"},
         todo' = todo, appended' = appended, cut' = cut
  PROVE  Sink!SinkInv'
<1>1. out' = out \o SubSeq(m_buf, 1, n) /\ m_buf' = SubSeq(m_buf, n + 1, Len(m_buf))
  BY DEF Sink!Written, Sink!Kept
<1>2. /\ m_buf \in Seq(Nat) /\ out \in Seq(Nat) /\ appended \in Nat /\ appended \in 0..MaxBytes
      /\ \A i \in 1..Len(m_buf) : m_buf[i] \in 1..appended
      /\ \A i \in 1..Len(out) : out[i] \in 1..appended
      /\ Sink!InOrder(out) /\ Sink!InOrder(m_buf) /\ Below(out, m_buf)
      /\ Holds(m_buf, cut, appended) /\ Len(m_buf) <= INTERNAL_BUF_SIZE /\ INTERNAL_BUF_SIZE \in Nat
  BY StdoutParts
<1>3. /\ out' \in Seq(Nat) /\ m_buf' \in Seq(Nat) /\ Sink!InOrder(out') /\ Sink!InOrder(m_buf')
      /\ Below(out', m_buf')
  BY <1>1, <1>2, Taken
<1>4. Holds(m_buf', cut, appended)
  BY <1>1, <1>2, StaysNewest
<1>5. /\ Len(SubSeq(m_buf, 1, n)) = n /\ SubSeq(m_buf, 1, n) \in Seq(Nat)
      /\ \A i \in 1..n : SubSeq(m_buf, 1, n)[i] = m_buf[i]
      /\ Len(m_buf') = Len(m_buf) - n
      /\ \A i \in 1..(Len(m_buf) - n) : m_buf'[i] = m_buf[n + i]
  BY <1>1, <1>2, Parts
<1>6. ASSUME NEW i \in 1..Len(m_buf') PROVE m_buf'[i] \in 1..appended
  <2>1. i \in 1..(Len(m_buf) - n) /\ n + i \in 1..Len(m_buf)
    BY <1>2, <1>5
  <2> QED
    BY <1>2, <1>5, <2>1
<1>7. \A i \in 1..Len(out') : out'[i] \in 1..appended
  <2> DEFINE t == SubSeq(m_buf, 1, n)
  <2>1. t \in Seq(Nat) /\ Len(t) = n /\ \A i \in 1..n : t[i] \in 1..appended
    BY <1>2, <1>5
  <2> HIDE DEF t
  <2>2. ASSUME NEW i \in 1..Len(out \o t) PROVE (out \o t)[i] \in 1..appended
    <3>1. \/ i \in 1..Len(out) /\ (out \o t)[i] = out[i]
          \/ i - Len(out) \in 1..Len(t) /\ (out \o t)[i] = t[i - Len(out)]
      BY <1>2, <2>1, ConcatFacts
    <3> QED
      BY <1>2, <2>1, <3>1
  <2> QED
    BY <1>1, <2>2 DEF t
<1>8. m_buf' \in Seq(1..appended) /\ out' \in Seq(1..appended) /\ Len(out') <= MaxBytes
  BY <1>2, <1>3, <1>6, <1>7, StdoutFromParts
<1>9. Len(m_buf') <= INTERNAL_BUF_SIZE
  BY <1>2, <1>5
<1>10. todo \in Seq(PartLengths \union {1}) /\ cut \subseteq 1..appended
  BY DEF Sink!SinkInv, Sink!SinkTypeOK
<1>11. Sink!SinkTypeOK'
  BY <1>2, <1>8, <1>9, <1>10 DEF Sink!SinkTypeOK
<1> QED
  BY <1>3, <1>4, <1>8, <1>11 DEF Sink!SinkInv, Below, Holds

(* A part is put behind what the flush and the discarding have left.       *)
LEMMA StdoutAppended ==
  ASSUME Sink!StdoutSinkAssumption, Sink!SinkInv, Sink!AppendData
  PROVE  Sink!SinkInv'
<1> DEFINE len == Head(todo)
           s == Sink!Start(len)
           d == Sink!Bytes(appended + s, appended + len)
           size == INTERNAL_BUF_SIZE
<1>1. /\ m_buf \in Seq(Nat) /\ out \in Seq(Nat) /\ appended \in Nat
      /\ \A i \in 1..Len(m_buf) : m_buf[i] \in 1..appended
      /\ \A i \in 1..Len(out) : out[i] \in 1..appended
      /\ Sink!InOrder(out) /\ Sink!InOrder(m_buf) /\ Below(out, m_buf)
      /\ Holds(m_buf, cut, appended) /\ cut \subseteq 1..appended
      /\ Len(m_buf) <= size /\ size \in Nat /\ size >= 1 /\ MaxBytes \in Nat /\ Len(m_buf) \in Nat
  BY StdoutParts
<1>2. len \in Nat /\ len >= 1 /\ Tail(todo) \in Seq(PartLengths \union {1})
  <2>1. todo \in Seq(PartLengths \union {1}) /\ todo # <<>>
    BY DEF Sink!AppendData, Sink!SinkInv, Sink!SinkTypeOK
  <2>2. len \in PartLengths \union {1}
    BY <2>1
  <2>3. PartLengths \union {1} \subseteq Nat \ {0}
    BY DEF Sink!StdoutSinkAssumption
  <2> QED
    BY <2>1, <2>2, <2>3
<1>3. /\ cut' = cut \union (appended + 1)..(appended + s - 1) /\ appended' = appended + len
      /\ todo' = Tail(todo) /\ m_stdout_fd' = m_stdout_fd /\ appended + len <= MaxBytes
  BY DEF Sink!AppendData
<1>4. s = IF len >= size THEN len - size + 2 ELSE 1
  BY DEF Sink!Start
<1> HIDE DEF len, s, d
<1>5. s \in Nat \ {0} /\ s <= len + 1 /\ len - s + 1 <= size
  BY <1>1, <1>2, <1>4
<1>d. d = Sink!Bytes(appended + s, appended + len)
  BY DEF d
(* What stays of the buffer.                                               *)
<1> DEFINE Leaves(n, m) ==
             /\ n <= m /\ Len(m_buf) - m + Len(d) <= size
             /\ out' = out \o SubSeq(m_buf, 1, n)
             /\ m_buf' = SubSeq(m_buf, m + 1, Len(m_buf)) \o d
<1>6. PICK n \in 0..Len(m_buf), m \in 0..Len(m_buf) : Leaves(n, m)
  <2>0. Len(d) \in Nat /\ Len(d) <= size
    <3>1. Len(d) = len - s + 1 /\ d \in Seq(Nat)
      BY <1>1, <1>2, <1>5, <1>d, BytesAre
    <3> QED
      BY <1>1, <1>2, <1>5, <3>1
  <2>1. CASE Len(m_buf) + Len(d) > size
    <3>1. PICK n \in 0..Len(m_buf) :
            out' = out \o Sink!Written(n) /\ m_buf' = Sink!Discard(Sink!Kept(n), d) \o d
      BY <2>1 DEF Sink!AppendData, d, len, s
    <3> DEFINE k == Sink!Kept(n)
    <3>2. /\ k = SubSeq(m_buf, n + 1, Len(m_buf)) /\ k \in Seq(Nat) /\ Len(k) = Len(m_buf) - n
          /\ out' = out \o SubSeq(m_buf, 1, n)
      BY <1>1, <3>1, Parts DEF Sink!Kept, Sink!Written
    <3>3. CASE Len(k) + Len(d) > size
      <4> DEFINE over == Len(k) + Len(d) - size
      <4>1. m_buf' = SubSeq(k, over + 1, Len(k)) \o d
        BY <3>1, <3>3 DEF Sink!Discard
      <4>2. over \in 0..Len(k) /\ n + over \in 0..Len(m_buf) /\ over \in Nat
        BY <1>1, <2>0, <3>2, <3>3
      <4>3. SubSeq(k, over + 1, Len(k)) = SubSeq(m_buf, (n + over) + 1, Len(m_buf))
        <5> DEFINE x == SubSeq(k, over + 1, Len(k))
                   y == SubSeq(m_buf, (n + over) + 1, Len(m_buf))
        <5>1. /\ x \in Seq(Nat) /\ Len(x) = Len(k) - over
              /\ \A i \in 1..(Len(k) - over) : x[i] = k[over + i]
          BY <3>2, <4>2, Parts
        <5>2. /\ y \in Seq(Nat) /\ Len(y) = Len(m_buf) - (n + over)
              /\ \A i \in 1..(Len(m_buf) - (n + over)) : y[i] = m_buf[(n + over) + i]
          BY <1>1, <4>2, Parts
        <5>3. \A i \in 1..(Len(m_buf) - n) : k[i] = m_buf[n + i]
          BY <1>1, <3>2, Parts
        <5> HIDE DEF x, y, over, k
        <5>4. Len(x) = Len(y) /\ \A i \in 1..Len(x) : x[i] = y[i]
          <6>1. Len(x) = Len(y)
            BY <1>1, <3>2, <4>2, <5>1, <5>2
          <6>2. ASSUME NEW i \in 1..Len(x) PROVE x[i] = y[i]
            <7>1. over + i \in 1..(Len(m_buf) - n) /\ n + (over + i) = (n + over) + i
              BY <1>1, <3>2, <4>2, <5>1
            <7> QED
              BY <5>1, <5>2, <5>3, <6>1, <7>1
          <6> QED
            BY <6>1, <6>2
        <5>5. x = y
          BY <5>1, <5>2, <5>4, SeqEqual
        <5> QED
          BY <5>5 DEF x, y
      <4>4. Len(m_buf) - (n + over) + Len(d) <= size /\ n <= n + over
        BY <1>1, <2>0, <3>2, <4>2
      <4> QED
        <5>1. Leaves(n, n + over)
          BY <3>2, <4>1, <4>3, <4>4
        <5> QED
          BY <4>2, <5>1
    <3>4. CASE ~(Len(k) + Len(d) > size)
      <4>1. m_buf' = k \o d
        BY <3>1, <3>4 DEF Sink!Discard
      <4>2. Len(m_buf) - n + Len(d) <= size
        BY <1>1, <2>0, <3>2, <3>4
      <4>3. Leaves(n, n)
        BY <3>2, <4>1, <4>2
      <4> QED
        BY <4>3
    <3> QED
      BY <3>3, <3>4
  <2>2. CASE ~(Len(m_buf) + Len(d) > size)
    <3>1. m_buf' = m_buf \o d /\ out' = out
      BY <2>2 DEF Sink!AppendData, d, len, s
    <3>2. SubSeq(m_buf, 0 + 1, Len(m_buf)) = m_buf /\ out \o SubSeq(m_buf, 1, 0) = out
      BY <1>1
    <3>3. 0 \in 0..Len(m_buf) /\ Len(m_buf) - 0 + Len(d) <= size
      BY <1>1, <2>0, <2>2
    <3>4. Leaves(0, 0)
      BY <3>1, <3>2, <3>3
    <3> QED
      BY <3>3, <3>4
  <2> QED
    BY <2>1, <2>2
<1> DEFINE k == SubSeq(m_buf, m + 1, Len(m_buf))
           t == SubSeq(m_buf, 1, n)
<1>7. /\ out' \in Seq(Nat) /\ k \in Seq(Nat) /\ Sink!InOrder(out') /\ Sink!InOrder(k) /\ Below(out', k)
  BY <1>1, <1>6, Taken
<1>8. /\ t \in Seq(Nat) /\ Len(t) = n /\ (\A i \in 1..n : t[i] = m_buf[i])
      /\ Len(k) = Len(m_buf) - m /\ \A i \in 1..(Len(m_buf) - m) : k[i] = m_buf[m + i]
  BY <1>1, Parts
<1>9. Holds(k, cut, appended)
  BY <1>1, StaysNewest
<1>10. /\ \A i \in 1..Len(k) : k[i] \in 1..appended
       /\ \A i \in 1..n : t[i] \in 1..appended
  BY <1>1, <1>8
<1> HIDE DEF k, t
<1>11. out' = out \o t /\ m_buf' = k \o d
  BY <1>6 DEF k, t
<1>12. /\ d \in Seq(Nat) /\ Len(d) = len - s + 1 /\ Sink!InOrder(d)
       /\ \A i \in 1..Len(d) : d[i] = appended + s + i - 1
       /\ Holds(k \o d, cut \union (appended + 1)..(appended + s - 1), appended + len)
  <2>1. /\ d \in Seq(Nat) /\ Len(d) = len - s + 1 /\ Sink!InOrder(d)
        /\ \A i \in 1..(len - s + 1) : d[i] = appended + s + i - 1
    <3>1. appended \in Nat /\ s \in Nat \ {0} /\ len \in Nat /\ s <= len + 1
      BY <1>1, <1>2, <1>5
    <3>2. LET b == Sink!Bytes(appended + s, appended + len)
          IN  /\ b \in Seq(Nat) /\ Len(b) = len - s + 1
              /\ \A i \in 1..(len - s + 1) : b[i] = appended + s + i - 1
              /\ Sink!InOrder(b)
      BY ONLY <3>1, BytesAre
    <3>3. d = Sink!Bytes(appended + s, appended + len)
      BY <1>d
    <3> QED
      BY ONLY <3>2, <3>3
  <2>2. Holds(k \o d, cut \union (appended + 1)..(appended + s - 1), appended + len)
    BY <1>1, <1>2, <1>5, <1>7, <1>9, <1>10, <1>d, NewestBehind
  <2> QED
    BY <2>1, <2>2
<1>13. Holds(m_buf', cut', appended')
  BY <1>3, <1>11, <1>12
<1>14. ASSUME NEW i \in 1..Len(out') PROVE out'[i] \in 1..appended
  <2>1. \/ i \in 1..Len(out) /\ out'[i] = out[i]
        \/ i - Len(out) \in 1..Len(t) /\ out'[i] = t[i - Len(out)]
    BY <1>1, <1>8, <1>11, ConcatFacts
  <2> QED
    BY <1>1, <1>8, <1>10, <2>1
<1>15. \A i \in 1..Len(d) : d[i] \in Nat /\ d[i] > appended /\ d[i] <= appended + len
  BY <1>1, <1>2, <1>5, <1>12
<1>16. Below(out', d) /\ Below(k, d)
  <2>1. ASSUME NEW i \in 1..Len(out'), NEW j \in 1..Len(d) PROVE out'[i] < d[j]
    BY <1>1, <1>14, <1>15
  <2>2. ASSUME NEW i \in 1..Len(k), NEW j \in 1..Len(d) PROVE k[i] < d[j]
    BY <1>1, <1>10, <1>15
  <2> QED
    BY <2>1, <2>2 DEF Below
<1>b. k \in Seq(Nat) /\ d \in Seq(Nat)
  BY <1>7, <1>12
<1>17. Sink!InOrder(m_buf') /\ Below(out', m_buf') /\ m_buf' \in Seq(Nat)
  BY <1>7, <1>11, <1>12, <1>16, <1>b, InOrderConcat, ConcatFacts
<1>18. ASSUME NEW i \in 1..Len(m_buf') PROVE m_buf'[i] \in 1..(appended + len)
  <2>1. \/ i \in 1..Len(k) /\ m_buf'[i] = k[i]
        \/ i - Len(k) \in 1..Len(d) /\ m_buf'[i] = d[i - Len(k)]
    BY <1>11, <1>b, ConcatFacts
  <2>2. ASSUME NEW x \in 1..appended PROVE x \in 1..(appended + len)
    BY <1>1, <1>2
  <2> QED
    BY <1>1, <1>10, <1>15, <2>1, <2>2
<1>19. \A i \in 1..Len(out') : out'[i] \in 1..(appended + len)
  BY <1>1, <1>2, <1>14
<1>20. appended + len \in 0..MaxBytes
  BY <1>1, <1>2, <1>3
<1>21. /\ m_buf' \in Seq(1..(appended + len)) /\ out' \in Seq(1..(appended + len))
       /\ Len(out') <= MaxBytes
  BY <1>7, <1>17, <1>18, <1>19, <1>20, StdoutFromParts
<1>22. Len(m_buf') <= INTERNAL_BUF_SIZE
  <2>1. Len(m_buf') = Len(k) + Len(d)
    BY <1>11, <1>b, ConcatFacts
  <2> QED
    BY <1>1, <1>6, <1>8, <1>b, <2>1, ConcatFacts
<1>23. cut' \subseteq 1..appended'
  <2>1. (appended + 1)..(appended + s - 1) \subseteq 1..(appended + len)
    BY <1>1, <1>2, <1>5
  <2>2. 1..appended \subseteq 1..(appended + len)
    BY <1>1, <1>2
  <2> QED
    BY <1>1, <1>3, <2>1, <2>2
<1>24. Sink!SinkTypeOK'
  <2>1. m_stdout_fd \in {"private", "stdout", "closed"}
    BY DEF Sink!SinkInv, Sink!SinkTypeOK
  <2> QED
    BY <1>2, <1>3, <1>20, <1>21, <1>22, <1>23, <2>1 DEF Sink!SinkTypeOK
<1> QED
  BY <1>3, <1>7, <1>13, <1>17, <1>21, <1>24 DEF Sink!SinkInv, Below, Holds

LEMMA StdoutStep ==
  ASSUME Sink!StdoutSinkAssumption, Sink!SinkInv, [Sink!Next]_(Sink!vars)
  PROVE  Sink!SinkInv'
<1>1. CASE Sink!FlushBuffer
  <2>1. PICK n \in 0..Len(m_buf) : out' = out \o Sink!Written(n) /\ m_buf' = Sink!Kept(n)
    BY <1>1 DEF Sink!FlushBuffer
  <2>2. m_stdout_fd' = m_stdout_fd /\ todo' = todo /\ appended' = appended /\ cut' = cut
    BY <1>1 DEF Sink!FlushBuffer
  <2>3. m_stdout_fd' \in {"private", "stdout", "closed"}
    BY <2>2 DEF Sink!SinkInv, Sink!SinkTypeOK
  <2> QED
    BY <2>1, <2>2, <2>3, StdoutFlushed
<1>2. CASE Sink!Destroy
  <2>1. PICK n \in 0..Len(m_buf) : out' = out \o Sink!Written(n) /\ m_buf' = Sink!Kept(n)
    BY <1>2 DEF Sink!Destroy
  <2>2. m_stdout_fd' = "closed" /\ todo' = todo /\ appended' = appended /\ cut' = cut
    BY <1>2 DEF Sink!Destroy
  <2> QED
    BY <2>1, <2>2, StdoutFlushed
<1>3. CASE Sink!AppendData
  BY <1>3, StdoutAppended
<1>4. CASE Sink!sink_it_
  <2>1. PICK n \in PartLengths : todo' \in {<<n>>, <<1, 1, n, 1, n>>}
    BY <1>4 DEF Sink!sink_it_
  <2>2. todo' \in Seq(PartLengths \union {1})
    <3> DEFINE T == PartLengths \union {1}
    <3>1. n \in T /\ 1 \in T
      OBVIOUS
    <3> HIDE DEF T
    <3>2. <<n>> \in Seq(T) /\ <<1, 1, n, 1, n>> \in Seq(T)
      BY <3>1
    <3> QED
      BY <2>1, <3>2 DEF T
  <2>3. UNCHANGED <<m_buf, m_stdout_fd, appended, cut, out>>
    BY <1>4 DEF Sink!sink_it_
  <2> QED
    BY <2>2, <2>3 DEF Sink!SinkInv, Sink!SinkTypeOK
<1>5. CASE UNCHANGED Sink!vars
  BY <1>5 DEF Sink!vars, Sink!SinkInv, Sink!SinkTypeOK
<1> QED
  BY <1>1, <1>2, <1>3, <1>4, <1>5 DEF Sink!Next

LEMMA StdoutInit == Sink!StdoutSinkAssumption /\ Sink!Init => Sink!SinkInv
<1> SUFFICES ASSUME Sink!StdoutSinkAssumption, Sink!Init PROVE Sink!SinkInv
  OBVIOUS
<1>1. /\ m_buf = <<>> /\ out = <<>> /\ appended = 0 /\ cut = {} /\ todo = <<>>
      /\ m_stdout_fd \in {"private", "stdout"} /\ MaxBytes \in Nat /\ INTERNAL_BUF_SIZE \in Nat
  BY DEF Sink!Init, Sink!StdoutSinkAssumption
<1> QED
  BY <1>1 DEF Sink!SinkInv, Sink!SinkTypeOK, Sink!InOrder

(* The buffer of the terminal's sink is never overrun, whatever the parts  *)
(* of the messages and however little the terminal takes.                  *)
THEOREM StdoutInvariant == Spec => []Sink!SinkInv
<1>1. Sink!StdoutSinkAssumption
  BY OutputsAssumption
<1>2. Init => Sink!SinkInv
  BY <1>1, StdoutInit DEF Init
<1>3. Sink!SinkInv /\ [Next]_vars => Sink!SinkInv'
  <2>1. [Next]_vars => [Sink!Next]_(Sink!vars)
    BY DEF Next, StreamStep, SinkStep, TuiStep, McapStep, vars, sinkVars, Sink!vars
  <2> QED
    BY <1>1, <2>1, StdoutStep
<1> QED
  BY <1>2, <1>3, PTL DEF Spec

(* However slow the terminal is, its sink keeps the newest bytes for it,   *)
(* and it gets each byte once and in order.                                *)
THEOREM StdoutKeepsNewest == Spec => []NewestBytesKept
<1>1. Sink!StdoutSinkAssumption
  BY OutputsAssumption
<1>2. Sink!SinkInv => NewestBytesKept
  BY <1>1, StdoutParts, InOrderConcat DEF NewestBytesKept, Sink!NewestBytesKept, Holds
<1> QED
  BY <1>2, StdoutInvariant, PTL

-----------------------------------------------------------------------------
(* The output of the TUI.                                                  *)

TuiBytes == Nat \X Nat \X {"text", "zero"}
Frames == [no : Nat, len : Nat, cut : BOOLEAN]
Ordered(s) == \A i, j \in 1..Len(s) : i < j => Tui!Before(s[i], s[j])
Covers(s, f) == \A k \in 1..f.len : \E i \in 1..Len(s) : s[i] = <<f.no, k, "text">>
OfFrame(s, f) == \A i \in 1..Len(s) : s[i][1] = f.no
Within(s, f, tight) ==
  \A i \in 1..Len(s) : s[i][1] <= f.no /\ (tight /\ s[i][1] = f.no => s[i][2] <= f.len)

(* An output that a step of the TUI may work on.                           *)
IsOutput(o) ==
  /\ o \in [left : Seq(TuiBytes), out : Seq(TuiBytes), error : BOOLEAN]
  /\ Len(o.left) <= OUT_BUF_SIZE
All(o) == screen \o (o.out \o o.left)
Fine(o, f, tight) ==
  /\ IsOutput(o) /\ f \in Frames
  /\ Within(screen, f, tight) /\ Within(o.out, f, tight) /\ Within(o.left, f, tight)
  /\ ~failed /\ ~o.error => Ordered(All(o)) /\ (~f.cut => Covers(All(o), f))

(* Sequences, joined and cut.                                              *)
LEMMA SeqConcat ==
  ASSUME NEW T, NEW p \in Seq(T), NEW q \in Seq(T)
  PROVE  /\ p \o q \in Seq(T) /\ Len(p) \in Nat /\ Len(q) \in Nat
         /\ Len(p \o q) = Len(p) + Len(q)
         /\ \A i \in 1..Len(p) : i \in 1..Len(p \o q) /\ (p \o q)[i] = p[i]
         /\ \A i \in 1..Len(q) : Len(p) + i \in 1..Len(p \o q) /\ (p \o q)[Len(p) + i] = q[i]
         /\ \A i \in 1..Len(p \o q) :
              \/ i \in 1..Len(p) /\ (p \o q)[i] = p[i]
              \/ i - Len(p) \in 1..Len(q) /\ (p \o q)[i] = q[i - Len(p)]
OBVIOUS

LEMMA SeqThree ==
  ASSUME NEW T, NEW p \in Seq(T), NEW q \in Seq(T), NEW r \in Seq(T)
  PROVE  (p \o q) \o r = p \o (q \o r)
OBVIOUS

LEMMA SeqCut ==
  ASSUME NEW T, NEW q \in Seq(T), NEW n \in 0..Len(q)
  PROVE  /\ SubSeq(q, 1, n) \in Seq(T) /\ Len(SubSeq(q, 1, n)) = n
         /\ \A i \in 1..n : SubSeq(q, 1, n)[i] = q[i]
         /\ SubSeq(q, n + 1, Len(q)) \in Seq(T) /\ Len(SubSeq(q, n + 1, Len(q))) = Len(q) - n
         /\ \A i \in 1..(Len(q) - n) : SubSeq(q, n + 1, Len(q))[i] = q[n + i]
         /\ SubSeq(q, 1, n) \o SubSeq(q, n + 1, Len(q)) = q
<1> DEFINE x == SubSeq(q, 1, n)
           y == SubSeq(q, n + 1, Len(q))
<1>1. n \in Nat /\ Len(q) \in Nat /\ n <= Len(q)
  OBVIOUS
<1>2. x \in Seq(T) /\ Len(x) = n /\ \A i \in 1..n : x[i] = q[i]
  <2>1. \A i \in 1..n : q[i] \in T
    BY <1>1
  <2>2. /\ x \in Seq(T)
        /\ Len(x) = IF 1 <= n THEN n - 1 + 1 ELSE 0
        /\ \A i \in 1..(n - 1 + 1) : x[i] = q[1 + i - 1]
    BY <1>1, <2>1, SubSeqProperties
  <2> HIDE DEF x
  <2>3. \A i \in 1..n : 1 + i - 1 = i
    OBVIOUS
  <2> QED
    BY <1>1, <2>2, <2>3
<1>3. y \in Seq(T) /\ Len(y) = Len(q) - n /\ \A i \in 1..(Len(q) - n) : y[i] = q[n + i]
  <2>1. \A i \in (n + 1)..Len(q) : q[i] \in T
    BY <1>1
  <2>2. /\ y \in Seq(T)
        /\ Len(y) = IF n + 1 <= Len(q) THEN Len(q) - (n + 1) + 1 ELSE 0
        /\ \A i \in 1..(Len(q) - (n + 1) + 1) : y[i] = q[(n + 1) + i - 1]
    BY <1>1, <2>1, SubSeqProperties
  <2> HIDE DEF y
  <2>3. \A i \in 1..(Len(q) - n) : (n + 1) + i - 1 = n + i
    BY <1>1
  <2> QED
    BY <1>1, <2>2, <2>3
<1> HIDE DEF x, y
<1>4. x \o y = q
  <2>1. Len(x \o y) = Len(q) /\ x \o y \in Seq(T)
    BY <1>1, <1>2, <1>3, SeqConcat
  <2>2. ASSUME NEW i \in 1..Len(x \o y) PROVE (x \o y)[i] = q[i]
    <3>1. \/ i \in 1..Len(x) /\ (x \o y)[i] = x[i]
          \/ i - Len(x) \in 1..Len(y) /\ (x \o y)[i] = y[i - Len(x)]
      BY <1>2, <1>3, SeqConcat
    <3>2. CASE i \in 1..Len(x) /\ (x \o y)[i] = x[i]
      BY <1>2, <3>2
    <3>3. CASE i - Len(x) \in 1..Len(y) /\ (x \o y)[i] = y[i - Len(x)]
      <4>1. i - n \in 1..(Len(q) - n) /\ n + (i - n) = i
        BY <1>1, <1>2, <1>3, <2>1, <3>3
      <4> QED
        BY <1>2, <1>3, <3>3, <4>1
    <3> QED
      BY <3>1, <3>2, <3>3
  <2> QED
    BY <2>1, <2>2, SeqEqual
<1> QED
  BY <1>2, <1>3, <1>4 DEF x, y

LEMMA TuiConcat ==
  ASSUME NEW p \in Seq(TuiBytes), NEW q \in Seq(TuiBytes)
  PROVE  /\ p \o q \in Seq(TuiBytes) /\ Len(p) \in Nat /\ Len(q) \in Nat
         /\ Len(p \o q) = Len(p) + Len(q)
         /\ \A i \in 1..Len(p) : i \in 1..Len(p \o q) /\ (p \o q)[i] = p[i]
         /\ \A i \in 1..Len(q) : Len(p) + i \in 1..Len(p \o q) /\ (p \o q)[Len(p) + i] = q[i]
         /\ \A i \in 1..Len(p \o q) :
              \/ i \in 1..Len(p) /\ (p \o q)[i] = p[i]
              \/ i - Len(p) \in 1..Len(q) /\ (p \o q)[i] = q[i - Len(p)]
BY SeqConcat

LEMMA TuiThree ==
  ASSUME NEW p \in Seq(TuiBytes), NEW q \in Seq(TuiBytes), NEW r \in Seq(TuiBytes)
  PROVE  (p \o q) \o r = p \o (q \o r)
BY SeqThree

LEMMA TuiCut ==
  ASSUME NEW q \in Seq(TuiBytes), NEW n \in 0..Len(q)
  PROVE  /\ SubSeq(q, 1, n) \in Seq(TuiBytes) /\ Len(SubSeq(q, 1, n)) = n
         /\ \A i \in 1..n : SubSeq(q, 1, n)[i] = q[i]
         /\ SubSeq(q, n + 1, Len(q)) \in Seq(TuiBytes) /\ Len(SubSeq(q, n + 1, Len(q))) = Len(q) - n
         /\ \A i \in 1..(Len(q) - n) : SubSeq(q, n + 1, Len(q))[i] = q[n + i]
         /\ SubSeq(q, 1, n) \o SubSeq(q, n + 1, Len(q)) = q
BY SeqCut

(* What is within a frame in the parts is within it in the whole.          *)
LEMMA WithinConcat ==
  ASSUME NEW p \in Seq(TuiBytes), NEW q \in Seq(TuiBytes), NEW f, NEW tight,
         Within(p, f, tight), Within(q, f, tight)
  PROVE  Within(p \o q, f, tight)
<1> SUFFICES ASSUME NEW i \in 1..Len(p \o q)
             PROVE  (p \o q)[i][1] <= f.no /\ (tight /\ (p \o q)[i][1] = f.no => (p \o q)[i][2] <= f.len)
  BY DEF Within
<1>1. \/ i \in 1..Len(p) /\ (p \o q)[i] = p[i]
      \/ i - Len(p) \in 1..Len(q) /\ (p \o q)[i] = q[i - Len(p)]
  BY TuiConcat
<1> QED
  BY <1>1 DEF Within

LEMMA WithinCut ==
  ASSUME NEW q \in Seq(TuiBytes), NEW n \in 0..Len(q), NEW f, NEW tight, Within(q, f, tight)
  PROVE  Within(SubSeq(q, 1, n), f, tight) /\ Within(SubSeq(q, n + 1, Len(q)), f, tight)
<1> DEFINE x == SubSeq(q, 1, n)
           y == SubSeq(q, n + 1, Len(q))
<1>1. n \in Nat /\ Len(q) \in Nat /\ n <= Len(q)
  OBVIOUS
<1>2. /\ Len(x) = n /\ (\A i \in 1..n : x[i] = q[i])
      /\ Len(y) = Len(q) - n /\ \A i \in 1..(Len(q) - n) : y[i] = q[n + i]
  BY TuiCut
<1> HIDE DEF x, y
<1>3. \A i \in 1..Len(x) : i \in 1..Len(q) /\ x[i] = q[i]
  BY <1>1, <1>2
<1>4. \A i \in 1..Len(y) : n + i \in 1..Len(q) /\ y[i] = q[n + i]
  BY <1>1, <1>2
<1>5. Within(x, f, tight) /\ Within(y, f, tight)
  BY <1>3, <1>4 DEF Within
<1> QED
  BY <1>5 DEF x, y

(* What the constants of the output are.                                   *)
LEMMA TuiConstants ==
  /\ OUT_BUF_SIZE \in Nat /\ OUT_BUF_SIZE >= 4 /\ MaxFrames \in Nat
  /\ \A n \in FrameParts : n \in Nat
BY OutputsAssumption DEF Tui!TuiOutputAssumption

LEMMA OutputFields ==
  ASSUME NEW o, IsOutput(o)
  PROVE  /\ o.left \in Seq(TuiBytes) /\ o.out \in Seq(TuiBytes) /\ o.error \in BOOLEAN
         /\ Len(o.left) \in Nat /\ Len(o.left) <= OUT_BUF_SIZE
BY DEF IsOutput

(* Until an error, a flush keeps what all bytes are; after one they are of *)
(* the same frames still.                                                  *)
LEMMA FlushFine ==
  ASSUME screen \in Seq(TuiBytes), NEW o, NEW f, NEW tight, Fine(o, f, tight),
         NEW p \in Tui!FlushOutput(o)
  PROVE  Fine(p, f, tight) /\ (OfFrame(o.left, f) => OfFrame(p.left, f))
<1>1. /\ o.left \in Seq(TuiBytes) /\ o.out \in Seq(TuiBytes) /\ o.error \in BOOLEAN
      /\ Len(o.left) \in Nat /\ Len(o.left) <= OUT_BUF_SIZE
  BY OutputFields DEF Fine
<1>2. PICK n \in 0..Len(o.left), e \in BOOLEAN :
        p = [left |-> Tui!Left(o.left, n, e), out |-> o.out \o SubSeq(o.left, 1, n), error |-> o.error \/ e]
  <2>1. PICK n \in 0..Len(o.left), e \in BOOLEAN : p = Tui!Flushed(o, n, e)
    <3>1. 0..(Len(o.left) - 1) \subseteq 0..Len(o.left)
      BY <1>1
    <3> QED
      BY <3>1 DEF Tui!FlushOutput
  <2> QED
    BY <2>1 DEF Tui!Flushed
<1> DEFINE x == SubSeq(o.left, 1, n)
           y == SubSeq(o.left, n + 1, Len(o.left))
<1>3. /\ p.left = IF e THEN x ELSE y
      /\ p.out = o.out \o x /\ p.error = (o.error \/ e)
      /\ p = [left |-> p.left, out |-> p.out, error |-> p.error]
  BY <1>2 DEF Tui!Left
<1>4. /\ x \in Seq(TuiBytes) /\ Len(x) = n /\ y \in Seq(TuiBytes) /\ Len(y) = Len(o.left) - n
      /\ x \o y = o.left
  BY <1>1, TuiCut
<1>5. Within(x, f, tight) /\ Within(y, f, tight)
  BY <1>1, WithinCut DEF Fine
<1> HIDE DEF x, y
<1>6. p.left \in Seq(TuiBytes) /\ p.out \in Seq(TuiBytes) /\ p.error \in BOOLEAN
  BY <1>1, <1>3, <1>4, TuiConcat
<1>7. Len(p.left) <= Len(o.left)
  BY <1>1, <1>3, <1>4
<1>8. IsOutput(p)
  <2>1. Len(p.left) <= OUT_BUF_SIZE
    BY <1>1, <1>6, <1>7, TuiConstants
  <2>2. p \in [left : Seq(TuiBytes), out : Seq(TuiBytes), error : BOOLEAN]
    BY ONLY <1>3, <1>6
  <2> QED
    BY <2>1, <2>2 DEF IsOutput
<1>9. Within(p.left, f, tight) /\ Within(p.out, f, tight)
  BY <1>1, <1>3, <1>4, <1>5, WithinConcat DEF Fine
<1>10. ASSUME ~p.error PROVE All(p) = All(o)
  <2>1. p.left = y
    BY <1>3, <1>10
  <2>2. p.out \o p.left = o.out \o o.left
    <3>1. (o.out \o x) \o y = o.out \o (x \o y)
      BY <1>1, <1>4, TuiThree
    <3> QED
      BY <1>3, <1>4, <2>1, <3>1
  <2> QED
    BY <2>2 DEF All
<1>11. ~p.error => ~o.error
  BY <1>1, <1>3
<1>12. ASSUME OfFrame(o.left, f) PROVE OfFrame(p.left, f)
  <2>1. \A i \in 1..n : i \in 1..Len(o.left)
    BY <1>1
  <2>2. \A i \in 1..(Len(o.left) - n) : n + i \in 1..Len(o.left)
    BY <1>1
  <2>3. /\ \A i \in 1..Len(x) : i \in 1..Len(o.left) /\ x[i] = o.left[i]
        /\ \A i \in 1..Len(y) : n + i \in 1..Len(o.left) /\ y[i] = o.left[n + i]
    BY <1>1, <1>4, <2>1, <2>2, TuiCut DEF x, y
  <2> DEFINE q == o.left
  <2>6. \A i \in 1..Len(q) : q[i][1] = f.no
    BY <1>12 DEF OfFrame
  <2>4. OfFrame(x, f) /\ OfFrame(y, f)
    <3>1. ASSUME NEW i \in 1..Len(x) PROVE x[i][1] = f.no
      BY ONLY <2>3, <2>6, <3>1
    <3>2. ASSUME NEW i \in 1..Len(y) PROVE y[i][1] = f.no
      BY ONLY <2>3, <2>6, <3>2
    <3> QED
      BY ONLY <3>1, <3>2 DEF OfFrame
  <2>5. p.left = x \/ p.left = y
    BY <1>3
  <2> QED
    BY ONLY <2>4, <2>5
<1> QED
  BY <1>8, <1>9, <1>10, <1>11, <1>12 DEF Fine

LEMMA MakeRoomFine ==
  ASSUME screen \in Seq(TuiBytes), NEW o, NEW f, NEW tight, Fine(o, f, tight), NEW k,
         NEW p \in Tui!MakeRoom(o, k)
  PROVE  Fine(p, f, tight) /\ (OfFrame(o.left, f) => OfFrame(p.left, f))
<1>1. CASE p = o
  BY <1>1, OutputFields DEF Fine
<1>2. CASE p \in Tui!FlushOutput(o)
  BY <1>2, FlushFine
<1> QED
  BY <1>1, <1>2 DEF Tui!MakeRoom

(* The bytes of a part follow those before them.                           *)
Follow(d, f) ==
  /\ d \in Seq(TuiBytes)
  /\ \A i \in 1..Len(d) : d[i][1] = f.no /\ d[i][2] = f.len + i
Whole(d, f) == \A i \in 1..Len(d) : d[i] = <<f.no, f.len + i, "text">>

LEMMA TuiBytesAre ==
  ASSUME NEW f \in Frames, NEW n \in Nat, NEW d,
         \/ d = Tui!Bytes(f, n)
         \/ \E o, m : n = Tui!Space(o, m) /\ d = Tui!Text(o, f, m)
  PROVE  Len(d) = n /\ Follow(d, f)
<1>1. f.no \in Nat /\ f.len \in Nat
  BY DEF Frames
<1>2. PICK text \in [1..n -> {"text", "zero"}] : d = [i \in 1..n |-> <<f.no, f.len + i, text[i]>>]
  <2>1. CASE d = Tui!Bytes(f, n)
    <3> DEFINE text == [i \in 1..n |-> "text"]
    <3>1. text \in [1..n -> {"text", "zero"}] /\ d = [i \in 1..n |-> <<f.no, f.len + i, text[i]>>]
      BY <2>1 DEF Tui!Bytes
    <3> QED
      BY <3>1
  <2>2. ASSUME NEW o, NEW m, n = Tui!Space(o, m), d = Tui!Text(o, f, m)
        PROVE  \E text \in [1..n -> {"text", "zero"}] : d = [i \in 1..n |-> <<f.no, f.len + i, text[i]>>]
    <3> DEFINE text == [i \in 1..n |-> IF m >= Tui!Room(o) /\ i = Tui!Room(o) THEN "zero" ELSE "text"]
    <3>1. text \in [1..n -> {"text", "zero"}] /\ d = [i \in 1..n |-> <<f.no, f.len + i, text[i]>>]
      BY <2>2 DEF Tui!Text
    <3> QED
      BY <3>1
  <2> QED
    BY <2>1, <2>2
<1>3. \A i \in 1..n : <<f.no, f.len + i, text[i]>> \in TuiBytes
  BY <1>1 DEF TuiBytes
<1>4. d \in [1..n -> TuiBytes]
  BY <1>2, <1>3
<1>5. d \in Seq(TuiBytes) /\ Len(d) = n
  BY <1>4, SeqDef
<1> QED
  BY <1>2, <1>5 DEF Follow

LEMMA WholeBytes ==
  ASSUME NEW f \in Frames, NEW n \in Nat PROVE Whole(Tui!Bytes(f, n), f)
<1>1. Len(Tui!Bytes(f, n)) = n
  BY TuiBytesAre
<1> QED
  BY <1>1 DEF Whole, Tui!Bytes

LEMMA SpaceIs ==
  ASSUME NEW o, IsOutput(o), NEW n \in Nat
  PROVE  /\ Tui!Space(o, n) \in 0..n /\ Len(o.left) + Tui!Space(o, n) <= OUT_BUF_SIZE
         /\ n <= Tui!Room(o) => Tui!Space(o, n) = n
         /\ n < Tui!Room(o) => \A i \in 1..n : i # Tui!Room(o)
<1>1. Len(o.left) \in Nat /\ Len(o.left) <= OUT_BUF_SIZE /\ OUT_BUF_SIZE \in Nat
  BY OutputFields, TuiConstants
<1>2. Tui!Space(o, n) = IF n < OUT_BUF_SIZE - Len(o.left) THEN n ELSE OUT_BUF_SIZE - Len(o.left)
  BY DEF Tui!Space, Tui!Room
<1> DEFINE l == Len(o.left)
           x == Tui!Space(o, n)
<1> HIDE DEF l, x
<1>3. x = IF n < OUT_BUF_SIZE - l THEN n ELSE OUT_BUF_SIZE - l
  BY <1>2 DEF l, x
<1>4. l \in Nat /\ l <= OUT_BUF_SIZE /\ OUT_BUF_SIZE \in Nat
  BY <1>1 DEF l
<1>5. x \in 0..n /\ l + x <= OUT_BUF_SIZE /\ (n <= OUT_BUF_SIZE - l => x = n)
  BY <1>3, <1>4
<1>6. n < OUT_BUF_SIZE - l => \A i \in 1..n : i # OUT_BUF_SIZE - l
  BY <1>4
<1>7. Tui!Room(o) = OUT_BUF_SIZE - l
  BY DEF Tui!Room, l
<1> QED
  BY <1>5, <1>6, <1>7 DEF l, x

LEMMA RoomIs ==
  ASSUME NEW o, NEW f, Fine(o, f, TRUE) PROVE Tui!Room(o) \in Int
BY OutputFields, TuiConstants DEF Fine, Tui!Room

(* A part is added to a frame.                                             *)
LEMMA GrownIs ==
  ASSUME NEW f \in Frames, NEW n \in Nat, NEW r \in Int, NEW g, g = Tui!Grown(f, n, r)
  PROVE  /\ g \in Frames /\ g.no = f.no /\ g.len = f.len + n
         /\ ~g.cut => ~f.cut /\ n <= r
<1>1. f = [no |-> f.no, len |-> f.len, cut |-> f.cut] /\ f.no \in Nat /\ f.len \in Nat /\ f.cut \in BOOLEAN
  BY DEF Frames
<1>2. ASSUME NEW cutOff \in BOOLEAN, g = [f EXCEPT !.len = @ + n, !.cut = cutOff]
      PROVE  g \in Frames /\ g.no = f.no /\ g.len = f.len + n /\ g.cut = cutOff
  <2>1. g = [no |-> f.no, len |-> f.len + n, cut |-> cutOff]
    BY <1>1, <1>2
  <2> QED
    BY <1>1, <2>1 DEF Frames
<1>3. g = [f EXCEPT !.len = @ + n, !.cut = (f.cut \/ n > r)]
  BY DEF Tui!Grown
<1>4. g \in Frames /\ g.no = f.no /\ g.len = f.len + n /\ g.cut = (f.cut \/ n > r)
  BY <1>2, <1>3
<1>5. ~g.cut => ~f.cut /\ ~(n > r)
  BY ONLY <1>4
<1>6. ~(n > r) => n <= r
  OBVIOUS
<1> QED
  BY <1>4, <1>5, <1>6

(* What is put behind the buffer, by either way.                           *)
LEMMA PutIs ==
  ASSUME NEW o, IsOutput(o), NEW d
  PROVE  [o EXCEPT !.left = @ \o d] = [left |-> o.left \o d, out |-> o.out, error |-> o.error]
<1> DEFINE b == o.left \o d
<1>1. o = [left |-> o.left, out |-> o.out, error |-> o.error]
  BY DEF IsOutput
<1>2. [o EXCEPT !.left = @ \o d] = [o EXCEPT !.left = b]
  OBVIOUS
<1> HIDE DEF b
<1>3. [o EXCEPT !.left = b] = [left |-> b, out |-> o.out, error |-> o.error]
  BY <1>1
<1> QED
  BY <1>2, <1>3 DEF b

(* Bytes of a frame behind those within the frame so far.                  *)
LEMMA OrderedBehind ==
  ASSUME NEW s \in Seq(TuiBytes), NEW f \in Frames, Within(s, f, TRUE), Ordered(s),
         NEW d, Follow(d, f)
  PROVE  Ordered(s \o d)
<1>1. f.no \in Nat /\ f.len \in Nat
  BY DEF Frames
<1>2. d \in Seq(TuiBytes) /\ \A i \in 1..Len(d) : d[i][1] = f.no /\ d[i][2] = f.len + i
  BY DEF Follow
<1>3. \A i \in 1..Len(s) : s[i][1] \in Nat /\ s[i][2] \in Nat
  BY DEF TuiBytes
<1> SUFFICES ASSUME NEW i \in 1..Len(s \o d), NEW j \in 1..Len(s \o d), i < j
             PROVE  Tui!Before((s \o d)[i], (s \o d)[j])
  BY DEF Ordered
<1>4. Len(s) \in Nat /\ Len(d) \in Nat /\ Len(s \o d) = Len(s) + Len(d)
  BY <1>2, TuiConcat
<1>5. /\ \/ i \in 1..Len(s) /\ (s \o d)[i] = s[i]
         \/ i - Len(s) \in 1..Len(d) /\ (s \o d)[i] = d[i - Len(s)]
      /\ \/ j \in 1..Len(s) /\ (s \o d)[j] = s[j]
         \/ j - Len(s) \in 1..Len(d) /\ (s \o d)[j] = d[j - Len(s)]
  BY <1>2, TuiConcat
<1>6. CASE i \in 1..Len(s) /\ (s \o d)[i] = s[i] /\ j \in 1..Len(s) /\ (s \o d)[j] = s[j]
  BY <1>6 DEF Ordered
<1>7. CASE i \in 1..Len(s) /\ (s \o d)[i] = s[i] /\ j - Len(s) \in 1..Len(d) /\ (s \o d)[j] = d[j - Len(s)]
  <2>1. s[i][1] <= f.no /\ (s[i][1] = f.no => s[i][2] <= f.len) /\ s[i][1] \in Nat /\ s[i][2] \in Nat
    BY <1>3, <1>7 DEF Within
  <2>2. d[j - Len(s)][1] = f.no /\ d[j - Len(s)][2] = f.len + (j - Len(s)) /\ j - Len(s) >= 1
    BY <1>2, <1>4, <1>7
  <2>3. s[i][2] <= f.len => s[i][2] < f.len + (j - Len(s))
    BY <1>1, <1>4, <2>1, <2>2, SMTT(30)
  <2>4. Tui!Before(s[i], d[j - Len(s)])
    <3>1. s[i][1] < f.no \/ s[i][1] = f.no
      BY <1>1, <2>1
    <3> QED
      BY <2>1, <2>2, <2>3, <3>1 DEF Tui!Before
  <2> QED
    BY <1>7, <2>4
<1>8. CASE i - Len(s) \in 1..Len(d) /\ (s \o d)[i] = d[i - Len(s)] /\ j - Len(s) \in 1..Len(d) /\ (s \o d)[j] = d[j - Len(s)]
  <2>1. /\ d[i - Len(s)][1] = f.no /\ d[i - Len(s)][2] = f.len + (i - Len(s))
        /\ d[j - Len(s)][1] = f.no /\ d[j - Len(s)][2] = f.len + (j - Len(s))
    BY <1>2, <1>8
  <2>2. f.len + (i - Len(s)) < f.len + (j - Len(s))
    BY <1>1, <1>4
  <2>3. Tui!Before(d[i - Len(s)], d[j - Len(s)])
    BY <2>1, <2>2 DEF Tui!Before
  <2> QED
    BY <1>8, <2>3
<1>9. CASE i - Len(s) \in 1..Len(d) /\ j \in 1..Len(s)
  BY <1>4, <1>9
<1> QED
  BY <1>5, <1>6, <1>7, <1>8, <1>9

LEMMA CoversBehind ==
  ASSUME NEW s \in Seq(TuiBytes), NEW f \in Frames, Covers(s, f), NEW n \in Nat,
         NEW d \in Seq(TuiBytes), Len(d) = n, Whole(d, f),
         NEW g \in Frames, g.no = f.no, g.len = f.len + n
  PROVE  Covers(s \o d, g)
<1>1. f.no \in Nat /\ f.len \in Nat
  BY DEF Frames
<1> SUFFICES ASSUME NEW k \in 1..(f.len + n) PROVE \E i \in 1..Len(s \o d) : (s \o d)[i] = <<f.no, k, "text">>
  BY DEF Covers
<1>2. CASE k \in 1..f.len
  <2>1. PICK i \in 1..Len(s) : s[i] = <<f.no, k, "text">>
    BY <1>2 DEF Covers
  <2>2. i \in 1..Len(s \o d) /\ (s \o d)[i] = s[i]
    BY TuiConcat
  <2> QED
    BY <2>1, <2>2
<1>3. CASE k \notin 1..f.len
  <2>1. k - f.len \in 1..Len(d) /\ f.len + (k - f.len) = k
    BY <1>1, <1>3
  <2>2. d[k - f.len] = <<f.no, f.len + (k - f.len), "text">>
    BY <2>1 DEF Whole
  <2>3. Len(s) + (k - f.len) \in 1..Len(s \o d) /\ (s \o d)[Len(s) + (k - f.len)] = d[k - f.len]
    BY <2>1, TuiConcat
  <2> QED
    BY <2>1, <2>2, <2>3
<1> QED
  BY <1>2, <1>3

(* What is within a frame is within a longer or later one.                 *)
LEMMA WithinLonger ==
  ASSUME NEW s \in Seq(TuiBytes), NEW f \in Frames, NEW g \in Frames, NEW tight, NEW t, Within(s, f, tight),
         \/ g.no = f.no /\ g.len >= f.len /\ (t => tight)
         \/ g.no > f.no
  PROVE  Within(s, g, t)
<1>1. f.no \in Nat /\ f.len \in Nat /\ g.no \in Nat /\ g.len \in Nat
  BY DEF Frames
<1>2. \A i \in 1..Len(s) : s[i][1] \in Nat /\ s[i][2] \in Nat
  BY DEF TuiBytes
<1> SUFFICES ASSUME NEW i \in 1..Len(s) PROVE s[i][1] <= g.no /\ (t /\ s[i][1] = g.no => s[i][2] <= g.len)
  BY DEF Within
<1>3. s[i][1] <= f.no /\ (tight /\ s[i][1] = f.no => s[i][2] <= f.len) /\ s[i][1] \in Nat /\ s[i][2] \in Nat
  BY <1>2 DEF Within
<1> QED
  BY <1>1, <1>3

(* A part of n bytes is put into the buffer, as far as there is space.     *)
LEMMA PutFine ==
  ASSUME screen \in Seq(TuiBytes), NEW o, NEW f, Fine(o, f, TRUE), NEW n \in Nat,
         NEW d, Len(d) = Tui!Space(o, n), Follow(d, f),
         NEW c, c = [o EXCEPT !.left = @ \o d],
         NEW g \in Frames, g.no = f.no, g.len = f.len + n,
         ~g.cut => ~f.cut /\ Tui!Space(o, n) = n /\ Whole(d, f)
  PROVE  /\ Fine(c, g, TRUE)
         /\ OfFrame(o.left, f) => OfFrame(c.left, g)
<1> DEFINE m == Tui!Space(o, n)
<1>1. /\ o.left \in Seq(TuiBytes) /\ o.out \in Seq(TuiBytes) /\ o.error \in BOOLEAN
      /\ Len(o.left) \in Nat /\ IsOutput(o) /\ f \in Frames
  BY OutputFields DEF Fine
<1>2. m \in Nat /\ m <= n /\ Len(o.left) + m <= OUT_BUF_SIZE /\ f.no \in Nat /\ f.len \in Nat
  BY <1>1, SpaceIs DEF Frames
<1>3. d \in Seq(TuiBytes) /\ Len(d) = m /\ \A i \in 1..m : d[i][1] = f.no /\ d[i][2] = f.len + i
  BY DEF Follow
<1>4. /\ c.left = o.left \o d /\ c.out = o.out /\ c.error = o.error
      /\ c = [left |-> o.left \o d, out |-> o.out, error |-> o.error]
  <2>1. c = [left |-> o.left \o d, out |-> o.out, error |-> o.error]
    BY <1>1, PutIs
  <2> QED
    BY ONLY <2>1
<1>5. ~g.cut => ~f.cut /\ m = n /\ Whole(d, f)
  OBVIOUS
<1> HIDE DEF m
<1>6. o.left \o d \in Seq(TuiBytes) /\ Len(o.left \o d) = Len(o.left) + m
  BY <1>1, <1>3, TuiConcat
<1>7. IsOutput(c)
  <2>1. c \in [left : Seq(TuiBytes), out : Seq(TuiBytes), error : BOOLEAN]
    BY ONLY <1>1, <1>4, <1>6
  <2>2. Len(c.left) <= OUT_BUF_SIZE
    BY <1>2, <1>4, <1>6
  <2> QED
    BY <2>1, <2>2 DEF IsOutput
<1>8. Within(d, g, TRUE)
  <2> SUFFICES ASSUME NEW i \in 1..Len(d) PROVE d[i][1] <= g.no /\ (d[i][1] = g.no => d[i][2] <= g.len)
    BY DEF Within
  <2>1. d[i][1] = f.no /\ d[i][2] = f.len + i /\ i \in Nat /\ i <= n
    BY <1>2, <1>3
  <2> QED
    BY <1>2, <2>1
<1>9. Within(screen, g, TRUE) /\ Within(o.out, g, TRUE) /\ Within(o.left, g, TRUE)
  <2>1. ASSUME NEW s \in Seq(TuiBytes), Within(s, f, TRUE) PROVE Within(s, g, TRUE)
    <3> SUFFICES ASSUME NEW i \in 1..Len(s)
                 PROVE  s[i][1] <= g.no /\ (s[i][1] = g.no => s[i][2] <= g.len)
      BY DEF Within
    <3>1. s[i][1] <= f.no /\ (s[i][1] = f.no => s[i][2] <= f.len)
      BY <2>1 DEF Within
    <3>2. s[i][2] \in Nat
      BY DEF TuiBytes
    <3> QED
      BY <1>2, <3>1, <3>2
  <2> QED
    BY <1>1, <2>1 DEF Fine
<1>10. Within(c.left, g, TRUE) /\ Within(c.out, g, TRUE)
  <2>1. Within(o.left \o d, g, TRUE)
    BY <1>1, <1>3, <1>8, <1>9, WithinConcat
  <2>2. c.left = o.left \o d /\ c.out = o.out
    BY <1>4
  <2> QED
    BY ONLY <1>9, <2>1, <2>2
<1>11. All(c) = All(o) \o d /\ All(o) \in Seq(TuiBytes)
  <2>1. o.out \o (o.left \o d) = (o.out \o o.left) \o d
    BY <1>1, <1>3, TuiThree
  <2>2. o.out \o o.left \in Seq(TuiBytes)
    BY <1>1, TuiConcat
  <2>3. screen \o ((o.out \o o.left) \o d) = (screen \o (o.out \o o.left)) \o d
    BY <1>3, <2>2, TuiThree
  <2>4. screen \o (o.out \o o.left) \in Seq(TuiBytes)
    BY <2>2, TuiConcat
  <2> QED
    BY <1>4, <2>1, <2>3, <2>4 DEF All
<1>12. Within(All(o), f, TRUE)
  <2>1. Within(o.out \o o.left, f, TRUE) /\ o.out \o o.left \in Seq(TuiBytes)
    BY <1>1, WithinConcat, TuiConcat DEF Fine
  <2> QED
    BY <2>1, WithinConcat DEF Fine, All
<1>13. ASSUME ~failed, ~c.error PROVE Ordered(All(c)) /\ (~g.cut => Covers(All(c), g))
  <2>1. Ordered(All(o)) /\ (~f.cut => Covers(All(o), f))
    BY <1>4, <1>13 DEF Fine
  <2>2. Ordered(All(o) \o d)
    BY <1>1, <1>11, <1>12, <2>1, OrderedBehind
  <2>3. ASSUME ~g.cut PROVE Covers(All(o) \o d, g)
    BY <1>1, <1>2, <1>3, <1>5, <1>11, <2>1, <2>3, CoversBehind
  <2> QED
    BY <1>11, <2>2, <2>3
<1>14. Fine(c, g, TRUE)
  BY <1>7, <1>9, <1>10, <1>13 DEF Fine
<1>15. ASSUME OfFrame(o.left, f) PROVE OfFrame(c.left, g)
  <2> SUFFICES ASSUME NEW i \in 1..Len(o.left \o d) PROVE (o.left \o d)[i][1] = f.no
    BY <1>4 DEF OfFrame
  <2>1. \/ i \in 1..Len(o.left) /\ (o.left \o d)[i] = o.left[i]
        \/ i - Len(o.left) \in 1..Len(d) /\ (o.left \o d)[i] = d[i - Len(o.left)]
    BY <1>1, <1>3, TuiConcat
  <2> QED
    BY <1>3, <1>15, <2>1 DEF OfFrame
<1> QED
  BY <1>14, <1>15

(* memcpy and snprintf.                                                    *)
LEMMA CopiedFine ==
  ASSUME screen \in Seq(TuiBytes), NEW o, NEW f, Fine(o, f, TRUE), NEW n \in Nat,
         NEW g \in Frames, g.no = f.no, g.len = f.len + n, ~g.cut => ~f.cut /\ n <= Tui!Room(o)
  PROVE  /\ Fine(Tui!Copied(o, f, n), g, TRUE)
         /\ OfFrame(o.left, f) => OfFrame(Tui!Copied(o, f, n).left, g)
<1> DEFINE d == Tui!Bytes(f, Tui!Space(o, n))
<1>1. Tui!Space(o, n) \in Nat /\ (n <= Tui!Room(o) => Tui!Space(o, n) = n) /\ f \in Frames
  BY SpaceIs DEF Fine
<1>2. Len(d) = Tui!Space(o, n) /\ Follow(d, f) /\ Whole(d, f)
  BY <1>1, TuiBytesAre, WholeBytes
<1>3. Tui!Copied(o, f, n) = [o EXCEPT !.left = @ \o d]
  BY DEF Tui!Copied
<1> HIDE DEF d
<1> QED
  BY <1>1, <1>2, <1>3, PutFine

LEMMA PrintedFine ==
  ASSUME screen \in Seq(TuiBytes), NEW o, NEW f, Fine(o, f, TRUE), NEW n \in Nat,
         NEW g \in Frames, g.no = f.no, g.len = f.len + n, ~g.cut => ~f.cut /\ n < Tui!Room(o)
  PROVE  /\ Fine(Tui!Printed(o, f, n), g, TRUE)
         /\ OfFrame(o.left, f) => OfFrame(Tui!Printed(o, f, n).left, g)
<1> DEFINE d == Tui!Text(o, f, n)
<1>1. /\ Tui!Space(o, n) \in Nat /\ f \in Frames /\ Tui!Room(o) \in Int
      /\ n < Tui!Room(o) => Tui!Space(o, n) = n /\ \A i \in 1..n : i # Tui!Room(o)
  <2>1. Len(o.left) \in Nat /\ IsOutput(o) /\ f \in Frames
    BY OutputFields DEF Fine
  <2>2. Tui!Room(o) \in Int
    BY <2>1, TuiConstants DEF Tui!Room
  <2>3. /\ Tui!Space(o, n) \in 0..n
        /\ n <= Tui!Room(o) => Tui!Space(o, n) = n
        /\ n < Tui!Room(o) => \A i \in 1..n : i # Tui!Room(o)
    BY <2>1, SpaceIs
  <2>4. n < Tui!Room(o) => n <= Tui!Room(o)
    BY <2>2
  <2>5. Tui!Space(o, n) \in Nat
    BY <2>3
  <2> QED
    BY <2>1, <2>2, <2>3, <2>4, <2>5
<1>2. Len(d) = Tui!Space(o, n) /\ Follow(d, f)
  BY <1>1, TuiBytesAre
<1>3. ASSUME n < Tui!Room(o) PROVE Whole(d, f)
  <2>1. Len(d) = n /\ \A i \in 1..n : i # Tui!Room(o)
    BY <1>1, <1>2, <1>3
  <2> QED
    BY <1>1, <1>3, <2>1 DEF Whole, Tui!Text
<1>4. Tui!Printed(o, f, n) = [o EXCEPT !.left = @ \o d]
  BY DEF Tui!Printed
<1> HIDE DEF d
<1> QED
  BY <1>1, <1>2, <1>3, <1>4, PutFine

(* A new frame begins.                                                     *)
LEMMA NextFine ==
  ASSUME screen \in Seq(TuiBytes), NEW o, NEW f, NEW tight, Fine(o, f, tight),
         NEW g \in Frames, g.no > f.no, g.len = 0
  PROVE  Fine(o, g, TRUE)
<1>1. o.left \in Seq(TuiBytes) /\ o.out \in Seq(TuiBytes) /\ f \in Frames
  BY OutputFields DEF Fine
<1>2. Within(screen, g, TRUE) /\ Within(o.out, g, TRUE) /\ Within(o.left, g, TRUE)
  BY <1>1, WithinLonger DEF Fine
<1>3. Covers(All(o), g)
  BY DEF Covers
<1> QED
  BY <1>2, <1>3 DEF Fine

(* The frame is forgotten: its number stays.                               *)
LEMMA LooseFine ==
  ASSUME NEW o, NEW f, Fine(o, f, TRUE), NEW g \in Frames, g.no = f.no, g.len = 0
  PROVE  Fine(o, g, FALSE)
<1>1. \A s : Within(s, f, TRUE) => Within(s, g, FALSE)
  BY DEF Within
<1>2. Covers(All(o), g)
  BY DEF Covers
<1> QED
  BY <1>1, <1>2 DEF Fine

(* What is left in the buffer is forgotten.                                *)
LEMMA DropFine ==
  ASSUME screen \in Seq(TuiBytes), NEW o, NEW f, NEW tight, Fine(o, f, tight), f.len = 0,
         NEW c, c = [left |-> <<>>, out |-> o.out, error |-> o.error]
  PROVE  Fine(c, f, tight)
<1>1. o.left \in Seq(TuiBytes) /\ o.out \in Seq(TuiBytes) /\ o.error \in BOOLEAN
  BY OutputFields DEF Fine
<1>2. <<>> \in Seq(TuiBytes) /\ Len(<<>>) = 0 /\ Within(<<>>, f, tight)
  BY DEF Within
<1>3. c.left = <<>> /\ c.out = o.out /\ c.error = o.error
  OBVIOUS
<1>4. IsOutput(c)
  <2>1. c \in [left : Seq(TuiBytes), out : Seq(TuiBytes), error : BOOLEAN]
    BY <1>1, <1>2
  <2> QED
    BY <1>2, <1>3, <2>1, TuiConstants DEF IsOutput
<1>5. Covers(All(c), f)
  BY DEF Covers
<1>6. ASSUME Ordered(All(o)) PROVE Ordered(All(c))
  <2> DEFINE s == screen \o o.out
  <2>1. All(o) = s \o o.left /\ s \in Seq(TuiBytes)
    <3>1. (screen \o o.out) \o o.left = screen \o (o.out \o o.left)
      BY <1>1, TuiThree
    <3>2. screen \o o.out \in Seq(TuiBytes)
      BY <1>1, TuiConcat
    <3> QED
      BY <3>1, <3>2 DEF All
  <2>2. All(c) = s
    <3>1. o.out \o <<>> = o.out
      BY <1>1
    <3> QED
      BY <1>3, <3>1 DEF All
  <2> HIDE DEF s
  <2>3. \A i \in 1..Len(s) : i \in 1..Len(s \o o.left) /\ (s \o o.left)[i] = s[i]
    BY <1>1, <2>1, TuiConcat
  <2> QED
    BY <1>6, <2>1, <2>2, <2>3 DEF Ordered
<1> QED
  BY <1>1, <1>2, <1>3, <1>4, <1>5, <1>6 DEF Fine

LEMMA FrameIs ==
  ASSUME Tui!OutputInv
  PROVE  /\ frame \in Frames /\ frame.no \in Nat /\ frame.no <= MaxFrames
         /\ Tui!NextFrame \in Frames /\ Tui!NextFrame.no = frame.no + 1 /\ Tui!NextFrame.len = 0
         /\ Tui!NextFrame.cut = FALSE
         /\ screen \in Seq(TuiBytes) /\ m_outBuf \in Seq(TuiBytes) /\ failed \in BOOLEAN
         /\ m_termActive \in BOOLEAN /\ m_running \in BOOLEAN /\ ticking \in BOOLEAN
         /\ (m_running => m_termActive) /\ (ticking => m_running)
<1>1. /\ frame \in Frames /\ frame.no \in 0..MaxFrames
      /\ screen \in Seq(TuiBytes) /\ m_outBuf \in Seq(TuiBytes) /\ failed \in BOOLEAN
      /\ m_termActive \in BOOLEAN /\ m_running \in BOOLEAN /\ ticking \in BOOLEAN
      /\ (m_running => m_termActive) /\ (ticking => m_running)
  BY DEF Tui!OutputInv, Tui!OutputTypeOK, Frames, TuiBytes, Tui!OutputBytes
<1>2. Tui!NextFrame = [no |-> frame.no + 1, len |-> 0, cut |-> FALSE]
  BY DEF Tui!NextFrame
<1> QED
  BY <1>1, <1>2, TuiConstants DEF Frames

LEMMA OutputFine ==
  ASSUME Tui!OutputInv
  PROVE  Fine(Tui!Output, frame, m_termActive) /\ (ticking => OfFrame(Tui!Output.left, frame))
<1> DEFINE o == Tui!Output
<1>1. o = [left |-> m_outBuf, out |-> <<>>, error |-> FALSE]
  BY DEF Tui!Output
<1> HIDE DEF o
<1>2. <<>> \in Seq(TuiBytes) /\ Within(<<>>, frame, m_termActive)
  BY DEF Within
<1>3. o.left = m_outBuf /\ o.out = <<>> /\ o.error = FALSE
  BY <1>1
<1>4. IsOutput(o)
  <2>1. o \in [left : Seq(TuiBytes), out : Seq(TuiBytes), error : BOOLEAN]
    BY <1>1, <1>2, FrameIs
  <2> QED
    BY <1>3, <2>1 DEF IsOutput, Tui!OutputInv, Tui!OutputTypeOK
<1>5. Within(screen, frame, m_termActive) /\ Within(m_outBuf, frame, m_termActive)
  <2>1. DOMAIN screen = 1..Len(screen) /\ DOMAIN m_outBuf = 1..Len(m_outBuf)
    BY FrameIs
  <2> QED
    BY <2>1 DEF Tui!OutputInv, Tui!UpTo, Within
<1>6. All(o) = screen \o m_outBuf
  <2>1. <<>> \o m_outBuf = m_outBuf
    BY FrameIs
  <2> QED
    BY <1>3, <2>1 DEF All
<1>7. ASSUME ~failed PROVE Ordered(All(o)) /\ (~frame.cut => Covers(All(o), frame))
  <2> DEFINE all == screen \o m_outBuf
  <2>1. DOMAIN all = 1..Len(all)
    <3>1. all \in Seq(TuiBytes)
      BY FrameIs, TuiConcat
    <3> QED
      BY <3>1
  <2>2. /\ \A i, j \in DOMAIN all : i < j => Tui!Before(all[i], all[j])
        /\ ~frame.cut => \A k \in 1..frame.len :
                           \E i \in DOMAIN all : all[i] = <<frame.no, k, "text">>
    BY <1>7 DEF Tui!OutputInv, Tui!ScreenInOrder
  <2> HIDE DEF all
  <2>3. Ordered(all) /\ (~frame.cut => Covers(all, frame))
    BY <2>1, <2>2 DEF Ordered, Covers
  <2> QED
    BY <1>6, <2>3 DEF all
<1>8. Fine(o, frame, m_termActive)
  BY <1>2, <1>3, <1>4, <1>5, <1>7, FrameIs DEF Fine
<1>9. ASSUME ticking PROVE OfFrame(m_outBuf, frame)
  <2>1. DOMAIN m_outBuf = 1..Len(m_outBuf)
    BY FrameIs
  <2> QED
    BY <1>9, <2>1 DEF OfFrame, Tui!OutputInv, Tui!ScreenInOrder
<1> QED
  BY <1>3, <1>8, <1>9 DEF o

LEMMA BecomesFine ==
  ASSUME Tui!OutputInv, NEW o, NEW f, Fine(o, f, m_termActive'), Tui!Becomes(o), frame' = f, f.no <= MaxFrames,
         m_termActive' \in BOOLEAN, m_running' \in BOOLEAN, ticking' \in BOOLEAN,
         m_running' => m_termActive', ticking' => m_running' /\ OfFrame(o.left, f)
  PROVE  Tui!OutputInv'
<1>1. /\ m_outBuf' = o.left /\ screen' = screen \o o.out /\ failed' = (failed \/ o.error)
  BY DEF Tui!Becomes
<1>2. /\ o.left \in Seq(TuiBytes) /\ o.out \in Seq(TuiBytes) /\ o.error \in BOOLEAN
      /\ Len(o.left) <= OUT_BUF_SIZE /\ f \in Frames
  BY OutputFields DEF Fine
<1>3. screen' \in Seq(TuiBytes) /\ m_outBuf' \in Seq(TuiBytes) /\ failed' \in BOOLEAN
  BY <1>1, <1>2, FrameIs, TuiConcat
<1>4. Within(screen', f, m_termActive') /\ Within(m_outBuf', f, m_termActive')
  BY <1>1, <1>2, FrameIs, WithinConcat DEF Fine
<1>5. Tui!UpTo(screen', frame', m_termActive') /\ Tui!UpTo(m_outBuf', frame', m_termActive')
  <2>1. DOMAIN screen' = 1..Len(screen') /\ DOMAIN m_outBuf' = 1..Len(m_outBuf')
    BY <1>3
  <2> QED
    BY <1>4, <2>1 DEF Tui!UpTo, Within
<1>6. screen' \o m_outBuf' = All(o)
  BY <1>1, <1>2, FrameIs, TuiThree DEF All
<1>7. Tui!ScreenInOrder'
  <2> DEFINE all == screen' \o m_outBuf'
  <2>1. DOMAIN all = 1..Len(all)
    <3>1. all \in Seq(TuiBytes)
      BY <1>3, TuiConcat
    <3> QED
      BY <3>1
  <2>2. ~failed' => Ordered(all) /\ (~f.cut => Covers(all, f))
    BY <1>1, <1>6 DEF Fine
  <2> HIDE DEF all
  <2>3. ~failed' =>
          /\ \A i, j \in DOMAIN all : i < j => Tui!Before(all[i], all[j])
          /\ ~f.cut => \A k \in 1..f.len : \E i \in DOMAIN all : all[i] = <<f.no, k, "text">>
    BY <2>1, <2>2 DEF Ordered, Covers
  <2>4. ticking' => \A i \in DOMAIN m_outBuf' : m_outBuf'[i][1] = f.no
    BY <1>1, <1>2 DEF OfFrame
  <2> QED
    BY <2>3, <2>4 DEF Tui!ScreenInOrder, Tui!Before, all
<1>8. Tui!OutputTypeOK'
  <2>1. frame'.no \in 0..MaxFrames
    BY <1>2, TuiConstants DEF Frames
  <2> QED
    BY <1>1, <1>2, <1>3, <2>1 DEF Tui!OutputTypeOK
<1> QED
  BY <1>2, <1>3, <1>5, <1>7, <1>8 DEF Tui!OutputInv, Frames, TuiBytes, Tui!OutputBytes

(* The state of an output that is not written yet.                         *)
LEMMA Ticking ==
  ASSUME Tui!OutputInv, ticking
  PROVE  /\ Fine(Tui!Output, frame, TRUE) /\ m_termActive = TRUE
         /\ OfFrame(Tui!Output.left, frame)
<1>1. m_termActive = TRUE
  BY FrameIs
<1> QED
  BY <1>1, OutputFine

LEMMA TuiAppendData ==
  ASSUME Tui!OutputInv, Tui!AppendData PROVE Tui!OutputInv'
<1>0. PICK n \in FrameParts :
        \E o \in Tui!MakeRoom(Tui!Output, n) :
          Tui!Becomes(Tui!Copied(o, frame, n)) /\ frame' = Tui!Grown(frame, n, Tui!Room(o))
  BY DEF Tui!AppendData
<1>1. PICK o \in Tui!MakeRoom(Tui!Output, n) :
        Tui!Becomes(Tui!Copied(o, frame, n)) /\ frame' = Tui!Grown(frame, n, Tui!Room(o))
  BY <1>0
<1>2. ticking /\ UNCHANGED <<m_termActive, m_running, ticking>> /\ n \in Nat
  BY TuiConstants DEF Tui!AppendData
<1>3. Fine(o, frame, TRUE) /\ OfFrame(o.left, frame)
  BY <1>1, <1>2, Ticking, MakeRoomFine, FrameIs
<1> DEFINE g == Tui!Grown(frame, n, Tui!Room(o))
<1>g. g = Tui!Grown(frame, n, Tui!Room(o))
  OBVIOUS
<1> HIDE DEF g
<1>4. /\ g \in Frames /\ g.no = frame.no /\ g.len = frame.len + n
      /\ ~g.cut => ~frame.cut /\ n <= Tui!Room(o)
  <2>1. frame \in Frames /\ n \in Nat /\ Tui!Room(o) \in Int
    BY <1>2, FrameIs, <1>3, RoomIs
  <2> QED
    BY <1>g, <2>1, GrownIs
<1>5. Fine(Tui!Copied(o, frame, n), g, TRUE) /\ OfFrame(Tui!Copied(o, frame, n).left, g)
  BY <1>2, <1>3, <1>4, FrameIs, CopiedFine
<1>6. frame' = g /\ m_termActive' = TRUE
  BY <1>1, <1>2, Ticking DEF g
<1> QED
  BY <1>1, <1>2, <1>4, <1>5, <1>6, FrameIs, BecomesFine

LEMMA TuiSafeSnprintf ==
  ASSUME Tui!OutputInv, Tui!SafeSnprintf PROVE Tui!OutputInv'
<1> DEFINE o == Tui!Output
<1>1. PICK n \in FrameParts :
        Tui!Becomes(Tui!Printed(o, frame, n)) /\ frame' = Tui!Grown(frame, n, Tui!Room(o) - 1)
  BY DEF Tui!SafeSnprintf
<1>2. ticking /\ UNCHANGED <<m_termActive, m_running, ticking>> /\ n \in Nat
  BY TuiConstants DEF Tui!SafeSnprintf
<1>3. Fine(o, frame, TRUE) /\ OfFrame(o.left, frame)
  BY <1>2, Ticking
<1> HIDE DEF o
<1> DEFINE g == Tui!Grown(frame, n, Tui!Room(o) - 1)
<1>g. g = Tui!Grown(frame, n, Tui!Room(o) - 1)
  OBVIOUS
<1> HIDE DEF g
<1>4. /\ g \in Frames /\ g.no = frame.no /\ g.len = frame.len + n
      /\ ~g.cut => ~frame.cut /\ n < Tui!Room(o)
  <2> DEFINE r == Tui!Room(o) - 1
  <2>1. frame \in Frames /\ n \in Nat /\ Tui!Room(o) \in Int
    BY <1>2, FrameIs, <1>3, RoomIs
  <2>2. r \in Int /\ (n <= r => n < Tui!Room(o)) /\ g = Tui!Grown(frame, n, r)
    BY <1>g, <2>1
  <2> HIDE DEF r
  <2>3. /\ g \in Frames /\ g.no = frame.no /\ g.len = frame.len + n
        /\ ~g.cut => ~frame.cut /\ n <= r
    BY <2>1, <2>2, GrownIs
  <2> QED
    BY <2>2, <2>3
<1>5. Fine(Tui!Printed(o, frame, n), g, TRUE) /\ OfFrame(Tui!Printed(o, frame, n).left, g)
  BY <1>2, <1>3, <1>4, FrameIs, PrintedFine
<1>6. frame' = g /\ m_termActive' = TRUE
  BY <1>1, <1>2, Ticking DEF g
<1> QED
  BY <1>1, <1>2, <1>4, <1>5, <1>6, FrameIs, BecomesFine

LEMMA TuiTermInit ==
  ASSUME Tui!OutputInv, Tui!TermInit PROVE Tui!OutputInv'
<1> DEFINE f == Tui!NextFrame
<1>1. PICK o \in Tui!MakeRoom(Tui!Output, 2) :
        /\ frame' = Tui!Grown(f, 2, Tui!Room(o))
        /\ \E p \in Tui!FlushOutput(Tui!Copied(o, f, 2)) : Tui!Becomes(p)
  BY DEF Tui!TermInit
<1>2. PICK p \in Tui!FlushOutput(Tui!Copied(o, f, 2)) : Tui!Becomes(p)
  BY <1>1
<1>3. /\ frame.no < MaxFrames /\ ~m_termActive
      /\ m_termActive' = TRUE /\ m_running' = TRUE /\ ticking' = ticking
  BY DEF Tui!TermInit
<1>4. f \in Frames /\ f.no = frame.no + 1 /\ f.len = 0 /\ f.cut = FALSE /\ frame.no \in Nat
  BY FrameIs
<1> DEFINE g == Tui!Grown(f, 2, Tui!Room(o))
<1>g. g = Tui!Grown(f, 2, Tui!Room(o)) /\ frame' = g
  BY <1>1
<1> HIDE DEF f, g
<1>5. Fine(Tui!Output, f, TRUE)
  <2>1. Fine(Tui!Output, frame, m_termActive) /\ f.no > frame.no /\ screen \in Seq(TuiBytes)
    BY <1>4, OutputFine, FrameIs
  <2> QED
    BY <1>4, <2>1, NextFine
<1>6. Fine(o, f, TRUE)
  BY <1>1, <1>5, MakeRoomFine, FrameIs
<1>7. /\ g \in Frames /\ g.no = f.no /\ g.len = f.len + 2
      /\ ~g.cut => ~f.cut /\ 2 <= Tui!Room(o)
  <2>1. f \in Frames /\ 2 \in Nat /\ Tui!Room(o) \in Int
    BY <1>4, <1>6, RoomIs
  <2> QED
    BY <1>g, <2>1, GrownIs
<1>8. Fine(Tui!Copied(o, f, 2), g, TRUE)
  BY <1>7, <1>6, FrameIs, CopiedFine
<1>9. Fine(p, g, TRUE)
  BY <1>2, <1>8, FlushFine, FrameIs
<1>10. g.no <= MaxFrames
  BY <1>3, <1>4, <1>7, TuiConstants
<1>11. ~ticking'
  BY <1>3, FrameIs
<1> QED
  BY <1>2, <1>3, <1>g, <1>9, <1>10, <1>11, FrameIs, BecomesFine

LEMMA TuiTickBegin ==
  ASSUME Tui!OutputInv, Tui!TickBegin PROVE Tui!OutputInv'
<1>1. PICK clear \in BOOLEAN :
        LET length  == IF clear THEN 1 ELSE 0
            before  == Tui!MakeRoom(Tui!Output, length)
            cleared == UNION {Tui!FlushOutput(Tui!Copied(o, Tui!NextFrame, length)) : o \in before}
        IN  /\ frame' = [Tui!NextFrame EXCEPT !.no = @ + length]
            /\ \E o \in (IF clear THEN cleared ELSE {Tui!Output}) : \E p \in Tui!FlushOutput(o) :
                 Tui!Becomes([p EXCEPT !.left = <<>>])
  BY DEF Tui!TickBegin
<1>2. /\ m_running /\ frame.no + 2 <= MaxFrames
      /\ ticking' = TRUE /\ UNCHANGED <<m_termActive, m_running>>
  BY DEF Tui!TickBegin
<1> DEFINE f == Tui!NextFrame
           length == IF clear THEN 1 ELSE 0
           g == [f EXCEPT !.no = @ + length]
<1>3. f \in Frames /\ f.no = frame.no + 1 /\ f.len = 0 /\ f.cut = FALSE /\ frame.no \in Nat
  BY FrameIs
<1>4. g \in Frames /\ g.no = frame.no + 1 + length /\ g.len = 0 /\ g.cut = FALSE
  BY <1>3 DEF Frames
<1>5. frame' = g /\ m_termActive' = TRUE /\ m_running' = TRUE
  <2>1. m_termActive = TRUE /\ m_running = TRUE
    BY <1>2, FrameIs
  <2> QED
    BY <1>1, <1>2, <2>1
<1>6. Fine(Tui!Output, f, TRUE)
  <2>1. Fine(Tui!Output, frame, m_termActive) /\ f.no > frame.no /\ screen \in Seq(TuiBytes)
    BY <1>3, OutputFine, FrameIs
  <2> HIDE DEF f
  <2> QED
    BY <1>3, <2>1, NextFine
<1>7. PICK o, p : /\ Fine(o, g, TRUE) /\ p \in Tui!FlushOutput(o)
                  /\ Tui!Becomes([p EXCEPT !.left = <<>>])
  <2>1. CASE clear
    <3>0. PICK q, o, p : /\ q \in Tui!MakeRoom(Tui!Output, 1)
                         /\ o \in Tui!FlushOutput(Tui!Copied(q, f, 1))
                         /\ p \in Tui!FlushOutput(o)
                         /\ Tui!Becomes([p EXCEPT !.left = <<>>])
      BY <1>1, <2>1
    <3> DEFINE h == [no |-> f.no, len |-> 1, cut |-> TRUE]
    <3>2. h \in Frames /\ h.no = f.no /\ h.len = f.len + 1 /\ h.cut = TRUE
      BY <1>3 DEF Frames
    <3> HIDE DEF f, g, h
    <3>3. Fine(q, f, TRUE)
      BY <1>6, <3>0, MakeRoomFine, FrameIs
    <3>4. Fine(Tui!Copied(q, f, 1), h, TRUE)
      BY <3>2, <3>3, FrameIs, CopiedFine
    <3>5. Fine(o, h, TRUE)
      BY <3>0, <3>4, FlushFine, FrameIs
    <3>6. g.no > h.no
      BY <1>3, <1>4, <2>1, <3>2
    <3>7. Fine(o, g, TRUE)
      BY <1>4, <3>5, <3>6, NextFine, FrameIs
    <3> QED
      BY <3>0, <3>7
  <2>2. CASE ~clear
    <3>1. \E p \in Tui!FlushOutput(Tui!Output) : Tui!Becomes([p EXCEPT !.left = <<>>])
      BY <1>1, <2>2
    <3>2. g = f
      BY <1>3, <2>2 DEF Frames
    <3> HIDE DEF f, g
    <3> QED
      BY <1>6, <3>1, <3>2
  <2> QED
    BY <2>1, <2>2
<1> HIDE DEF f, g
<1>8. Fine(p, g, TRUE)
  BY <1>7, FlushFine, FrameIs
<1> DEFINE c == [p EXCEPT !.left = <<>>]
<1>9. c = [left |-> <<>>, out |-> p.out, error |-> p.error]
  <2>1. p = [left |-> p.left, out |-> p.out, error |-> p.error]
    BY <1>8 DEF Fine, IsOutput
  <2> QED
    BY <2>1
<1> HIDE DEF c
<1>10. Fine(c, g, TRUE)
  BY <1>4, <1>8, <1>9, DropFine, FrameIs
<1>11. g.no <= MaxFrames
  BY <1>2, <1>3, <1>4, TuiConstants
<1>12. Tui!Becomes(c)
  BY <1>7 DEF c
<1>13. OfFrame(c.left, g)
  BY <1>9 DEF OfFrame
<1> QED
  BY <1>2, <1>5, <1>10, <1>11, <1>12, <1>13, FrameIs, BecomesFine

LEMMA TuiTickEnd ==
  ASSUME Tui!OutputInv, Tui!TickEnd PROVE Tui!OutputInv'
<1>1. PICK o \in Tui!FlushOutput(Tui!Output) : Tui!Becomes(o)
  BY DEF Tui!TickEnd
<1>2. ticking /\ ticking' = FALSE /\ UNCHANGED <<m_termActive, m_running, frame>>
  BY DEF Tui!TickEnd
<1>3. Fine(o, frame, TRUE)
  BY <1>1, <1>2, Ticking, FlushFine, FrameIs
<1>4. m_termActive' = TRUE /\ m_running' = m_running /\ frame' = frame
  BY <1>2, Ticking
<1> QED
  BY <1>1, <1>2, <1>3, <1>4, FrameIs, BecomesFine

LEMMA TuiStop ==
  ASSUME Tui!OutputInv, Tui!Stop PROVE Tui!OutputInv'
<1>1. /\ ~ticking /\ frame.no < MaxFrames
      /\ m_running' = FALSE /\ m_termActive' = FALSE /\ ticking' = ticking
  BY DEF Tui!Stop
<1>2. CASE m_termActive
  <2> DEFINE f == Tui!NextFrame
             c == [Tui!Output EXCEPT !.left = Tui!Bytes(f, 4)]
             b == [left |-> <<>>, out |-> Tui!Output.out, error |-> Tui!Output.error]
             g == [no |-> f.no, len |-> 4, cut |-> FALSE]
  <2>1. frame' = f /\ \E o \in Tui!FlushOutput(c) : Tui!Becomes(o)
    BY <1>2 DEF Tui!Stop, Tui!TermRestore
  <2>2. f \in Frames /\ f.no = frame.no + 1 /\ f.len = 0 /\ f.cut = FALSE /\ frame.no \in Nat
    BY FrameIs
  <2>3. g \in Frames /\ g.no = f.no /\ g.len = f.len + 4
    BY <2>2 DEF Frames
  <2>4. Tui!Output = [left |-> m_outBuf, out |-> <<>>, error |-> FALSE]
    BY DEF Tui!Output
  <2>5. b = [left |-> <<>>, out |-> <<>>, error |-> FALSE] /\ b.left = <<>>
    BY <2>4
  <2>b. b = [left |-> <<>>, out |-> Tui!Output.out, error |-> Tui!Output.error]
    OBVIOUS
  <2>c. c = [left |-> Tui!Bytes(f, 4), out |-> <<>>, error |-> FALSE]
    <3> DEFINE x == Tui!Bytes(f, 4)
    <3>1. c = [Tui!Output EXCEPT !.left = x]
      OBVIOUS
    <3> HIDE DEF c, x
    <3>2. c = [left |-> x, out |-> <<>>, error |-> FALSE]
      BY <2>4, <3>1
    <3> QED
      BY <3>2 DEF x
  <2> HIDE DEF f, g, b, c
  <2>6. Fine(Tui!Output, f, TRUE)
    <3>1. Fine(Tui!Output, frame, m_termActive) /\ f.no > frame.no /\ screen \in Seq(TuiBytes)
      BY <2>2, OutputFine, FrameIs
    <3> QED
      BY <2>2, <3>1, NextFine
  <2>7. Fine(b, f, TRUE)
    BY <2>2, <2>6, <2>b, DropFine, FrameIs
  <2>8. Tui!Space(b, 4) = 4 /\ 4 <= Tui!Room(b)
    <3>1. Len(b.left) = 0
      BY <2>5
    <3> QED
      BY <3>1, TuiConstants DEF Tui!Space, Tui!Room
  <2>9. Tui!Copied(b, f, 4) = c
    <3> DEFINE x == Tui!Bytes(f, 4)
    <3>1. IsOutput(b)
      BY <2>7 DEF Fine
    <3>2. Tui!Copied(b, f, 4) = [b EXCEPT !.left = @ \o x]
      BY <2>8 DEF Tui!Copied
    <3>3. <<>> \o x = x
      <4>1. x \in Seq(TuiBytes)
        BY <2>2, TuiBytesAre DEF Follow
      <4> HIDE DEF x
      <4> QED
        BY <4>1
    <3>4. c = [left |-> x, out |-> <<>>, error |-> FALSE]
      BY <2>c
    <3> HIDE DEF x
    <3>5. Tui!Copied(b, f, 4) = [left |-> b.left \o x, out |-> b.out, error |-> b.error]
      BY <3>1, <3>2, PutIs
    <3>6. b.left = <<>> /\ b.out = <<>> /\ b.error = FALSE
      BY <2>5
    <3> QED
      BY <3>3, <3>4, <3>5, <3>6
  <2>10. Fine(c, g, TRUE)
    <3>1. ~f.cut
      BY <2>2
    <3>2. Fine(Tui!Copied(b, f, 4), g, TRUE)
      BY <2>3, <2>7, <2>8, <3>1, FrameIs, CopiedFine
    <3> QED
      BY <2>9, <3>2
  <2>11. PICK o \in Tui!FlushOutput(c) : Tui!Becomes(o)
    BY <2>1
  <2>12. Fine(o, g, TRUE)
    BY <2>10, <2>11, FlushFine, FrameIs
  <2>13. Fine(o, f, FALSE)
    BY <2>2, <2>3, <2>12, LooseFine
  <2>14. f.no <= MaxFrames
    BY <1>1, <2>2, TuiConstants
  <2> QED
    BY <1>1, <2>1, <2>11, <2>13, <2>14, FrameIs, BecomesFine
<1>3. CASE ~m_termActive
  <2>1. UNCHANGED <<m_outBuf, frame, screen, failed>> /\ m_termActive' = m_termActive
    BY <1>1, <1>3, FrameIs DEF Tui!Stop
  <2> QED
    <3>1. Tui!OutputTypeOK'
      BY <1>1, <2>1 DEF Tui!OutputInv, Tui!OutputTypeOK
    <3>2. Tui!ScreenInOrder'
      BY <1>1, <2>1 DEF Tui!OutputInv, Tui!ScreenInOrder
    <3>3. Tui!UpTo(screen, frame, m_termActive)' /\ Tui!UpTo(m_outBuf, frame, m_termActive)'
      BY <2>1 DEF Tui!OutputInv, Tui!UpTo
    <3> QED
      BY <1>1, <2>1, <3>1, <3>2, <3>3 DEF Tui!OutputInv
<1> QED
  BY <1>2, <1>3

LEMMA TuiSteps ==
  ASSUME Tui!OutputInv, [Tui!Next]_(Tui!vars) PROVE Tui!OutputInv'
<1>1. CASE UNCHANGED Tui!vars
  <2>1. /\ UNCHANGED <<m_outBuf, frame, screen, failed>>
        /\ m_termActive' = m_termActive /\ m_running' = m_running /\ ticking' = ticking
    BY <1>1 DEF Tui!vars
  <2>2. Tui!Becomes(Tui!Output)
    <3>1. Tui!Output.left = m_outBuf /\ Tui!Output.out = <<>> /\ Tui!Output.error = FALSE
      BY DEF Tui!Output
    <3>2. screen \o <<>> = screen
      BY FrameIs
    <3> QED
      BY <2>1, <3>1, <3>2, FrameIs DEF Tui!Becomes
  <2>3. Fine(Tui!Output, frame, m_termActive') /\ (ticking' => OfFrame(Tui!Output.left, frame))
    BY <2>1, OutputFine
  <2> QED
    BY <2>1, <2>2, <2>3, FrameIs, BecomesFine
<1>2. CASE Tui!Next
  BY <1>2, TuiAppendData, TuiSafeSnprintf, TuiTermInit, TuiTickBegin, TuiTickEnd, TuiStop DEF Tui!Next
<1> QED
  BY <1>1, <1>2

LEMMA TuiInit == Tui!Init => Tui!OutputInv
<1> SUFFICES ASSUME Tui!Init PROVE Tui!OutputInv
  OBVIOUS
<1>1. /\ m_termActive = FALSE /\ m_running = FALSE /\ m_outBuf = <<>>
      /\ frame = [no |-> 0, len |-> 0, cut |-> FALSE] /\ ticking = FALSE
      /\ screen = <<>> /\ failed = FALSE
  BY DEF Tui!Init
<1>2. Tui!OutputTypeOK
  <2>1. Len(m_outBuf) = 0 /\ frame.no = 0
    BY <1>1
  <2>2. frame.no \in 0..MaxFrames /\ Len(m_outBuf) <= OUT_BUF_SIZE
    BY <2>1, TuiConstants
  <2>3. /\ m_termActive \in BOOLEAN /\ m_running \in BOOLEAN /\ ticking \in BOOLEAN
        /\ failed \in BOOLEAN /\ ~m_running
    BY <1>1
  <2> QED
    BY <2>2, <2>3 DEF Tui!OutputTypeOK
<1>3. Tui!ScreenInOrder
  <2>1. screen \o m_outBuf = <<>> /\ DOMAIN <<>> = {} /\ frame.len = 0 /\ ~ticking
    BY <1>1
  <2> QED
    BY <2>1 DEF Tui!ScreenInOrder
<1>4. Tui!UpTo(screen, frame, m_termActive) /\ Tui!UpTo(m_outBuf, frame, m_termActive)
  BY <1>1 DEF Tui!UpTo
<1> QED
  BY <1>1, <1>2, <1>3, <1>4 DEF Tui!OutputInv

(* What is left in the buffer of the TUI and what the terminal has got.    *)
THEOREM TuiOutputInvariant == Spec => []Tui!OutputInv
<1>1. Init => Tui!OutputInv
  BY TuiInit DEF Init
<1>2. Tui!OutputInv /\ [Next]_vars => Tui!OutputInv'
  <2>1. [Next]_vars => [Tui!Next]_(Tui!vars)
    BY DEF Next, StreamStep, SinkStep, TuiStep, McapStep, vars, tuiVars, Tui!vars
  <2> QED
    BY <2>1, TuiSteps
<1> QED
  BY <1>1, <1>2, PTL DEF Spec

(* AppendData, SafeSnprintf and FlushOutput of RtTui, for any sizes and    *)
(* however slow the terminal is: order, the newest frame whole unless cut, *)
(* and nothing of an earlier frame behind the bytes of a new one.          *)
THEOREM ScreenKeepsOrder == Spec => []ScreenInOrder
<1>1. Tui!OutputInv => ScreenInOrder
  BY DEF Tui!OutputInv, ScreenInOrder
<1> QED
  BY <1>1, TuiOutputInvariant, PTL

-----------------------------------------------------------------------------
(* The MCAP rotator: the size of what a file holds.                        *)

McapMessages(p) == [id : 1..p, size : Sizes]

LEMMA McapConstants ==
  /\ _max_file_size \in Nat /\ _max_file_count \in Nat /\ _max_file_count > 0
  /\ Sizes \subseteq Nat /\ MaxMessages \in Nat /\ MaxFaults \in Nat
BY OutputsAssumption DEF Mcap!McapRotatorAssumption

LEMMA SizeValue ==
  ASSUME NEW p \in Nat, NEW q \in Seq(McapMessages(p))
  PROVE  /\ Mcap!Size(q) = SizeUpTo(q)[Len(q)]
         /\ \A n \in 0..Len(q) : SizeUpTo(q)[n] = SizeStep(q, SizeUpTo(q), n)
BY SizesAre

(* A message adds its size.                                                *)
LEMMA SizeGrows ==
  ASSUME NEW p \in Nat, NEW q \in Seq(McapMessages(p))
  PROVE  /\ \A n \in 0..Len(q) : SizeUpTo(q)[n] \in Nat
         /\ \A n \in 0..Len(q) : SizeUpTo(q)[n] <= Mcap!Size(q)
<1> DEFINE S == {n \in Nat : n <= Len(q) => SizeUpTo(q)[n] \in Nat}
           T == {n \in Nat : n <= Len(q) => SizeUpTo(q)[Len(q) - n] <= SizeUpTo(q)[Len(q)]}
<1>0. Len(q) \in Nat /\ \A n \in 1..Len(q) : q[n].size \in Nat
  <2>1. \A n \in 1..Len(q) : q[n] \in McapMessages(p)
    OBVIOUS
  <2>2. \A m \in McapMessages(p) : m.size \in Nat
    BY McapConstants DEF McapMessages
  <2>3. Len(q) \in Nat
    OBVIOUS
  <2> QED
    BY <2>1, <2>2, <2>3
<1>1. \A n \in 1..Len(q) : SizeUpTo(q)[n] = SizeUpTo(q)[n - 1] + q[n].size
  BY <1>0, SizeValue DEF SizeStep
<1>2. 0 \in S
  BY <1>0, SizeValue DEF SizeStep
<1>3. ASSUME NEW n \in Nat, n \in S PROVE n + 1 \in S
  <2>1. CASE n + 1 <= Len(q)
    <3>1. n + 1 \in 1..Len(q) /\ (n + 1) - 1 = n /\ n <= Len(q)
      BY <1>0, <2>1
    <3>2. SizeUpTo(q)[n + 1] = SizeUpTo(q)[n] + q[n + 1].size
      BY <1>1, <3>1
    <3> QED
      BY <1>0, <1>3, <3>1, <3>2
  <2> QED
    BY <2>1
<1> HIDE DEF S
<1>4. \A n \in Nat : n \in S
  BY <1>2, <1>3, NatSetInduction
<1>5. \A n \in 0..Len(q) : SizeUpTo(q)[n] \in Nat
  BY <1>0, <1>4 DEF S
<1>6. 0 \in T
  BY <1>0, <1>5
<1>7. ASSUME NEW n \in Nat, n \in T PROVE n + 1 \in T
  <2>1. CASE n + 1 <= Len(q)
    <3> DEFINE i == Len(q) - n
    <3>1. i \in 1..Len(q) /\ i - 1 = Len(q) - (n + 1) /\ i - 1 \in 0..Len(q) /\ i \in 0..Len(q)
      BY <1>0, <2>1
    <3>2. SizeUpTo(q)[i] <= SizeUpTo(q)[Len(q)] /\ Len(q) \in 0..Len(q)
      BY <1>0, <1>7, <2>1
    <3> HIDE DEF i
    <3>3. SizeUpTo(q)[i] = SizeUpTo(q)[i - 1] + q[i].size
      BY <1>1, <3>1
    <3>4. SizeUpTo(q)[i - 1] <= SizeUpTo(q)[Len(q)]
      BY <1>0, <1>5, <3>1, <3>2, <3>3
    <3>5. SizeUpTo(q)[Len(q) - (n + 1)] <= SizeUpTo(q)[Len(q)]
      BY <3>1, <3>4
    <3> QED
      BY <3>5
  <2> QED
    BY <2>1
<1> HIDE DEF T
<1>8. \A n \in Nat : n \in T
  BY <1>6, <1>7, NatSetInduction
<1>9. ASSUME NEW n \in 0..Len(q) PROVE SizeUpTo(q)[n] <= Mcap!Size(q)
  <2>1. Len(q) - n \in Nat /\ Len(q) - n <= Len(q) /\ Len(q) - (Len(q) - n) = n
    BY <1>0
  <2> QED
    BY <1>8, <2>1, SizeValue DEF T
<1> QED
  BY <1>5, <1>9

LEMMA SizePrefix ==
  ASSUME NEW p \in Nat, NEW q \in Seq(McapMessages(p)), NEW r \in Seq(McapMessages(p)),
         Len(q) <= Len(r), \A n \in 1..Len(q) : r[n] = q[n]
  PROVE  SizeUpTo(r)[Len(q)] = Mcap!Size(q)
<1>1. SizeUpTo(r)[Len(q)] = SizeUpTo(q)[Len(q)]
  BY SizeOfPrefix
<1> QED
  BY <1>1, SizeValue

LEMMA McapSizes ==
  ASSUME NEW p \in Nat, NEW q \in Seq(McapMessages(p))
  PROVE  /\ Mcap!Size(<<>>) = 0 /\ Mcap!Size(q) \in Nat
         /\ \A m \in McapMessages(p) : Mcap!Size(Append(q, m)) = Mcap!Size(q) + m.size
         /\ \A r \in Seq(McapMessages(p)) : Mcap!Size(q) <= Mcap!Size(q \o r)
<1>1. Mcap!Size(<<>>) = 0
  <2>1. <<>> \in Seq(McapMessages(p)) /\ Len(<<>>) = 0
    OBVIOUS
  <2> DEFINE e == <<>>
  <2> HIDE DEF e
  <2>2. Mcap!Size(e) = SizeStep(e, SizeUpTo(e), 0)
    <3>1. e \in Seq(McapMessages(p)) /\ Len(e) = 0
      BY <2>1 DEF e
    <3>2. 0 \in 0..Len(e)
      BY <3>1
    <3> QED
      BY <3>1, <3>2, SizeValue
  <2> QED
    BY <2>2 DEF SizeStep, e
<1>2. Len(q) \in Nat /\ Mcap!Size(q) \in Nat
  BY SizeGrows, SizeValue
<1>3. ASSUME NEW m \in McapMessages(p) PROVE Mcap!Size(Append(q, m)) = Mcap!Size(q) + m.size
  <2> DEFINE r == Append(q, m)
  <2>1. r \in Seq(McapMessages(p)) /\ Len(r) = Len(q) + 1 /\ r[Len(q) + 1] = m
        /\ \A n \in 1..Len(q) : r[n] = q[n]
    OBVIOUS
  <2> HIDE DEF r
  <2>2. SizeUpTo(r)[Len(q)] = Mcap!Size(q)
    BY <1>2, <2>1, SizePrefix
  <2>3. Mcap!Size(r) = SizeUpTo(r)[Len(q)] + r[Len(q) + 1].size
    <3>1. Len(r) \in 0..Len(r) /\ Len(r) # 0 /\ Len(r) - 1 = Len(q)
      BY <1>2, <2>1
    <3> QED
      BY <2>1, <3>1, SizeValue DEF SizeStep
  <2> QED
    BY <2>1, <2>2, <2>3 DEF r
<1>4. ASSUME NEW r \in Seq(McapMessages(p)) PROVE Mcap!Size(q) <= Mcap!Size(q \o r)
  <2> DEFINE s == q \o r
  <2>1. s \in Seq(McapMessages(p)) /\ Len(s) = Len(q) + Len(r) /\ Len(r) \in Nat
        /\ \A n \in 1..Len(q) : s[n] = q[n]
    OBVIOUS
  <2> HIDE DEF s
  <2>2. Len(q) <= Len(s) /\ Len(q) \in 0..Len(s)
    BY <1>2, <2>1
  <2>3. SizeUpTo(s)[Len(q)] = Mcap!Size(q)
    BY <2>1, <2>2, SizePrefix
  <2> QED
    BY <2>1, <2>2, <2>3, SizeGrows DEF s
<1> QED
  BY <1>1, <1>2, <1>3, <1>4

-----------------------------------------------------------------------------
(* What the files of the rotator hold, as a function on their indexes.     *)

AreContents(c, p) ==
  DOMAIN c \subseteq Mcap!Indexes /\ \A i \in DOMAIN c : c[i] \in Seq(McapMessages(p))
Published(c) ==
  \A i, j \in DOMAIN c : \A k \in 1..Len(c[i]), l \in 1..Len(c[j]) :
    i > j \/ (i = j /\ k < l) => c[i][k].id < c[j][l].id
Small(q) == Mcap!Size(q) <= _max_file_size \/ Len(q) = 1
Sound(c, p) == AreContents(c, p) /\ Published(c) /\ \A i \in DOMAIN c : Small(c[i])

HasId(c, x) == \E i \in DOMAIN c : \E k \in 1..Len(c[i]) : c[i][k].id = x
Newest(c, p) ==
  \E n \in 1..(p + 1) :
    /\ \A x : HasId(c, x) <=> x \in n..p
    /\ n > 1 => _max_file_count \in DOMAIN c

LEMMA McapMessage ==
  ASSUME NEW p \in Nat, NEW q \in Seq(McapMessages(p))
  PROVE  Len(q) \in Nat /\ \A k \in 1..Len(q) : q[k] \in McapMessages(p) /\ q[k].id \in 1..p
<1>1. Len(q) \in Nat /\ \A k \in 1..Len(q) : q[k] \in McapMessages(p)
  OBVIOUS
<1>2. \A m \in McapMessages(p) : m.id \in 1..p
  BY DEF McapMessages
<1> QED
  BY <1>1, <1>2

LEMMA McapLater ==
  ASSUME NEW p \in Nat
  PROVE  \A q \in Seq(McapMessages(p)) : q \in Seq(McapMessages(p + 1))
<1>1. McapMessages(p) \subseteq McapMessages(p + 1)
  BY DEF McapMessages
<1> HIDE DEF McapMessages
<1> SUFFICES ASSUME NEW q \in Seq(McapMessages(p)) PROVE q \in Seq(McapMessages(p + 1))
  OBVIOUS
<1> QED
  BY <1>1

(* Files that are renamed without changing their order, or are removed.    *)
LEMMA RenamedSound ==
  ASSUME NEW p \in Nat, NEW c, Sound(c, p), NEW e, NEW r,
         DOMAIN e \subseteq Mcap!Indexes,
         \A i \in DOMAIN e : r[i] \in DOMAIN c /\ e[i] = c[r[i]],
         \A i, j \in DOMAIN e : i > j => r[i] > r[j]
  PROVE  Sound(e, p)
<1>1. AreContents(e, p)
  BY DEF Sound, AreContents
<1>2. Published(e)
  <2> SUFFICES ASSUME NEW i \in DOMAIN e, NEW j \in DOMAIN e,
                      NEW k \in 1..Len(e[i]), NEW l \in 1..Len(e[j]), i > j \/ (i = j /\ k < l)
               PROVE  e[i][k].id < e[j][l].id
    BY DEF Published
  <2>1. r[i] \in DOMAIN c /\ r[j] \in DOMAIN c /\ e[i] = c[r[i]] /\ e[j] = c[r[j]]
    OBVIOUS
  <2>2. r[i] > r[j] \/ (r[i] = r[j] /\ k < l)
    OBVIOUS
  <2> QED
    BY <2>1, <2>2 DEF Sound, Published
<1>3. \A i \in DOMAIN e : Small(e[i])
  BY DEF Sound
<1> QED
  BY <1>1, <1>2, <1>3 DEF Sound

(* File 0 is made empty, or there is an empty one now.                     *)
LEMMA EmptiedSound ==
  ASSUME NEW p \in Nat, NEW c, Sound(c, p), NEW e,
         DOMAIN e = DOMAIN c \union {0}, e[0] = <<>>,
         \A i \in DOMAIN e : i # 0 => e[i] = c[i]
  PROVE  /\ Sound(e, p)
         /\ 0 \notin DOMAIN c /\ Newest(c, p) => Newest(e, p)
<1>1. <<>> \in Seq(McapMessages(p)) /\ Len(<<>>) = 0 /\ Mcap!Size(<<>>) = 0
  <2>1. <<>> \in Seq(McapMessages(p)) /\ Len(<<>>) = 0
    OBVIOUS
  <2> QED
    BY <2>1, McapSizes
<1>2. AreContents(e, p)
  <2>1. 0 \in Mcap!Indexes
    BY McapConstants DEF Mcap!Indexes
  <2> QED
    BY <1>1, <2>1 DEF Sound, AreContents
<1>3. \A i \in DOMAIN e : \A k \in 1..Len(e[i]) : i # 0 /\ i \in DOMAIN c /\ e[i] = c[i]
  BY <1>1
<1>4. Published(e)
  <2> SUFFICES ASSUME NEW i \in DOMAIN e, NEW j \in DOMAIN e,
                      NEW k \in 1..Len(e[i]), NEW l \in 1..Len(e[j]), i > j \/ (i = j /\ k < l)
               PROVE  e[i][k].id < e[j][l].id
    BY DEF Published
  <2> QED
    BY <1>3 DEF Sound, Published
<1>5. \A i \in DOMAIN e : Small(e[i])
  BY <1>1, McapConstants DEF Sound, Small
<1>6. ASSUME 0 \notin DOMAIN c, Newest(c, p) PROVE Newest(e, p)
  <2>1. \A x : HasId(e, x) <=> HasId(c, x)
    <3>1. \A i \in DOMAIN c : i \in DOMAIN e /\ e[i] = c[i]
      BY <1>6
    <3> QED
      BY <1>3, <3>1 DEF HasId
  <2> QED
    BY <1>6, <2>1 DEF Newest
<1> QED
  BY <1>2, <1>4, <1>5, <1>6 DEF Sound

(* The end of file 0 is lost.                                              *)
LEMMA CutSound ==
  ASSUME NEW p \in Nat, NEW c, Sound(c, p), NEW e, NEW a \in Seq(McapMessages(p)),
         NEW b \in Seq(McapMessages(p)), 0 \in DOMAIN c, c[0] = a \o b,
         DOMAIN e = DOMAIN c, e[0] = a, \A i \in DOMAIN e : i # 0 => e[i] = c[i]
  PROVE  /\ Sound(e, p) /\ Mcap!Size(a) <= Mcap!Size(c[0])
<1>1. AreContents(e, p)
  BY DEF Sound, AreContents
<1>2. Len(a) \in Nat /\ Len(b) \in Nat /\ Len(a \o b) = Len(a) + Len(b)
      /\ \A k \in 1..Len(a) : k \in 1..Len(a \o b) /\ (a \o b)[k] = a[k]
  OBVIOUS
<1>3. \A i \in DOMAIN e : \A k \in 1..Len(e[i]) : k \in 1..Len(c[i]) /\ e[i][k] = c[i][k]
  BY <1>2
<1>4. Published(e)
  <2> SUFFICES ASSUME NEW i \in DOMAIN e, NEW j \in DOMAIN e,
                      NEW k \in 1..Len(e[i]), NEW l \in 1..Len(e[j]), i > j \/ (i = j /\ k < l)
               PROVE  e[i][k].id < e[j][l].id
    BY DEF Published
  <2>1. k \in 1..Len(c[i]) /\ l \in 1..Len(c[j]) /\ e[i][k] = c[i][k] /\ e[j][l] = c[j][l]
    BY <1>3
  <2> QED
    BY <2>1 DEF Sound, Published
<1>5. Mcap!Size(a) <= Mcap!Size(a \o b) /\ Mcap!Size(a) \in Nat /\ Mcap!Size(a \o b) \in Nat
  <2>1. a \o b \in Seq(McapMessages(p))
    OBVIOUS
  <2> QED
    BY <2>1, McapSizes
<1>6. Small(a)
  <2>1. Small(a \o b)
    BY DEF Sound
  <2>2. CASE Mcap!Size(a \o b) <= _max_file_size
    BY <1>5, <2>2, McapConstants DEF Small
  <2>3. CASE Len(a \o b) = 1
    <3>1. Len(a) = 1 \/ Len(a) = 0
      <4>1. \A x, y \in Nat : x + y = 1 => x = 1 \/ x = 0
        OBVIOUS
      <4>2. Len(a) + Len(b) = 1
        BY <1>2, <2>3
      <4> QED
        BY <1>2, <4>1, <4>2
    <3>2. Len(a) = 0 => a = <<>>
      OBVIOUS
    <3>3. Mcap!Size(<<>>) = 0
      BY McapSizes
    <3> QED
      BY <3>1, <3>2, <3>3, McapConstants DEF Small
  <2> QED
    BY <2>1, <2>2, <2>3 DEF Small
<1>7. \A i \in DOMAIN e : Small(e[i])
  BY <1>6 DEF Sound
<1> QED
  BY <1>1, <1>4, <1>5, <1>7 DEF Sound

(* The next message comes at the end of file 0.                            *)
LEMMA AppendedSound ==
  ASSUME NEW p \in Nat, NEW c, Sound(c, p), NEW e, NEW m \in McapMessages(p + 1), m.id = p + 1,
         0 \in DOMAIN c, DOMAIN e = DOMAIN c, e[0] = Append(c[0], m),
         \A i \in DOMAIN e : i # 0 => e[i] = c[i],
         c[0] = <<>> \/ Mcap!Size(c[0]) + m.size <= _max_file_size
  PROVE  /\ Sound(e, p + 1) /\ Mcap!Size(e[0]) = Mcap!Size(c[0]) + m.size
         /\ Newest(c, p) => Newest(e, p + 1)
<1>0. c[0] \in Seq(McapMessages(p)) /\ p + 1 \in Nat
  BY DEF Sound, AreContents
<1>1. c[0] \in Seq(McapMessages(p + 1))
  BY <1>0, McapLater
<1>2. /\ Append(c[0], m) \in Seq(McapMessages(p + 1)) /\ Len(c[0]) \in Nat
      /\ Len(Append(c[0], m)) = Len(c[0]) + 1 /\ Append(c[0], m)[Len(c[0]) + 1] = m
      /\ \A k \in 1..Len(c[0]) : Append(c[0], m)[k] = c[0][k]
  BY <1>1
<1>3. AreContents(e, p + 1)
  BY <1>2, McapLater DEF Sound, AreContents
<1>4. \A i \in DOMAIN e : \A k \in 1..Len(e[i]) :
        \/ i = 0 /\ k = Len(c[0]) + 1 /\ e[i][k].id = p + 1
        \/ k \in 1..Len(c[i]) /\ e[i][k] = c[i][k]
  BY <1>2
<1>5. \A i \in DOMAIN c : \A k \in 1..Len(c[i]) : c[i][k].id \in 1..p /\ k <= Len(c[i])
  BY McapMessage DEF Sound, AreContents
<1>6. Published(e)
  <2> SUFFICES ASSUME NEW i \in DOMAIN e, NEW j \in DOMAIN e,
                      NEW k \in 1..Len(e[i]), NEW l \in 1..Len(e[j]), i > j \/ (i = j /\ k < l)
               PROVE  e[i][k].id < e[j][l].id
    BY DEF Published
  <2>0. i \in Nat /\ j \in Nat
    BY <1>3 DEF AreContents, Mcap!Indexes
  <2>1. CASE k \in 1..Len(c[i]) /\ e[i][k] = c[i][k]
    <3>1. CASE l \in 1..Len(c[j]) /\ e[j][l] = c[j][l]
      BY <2>1, <3>1 DEF Sound, Published
    <3>2. CASE e[j][l].id = p + 1
      BY <1>5, <2>1, <3>2
    <3> QED
      BY <1>4, <3>1, <3>2
  <2>2. CASE i = 0 /\ k = Len(c[0]) + 1
    <3>1. j = 0 /\ l > Len(c[0]) + 1
      BY <1>2, <2>0, <2>2
    <3> QED
      BY <1>2, <3>1
  <2> QED
    BY <1>4, <2>1, <2>2
<1>7. Mcap!Size(e[0]) = Mcap!Size(c[0]) + m.size
  BY <1>0, <1>1, McapSizes
<1>8. Small(e[0])
  <2>1. CASE c[0] = <<>>
    <3>1. Len(e[0]) = 1
      BY <1>2, <2>1
    <3> QED
      BY <3>1 DEF Small
  <2> QED
    BY <1>7, <2>1 DEF Small
<1>9. \A i \in DOMAIN e : Small(e[i])
  BY <1>8 DEF Sound
<1>10. ASSUME Newest(c, p) PROVE Newest(e, p + 1)
  <2>1. PICK n \in 1..(p + 1) : /\ \A x : HasId(c, x) <=> x \in n..p
                                /\ n > 1 => _max_file_count \in DOMAIN c
    BY <1>10 DEF Newest
  <2>2. n \in 1..((p + 1) + 1)
    OBVIOUS
  <2>3. \A x : HasId(e, x) <=> HasId(c, x) \/ x = p + 1
    <3>1. ASSUME NEW x, HasId(e, x) PROVE HasId(c, x) \/ x = p + 1
      BY <1>4, <3>1 DEF HasId
    <3>2. HasId(e, p + 1)
      <4>1. 0 \in DOMAIN e /\ Len(c[0]) + 1 \in 1..Len(e[0])
        BY <1>2
      <4>2. e[0][Len(c[0]) + 1].id = p + 1
        BY <1>2
      <4> QED
        BY <4>1, <4>2 DEF HasId
    <3>3. ASSUME NEW x, HasId(c, x) PROVE HasId(e, x)
      <4>1. PICK i \in DOMAIN c : \E k \in 1..Len(c[i]) : c[i][k].id = x
        BY <3>3 DEF HasId
      <4>2. PICK k \in 1..Len(c[i]) : c[i][k].id = x
        BY <4>1
      <4>3. i \in DOMAIN e /\ k \in 1..Len(e[i]) /\ e[i][k] = c[i][k]
        BY <1>2
      <4> QED
        BY <4>2, <4>3 DEF HasId
    <3> QED
      BY <3>1, <3>2, <3>3
  <2>4. \A x : x \in n..(p + 1) <=> x \in n..p \/ x = p + 1
    OBVIOUS
  <2>5. \A x : HasId(e, x) <=> x \in n..(p + 1)
    BY <2>1, <2>3, <2>4
  <2> QED
    BY <2>1, <2>2, <2>5 DEF Newest
<1> QED
  BY <1>3, <1>6, <1>7, <1>9, <1>10 DEF Sound

-----------------------------------------------------------------------------
(* The renaming of the files.                                              *)

Source(c, n, i) == IF i > n /\ i - 1 \in DOMAIN c THEN i - 1 ELSE i

LEMMA RenamedIs ==
  ASSUME NEW c, DOMAIN c \subseteq Mcap!Indexes, NEW n \in Nat
  PROVE  /\ DOMAIN Mcap!Renamed(c, n) \subseteq Mcap!Indexes
         /\ \A i \in DOMAIN Mcap!Renamed(c, n) :
              Source(c, n, i) \in DOMAIN c /\ Mcap!Renamed(c, n)[i] = c[Source(c, n, i)]
         /\ \A i, j \in DOMAIN Mcap!Renamed(c, n) : i > j => Source(c, n, i) > Source(c, n, j)
         /\ \A i \in Mcap!Indexes :
              /\ i > n /\ i - 1 \in DOMAIN c => i \in DOMAIN Mcap!Renamed(c, n)
              /\ i = _max_file_count /\ i \in DOMAIN c => i \in DOMAIN Mcap!Renamed(c, n)
         /\ \A i \in DOMAIN Mcap!Renamed(c, n) :
              i < n \/ i = _max_file_count \/ (i > n /\ i - 1 \in DOMAIN c)
<1> DEFINE e == Mcap!Renamed(c, n)
           moved(i) == i > n /\ i - 1 \in DOMAIN c
           D == {j \in Mcap!Indexes : moved(j) \/ (j \in DOMAIN c /\ (j < n \/ j = _max_file_count))}
<1>1. e = [i \in D |-> IF moved(i) THEN c[i - 1] ELSE c[i]]
  BY DEF Mcap!Renamed, Mcap!Exists
<1>2. DOMAIN e = D /\ \A i \in D : e[i] = IF moved(i) THEN c[i - 1] ELSE c[i]
  BY <1>1
<1> HIDE DEF e
<1>3. DOMAIN c \subseteq Nat /\ \A i \in DOMAIN c : i <= _max_file_count
  BY McapConstants DEF Mcap!Indexes
<1>4. \A i \in D : i \in Nat
  BY DEF Mcap!Indexes
<1>5. ASSUME NEW i \in DOMAIN e, NEW j \in DOMAIN e, i > j PROVE Source(c, n, i) > Source(c, n, j)
  <2>1. i \in Nat /\ j \in Nat /\ i \in D /\ j \in D
    BY <1>2, <1>4
  <2>2. CASE moved(i) /\ ~moved(j)
    <3>1. Source(c, n, i) = i - 1 /\ Source(c, n, j) = j
      BY <2>2 DEF Source
    <3>2. i - 1 # j
      BY <1>3, <2>1, <2>2, <1>5, McapConstants DEF Mcap!Indexes
    <3> QED
      BY <1>5, <2>1, <3>1, <3>2
  <2> QED
    BY <1>5, <2>1, <2>2 DEF Source
<1>6. \A i \in DOMAIN e : Source(c, n, i) \in DOMAIN c /\ e[i] = c[Source(c, n, i)]
  BY <1>2 DEF Source
<1>7. DOMAIN e \subseteq Mcap!Indexes
  BY <1>2
<1>8. \A i \in Mcap!Indexes :
        /\ i > n /\ i - 1 \in DOMAIN c => i \in DOMAIN e
        /\ i = _max_file_count /\ i \in DOMAIN c => i \in DOMAIN e
  BY <1>2
<1>9. \A i \in DOMAIN e : i < n \/ i = _max_file_count \/ (i > n /\ i - 1 \in DOMAIN c)
  BY <1>2
<1> QED
  BY <1>5, <1>6, <1>7, <1>8, <1>9 DEF e

LEMMA FilesRenamed ==
  ASSUME NEW p \in Nat, NEW c, Sound(c, p), NEW n \in Nat
  PROVE  Sound(Mcap!Renamed(c, n), p)
<1> DEFINE e == Mcap!Renamed(c, n)
           r == [i \in DOMAIN e |-> Source(c, n, i)]
<1>1. DOMAIN c \subseteq Mcap!Indexes
  BY DEF Sound, AreContents
<1>2. DOMAIN e \subseteq Mcap!Indexes
  BY <1>1, RenamedIs
<1>3. \A i \in DOMAIN e : r[i] \in DOMAIN c /\ e[i] = c[r[i]]
  BY <1>1, RenamedIs
<1>4. \A i, j \in DOMAIN e : i > j => r[i] > r[j]
  BY <1>1, RenamedIs
<1> HIDE DEF e, r
<1> QED
  BY <1>2, <1>3, <1>4, RenamedSound DEF e

(* A file that could not be renamed: the one it should have become is      *)
(* there or not.                                                           *)
LEMMA RenamingFailed ==
  ASSUME NEW p \in Nat, NEW c, Sound(c, p), NEW n, NEW e \in Mcap!rename_file(c, n)
  PROVE  Sound(e, p)
<1>1. CASE e = c
  BY <1>1
<1>2. CASE e = [i \in DOMAIN c \ {n} |-> c[i]]
  <2> DEFINE r == [i \in DOMAIN e |-> i]
  <2>1. DOMAIN c \subseteq Mcap!Indexes
    BY DEF Sound, AreContents
  <2>2. DOMAIN e = DOMAIN c \ {n} /\ \A i \in DOMAIN e : e[i] = c[i]
    BY <1>2
  <2>3. \A i \in DOMAIN e : r[i] \in DOMAIN c /\ e[i] = c[r[i]]
    BY <2>2
  <2>4. \A i, j \in DOMAIN e : i > j => r[i] > r[j]
    OBVIOUS
  <2> HIDE DEF r
  <2> QED
    BY <2>1, <2>2, <2>3, <2>4, RenamedSound
<1> QED
  BY <1>1, <1>2 DEF Mcap!rename_file

(* When all files are renamed only the oldest one is lost.                 *)
LEMMA RotatedNewest ==
  ASSUME NEW p \in Nat, NEW c, Sound(c, p)
  PROVE  /\ 0 \notin DOMAIN Mcap!Renamed(c, 0)
         /\ Newest(c, p) => Newest(Mcap!Renamed(c, 0), p)
<1> DEFINE e == Mcap!Renamed(c, 0)
           max == _max_file_count
<1>1. DOMAIN c \subseteq Mcap!Indexes /\ DOMAIN c \subseteq Nat /\ \A i \in DOMAIN c : i <= max
  BY McapConstants DEF Sound, AreContents, Mcap!Indexes
<1>2. /\ DOMAIN e \subseteq Mcap!Indexes
      /\ \A i \in DOMAIN e : Source(c, 0, i) \in DOMAIN c /\ e[i] = c[Source(c, 0, i)]
      /\ \A i \in DOMAIN e : i < 0 \/ i = max \/ (i > 0 /\ i - 1 \in DOMAIN c)
  BY <1>1, RenamedIs
<1>3. \A i \in Mcap!Indexes :
        (i > 0 /\ i - 1 \in DOMAIN c => i \in DOMAIN e) /\ (i = max /\ i \in DOMAIN c => i \in DOMAIN e)
  BY <1>1, RenamedIs
<1>4. max \in Nat /\ max > 0 /\ max \in Mcap!Indexes
  BY McapConstants DEF Mcap!Indexes
<1> HIDE DEF e, max
<1>5. 0 \notin DOMAIN e
  BY <1>2, <1>4
<1>6. ASSUME NEW j \in DOMAIN c, j < max PROVE j + 1 \in DOMAIN e /\ e[j + 1] = c[j]
  <2>1. j + 1 \in Mcap!Indexes /\ j + 1 > 0 /\ (j + 1) - 1 = j
    BY <1>1, <1>4, <1>6 DEF Mcap!Indexes, max
  <2>2. j + 1 \in DOMAIN e
    BY <1>3, <2>1
  <2> QED
    BY <1>2, <2>1, <2>2 DEF Source
<1>7. ASSUME NEW x, HasId(e, x) PROVE HasId(c, x)
  BY <1>2, <1>7 DEF HasId
<1>8. ASSUME Newest(c, p) PROVE Newest(e, p)
  <2>1. PICK n \in 1..(p + 1) : (\A x : HasId(c, x) <=> x \in n..p) /\ (n > 1 => max \in DOMAIN c)
    BY <1>8 DEF Newest, max
  <2>2. n > 1 => max \in DOMAIN e
    BY <1>3, <1>4, <2>1
  <2> DEFINE lost == max - 1 \in DOMAIN c /\ max \in DOMAIN c /\ c[max] # <<>>
  <2>3. CASE ~lost
    <3>1. ASSUME NEW x, HasId(c, x) PROVE HasId(e, x)
      <4>1. PICK j \in DOMAIN c : \E k \in 1..Len(c[j]) : c[j][k].id = x
        BY <3>1 DEF HasId
      <4>2. CASE j < max
        BY <1>6, <4>1, <4>2 DEF HasId
      <4>3. CASE j = max
        <5>1. c[max] # <<>>
          BY <4>1, <4>3
        <5>2. max - 1 \notin DOMAIN c /\ max \in DOMAIN e
          BY <1>3, <1>4, <2>3, <4>3, <5>1
        <5>3. e[max] = c[max]
          BY <1>2, <5>2 DEF Source
        <5> QED
          BY <4>1, <4>3, <5>2, <5>3 DEF HasId
      <4> QED
        BY <1>1, <1>4, <4>2, <4>3
    <3>2. \A x : HasId(e, x) <=> x \in n..p
      BY <1>7, <2>1, <3>1
    <3> QED
      BY <2>1, <2>2, <3>2 DEF Newest, max
  <2>4. CASE lost
    <3> DEFINE q == c[max]
               last == q[Len(q)].id
    <3>1. max - 1 \in DOMAIN c /\ max \in DOMAIN c /\ q # <<>>
      BY <2>4
    <3>2. q \in Seq(McapMessages(p))
      BY <3>1 DEF Sound, AreContents
    <3>3. Len(q) \in Nat /\ Len(q) > 0
      BY <3>1, <3>2
    <3>4. Len(q) \in 1..Len(q) /\ last \in 1..p
      BY <3>2, <3>3, McapMessage
    <3>5. HasId(c, last)
      BY <3>1, <3>4 DEF HasId
    <3>6. last \in n..p
      BY <2>1, <3>5
    <3>7. \A k \in 1..Len(q) : q[k].id <= last
      <4> SUFFICES ASSUME NEW k \in 1..Len(q) PROVE q[k].id <= last
        OBVIOUS
      <4>1. q[k].id \in 1..p
        BY <3>2, McapMessage
      <4>2. CASE k < Len(q)
        <5>1. q[k].id < last
          BY <3>1, <3>4, <4>2 DEF Sound, Published
        <5> QED
          BY <3>4, <4>1, <5>1
      <4>3. CASE k = Len(q)
        BY <3>4, <4>3
      <4> QED
        BY <3>3, <4>2, <4>3
    <3>8. \A j \in DOMAIN c : \A k \in 1..Len(c[j]) : j < max => last < c[j][k].id
      BY <1>1, <1>4, <3>1, <3>4 DEF Sound, Published
    <3> HIDE DEF last, lost
    <3>9. ASSUME NEW x, HasId(e, x) PROVE x \in (last + 1)..p
      <4>1. PICK i \in DOMAIN e : \E k \in 1..Len(e[i]) : e[i][k].id = x
        BY <3>9 DEF HasId
      <4>2. i \in Nat /\ i > 0 /\ i - 1 \in DOMAIN c /\ i - 1 < max
        BY <1>2, <1>4, <3>1, <4>1 DEF Mcap!Indexes, max
      <4>3. e[i] = c[i - 1]
        BY <1>2, <4>1, <4>2 DEF Source
      <4>4. last < x
        BY <3>8, <4>1, <4>2, <4>3
      <4>5. x \in n..p
        BY <1>7, <2>1, <3>9
      <4> QED
        BY <3>4, <4>4, <4>5
    <3>10. ASSUME NEW x, x \in (last + 1)..p PROVE HasId(e, x)
      <4>1. x \in n..p /\ x \in Nat /\ last < x
        BY <2>1, <3>4, <3>6, <3>10
      <4>2. HasId(c, x)
        BY <2>1, <4>1
      <4>3. PICK j \in DOMAIN c : \E k \in 1..Len(c[j]) : c[j][k].id = x
        BY <4>2 DEF HasId
      <4>4. j # max
        BY <3>4, <3>7, <4>1, <4>3
      <4>5. j < max
        BY <1>1, <1>4, <4>4
      <4> QED
        BY <1>6, <4>3, <4>5 DEF HasId
    <3>11. last + 1 \in 1..(p + 1) /\ max \in DOMAIN e
      BY <1>3, <1>4, <3>1, <3>4
    <3>12. \A x : HasId(e, x) <=> x \in (last + 1)..p
      BY <3>9, <3>10
    <3> QED
      BY <3>11, <3>12 DEF Newest, max
  <2> QED
    BY <2>3, <2>4
<1> QED
  BY <1>5, <1>8 DEF e

-----------------------------------------------------------------------------
(* What the steps of the sink and of the rotator do to the files.          *)

McapContents(d) ==
  [i \in DOMAIN d.files |-> IF i = 0 THEN d.files[0] \o d.chunk ELSE d.files[i]]

IsDisk(d, p) ==
  /\ DOMAIN d.files \subseteq Mcap!Indexes
  /\ \A i \in DOMAIN d.files : d.files[i] \in Seq(McapMessages(p))
  /\ d.chunk \in Seq(McapMessages(p))
  /\ d.is_open \in BOOLEAN /\ (d.is_open => 0 \in DOMAIN d.files)
  /\ d.chunk # <<>> => d.is_open
  /\ d.bad \in Nat

(* ok: nothing has failed before the step.                                 *)
McapKept(d, p, ok) ==
  /\ IsDisk(d, p) /\ Sound(McapContents(d), p)
  /\ ok /\ d.bad = 0 => Newest(McapContents(d), p)

LEMMA ContentsAre ==
  ASSUME NEW d
  PROVE  /\ DOMAIN McapContents(d) = DOMAIN d.files
         /\ \A i \in DOMAIN d.files : i # 0 => McapContents(d)[i] = d.files[i]
         /\ 0 \in DOMAIN d.files => McapContents(d)[0] = d.files[0] \o d.chunk
BY DEF McapContents

LEMMA NothingWaits ==
  ASSUME NEW p \in Nat, NEW d, IsDisk(d, p), d.chunk = <<>>
  PROVE  \A i \in DOMAIN d.files : McapContents(d)[i] = d.files[i]
<1> SUFFICES ASSUME NEW i \in DOMAIN d.files PROVE McapContents(d)[i] = d.files[i]
  OBVIOUS
<1>1. d.files[i] \in Seq(McapMessages(p))
  BY DEF IsDisk
<1>2. d.files[i] \o <<>> = d.files[i]
  BY <1>1
<1> QED
  BY <1>2, ContentsAre

(* The chunk is lost.                                                      *)
LEMMA ChunkLost ==
  ASSUME NEW p \in Nat, NEW d, IsDisk(d, p), Sound(McapContents(d), p),
         NEW e, IsDisk(e, p), e.files = d.files, e.chunk = <<>>
  PROVE  /\ Sound(McapContents(e), p)
         /\ 0 \in DOMAIN d.files => Mcap!Size(McapContents(e)[0]) <= Mcap!Size(McapContents(d)[0])
<1> DEFINE c == McapContents(d)
           f == McapContents(e)
<1>1. DOMAIN f = DOMAIN c /\ DOMAIN c = DOMAIN d.files
  BY ContentsAre
<1>2. \A i \in DOMAIN f : f[i] = d.files[i] /\ (i # 0 => f[i] = c[i])
  <2>1. \A i \in DOMAIN e.files : f[i] = e.files[i]
    BY NothingWaits
  <2>2. \A i \in DOMAIN e.files : i # 0 => f[i] = e.files[i] /\ c[i] = d.files[i]
    BY ContentsAre
  <2> HIDE DEF f, c
  <2> QED
    BY <1>1, <2>1, <2>2
<1>3. CASE 0 \in DOMAIN d.files
  <2>1. /\ d.files[0] \in Seq(McapMessages(p)) /\ d.chunk \in Seq(McapMessages(p))
        /\ c[0] = d.files[0] \o d.chunk /\ f[0] = d.files[0]
    BY <1>1, <1>2, <1>3, ContentsAre DEF IsDisk
  <2> HIDE DEF c, f
  <2>2. Sound(c, p)
    BY DEF c
  <2>3. Sound(f, p) /\ Mcap!Size(d.files[0]) <= Mcap!Size(c[0])
    BY <1>1, <1>2, <1>3, <2>1, <2>2, CutSound
  <2> QED
    BY <2>1, <2>3 DEF c, f
<1>4. CASE 0 \notin DOMAIN d.files
  <2>1. f = c
    BY <1>1, <1>2, <1>4 DEF McapContents
  <2> QED
    BY <1>4, <2>1
<1> QED
  BY <1>3, <1>4

LEMMA ChunkParts ==
  ASSUME NEW T, NEW q \in Seq(T), NEW c \in Seq(T), NEW n \in 0..Len(c)
  PROVE  /\ q \o SubSeq(c, 1, n) \in Seq(T) /\ SubSeq(c, n + 1, Len(c)) \in Seq(T)
         /\ (q \o SubSeq(c, 1, n)) \o SubSeq(c, n + 1, Len(c)) = q \o c
         /\ n = Len(c) => q \o SubSeq(c, 1, n) = q \o c
<1> DEFINE x == SubSeq(c, 1, n)
           y == SubSeq(c, n + 1, Len(c))
<1>0. x \in Seq(T) /\ y \in Seq(T)
  BY SeqCut
<1>1. x \in Seq(T) /\ y \in Seq(T) /\ x \o y = c
  BY SeqCut
<1>2. n = Len(c) => x = c
  <2> SUFFICES ASSUME n = Len(c) PROVE x = c
    OBVIOUS
  <2>1. Len(x) = Len(c) /\ \A i \in 1..Len(c) : x[i] = c[i]
    BY SeqCut
  <2> QED
    BY <1>1, <2>1, SeqEqual
<1> HIDE DEF x, y
<1>3. q \o x \in Seq(T)
  BY <1>1, SeqConcat
<1>4. (q \o x) \o y = q \o (x \o y)
  BY <1>0
<1> QED
  BY <1>1, <1>2, <1>3, <1>4 DEF x, y

LEMMA SameContents ==
  ASSUME NEW p \in Nat, NEW c, NEW e, DOMAIN c = DOMAIN e, \A i \in DOMAIN c : c[i] = e[i]
  PROVE  (Sound(c, p) <=> Sound(e, p)) /\ (Newest(c, p) <=> Newest(e, p))
<1>1. AreContents(c, p) <=> AreContents(e, p)
  BY DEF AreContents
<1>2. Published(c) <=> Published(e)
  BY DEF Published
<1>3. (\A i \in DOMAIN c : Small(c[i])) <=> (\A i \in DOMAIN e : Small(e[i]))
  OBVIOUS
<1>4. \A x : HasId(c, x) <=> HasId(e, x)
  BY DEF HasId
<1>5. Newest(c, p) <=> Newest(e, p)
  BY <1>4 DEF Newest
<1> QED
  BY <1>1, <1>2, <1>3, <1>5 DEF Sound

(* The chunk is lost but for its first messages.                           *)
LEMMA ChunkCut ==
  ASSUME NEW p \in Nat, NEW d, IsDisk(d, p), Sound(McapContents(d), p), 0 \in DOMAIN d.files,
         NEW n \in 0..Len(d.chunk), NEW e, IsDisk(e, p), e.chunk = <<>>,
         DOMAIN e.files = DOMAIN d.files, e.files[0] = d.files[0] \o SubSeq(d.chunk, 1, n),
         \A i \in DOMAIN d.files : i # 0 => e.files[i] = d.files[i]
  PROVE  /\ Sound(McapContents(e), p)
         /\ Mcap!Size(McapContents(e)[0]) <= Mcap!Size(McapContents(d)[0])
<1> DEFINE c == McapContents(d)
           f == McapContents(e)
           a == d.files[0] \o SubSeq(d.chunk, 1, n)
           b == SubSeq(d.chunk, n + 1, Len(d.chunk))
<1>1. DOMAIN f = DOMAIN c /\ DOMAIN c = DOMAIN d.files
  BY ContentsAre
<1>2. \A i \in DOMAIN f : f[i] = e.files[i] /\ (i # 0 => f[i] = c[i])
  <2>1. \A i \in DOMAIN e.files : f[i] = e.files[i]
    BY NothingWaits
  <2>2. \A i \in DOMAIN d.files : i # 0 => c[i] = d.files[i]
    BY ContentsAre
  <2> HIDE DEF f, c
  <2> QED
    BY <1>1, <2>1, <2>2
<1>3. a \in Seq(McapMessages(p)) /\ b \in Seq(McapMessages(p)) /\ a \o b = d.files[0] \o d.chunk
  <2>1. d.files[0] \in Seq(McapMessages(p)) /\ d.chunk \in Seq(McapMessages(p))
    BY DEF IsDisk
  <2> QED
    BY <2>1, ChunkParts
<1>4. c[0] = a \o b /\ f[0] = a
  BY <1>1, <1>2, <1>3, ContentsAre
<1>5. Sound(c, p)
  OBVIOUS
<1> HIDE DEF c, f, a, b
<1>6. Sound(f, p) /\ Mcap!Size(a) <= Mcap!Size(c[0])
  BY <1>1, <1>2, <1>3, <1>4, <1>5, CutSound
<1> QED
  BY <1>4, <1>6 DEF c, f

(* The chunk is written or a part of it is.                                *)
LEMMA WriteKept ==
  ASSUME NEW p \in Nat, NEW ok, NEW d, McapKept(d, p, ok), d.is_open, NEW e \in Mcap!HandleWrite(d)
  PROVE  /\ McapKept(e, p, ok) /\ e.is_open /\ e.chunk = <<>> /\ e.bad \in {d.bad, d.bad + 1}
         /\ Mcap!Size(McapContents(e)[0]) <= Mcap!Size(McapContents(d)[0])
<1>0. /\ IsDisk(d, p) /\ 0 \in DOMAIN d.files /\ d.bad \in Nat /\ d.is_open = TRUE
      /\ d.files[0] \in Seq(McapMessages(p)) /\ d.chunk \in Seq(McapMessages(p))
      /\ DOMAIN d.files \subseteq Mcap!Indexes
      /\ \A i \in DOMAIN d.files : d.files[i] \in Seq(McapMessages(p))
  BY DEF McapKept, IsDisk
<1>1. PICK n \in 0..Len(d.chunk), errors \in {0, 1} :
        e = Mcap!Written(d, n, errors) /\ (errors = 0 => n = Len(d.chunk))
  <2>1. Len(d.chunk) \in 0..Len(d.chunk)
    BY <1>0
  <2> QED
    BY <2>1 DEF Mcap!HandleWrite
<1> DEFINE a == d.files[0] \o SubSeq(d.chunk, 1, n)
<1>2. /\ e.files = Mcap!File0(d.files, a) /\ e.is_open = TRUE
      /\ e.chunk = <<>> /\ e.bad = d.bad + errors
  BY <1>0, <1>1 DEF Mcap!Disk, Mcap!Written
<1>3. a \in Seq(McapMessages(p)) /\ (n = Len(d.chunk) => a = d.files[0] \o d.chunk)
  <2> DEFINE q == d.files[0]
             m == d.chunk
  <2>1. q \in Seq(McapMessages(p)) /\ m \in Seq(McapMessages(p)) /\ n \in 0..Len(m)
    BY <1>0
  <2> HIDE DEF q, m
  <2>2. /\ q \o SubSeq(m, 1, n) \in Seq(McapMessages(p))
        /\ n = Len(m) => q \o SubSeq(m, 1, n) = q \o m
    BY ONLY <2>1, ChunkParts
  <2> QED
    BY <2>2 DEF q, m
<1>4. /\ DOMAIN e.files = DOMAIN d.files /\ e.files[0] = a
      /\ \A i \in DOMAIN d.files : i # 0 => e.files[i] = d.files[i]
  BY <1>0, <1>2 DEF Mcap!File0
<1> HIDE DEF a
<1>5. IsDisk(e, p)
  <2>1. <<>> \in Seq(McapMessages(p))
    OBVIOUS
  <2>2. e.bad \in Nat
    BY <1>0, <1>2
  <2>3. e.is_open \in BOOLEAN /\ (e.is_open => 0 \in DOMAIN e.files) /\ (e.chunk # <<>> => e.is_open)
    BY <1>0, <1>2, <1>4, Zenon
  <2>4. \A i \in DOMAIN e.files : e.files[i] \in Seq(McapMessages(p))
    BY <1>0, <1>3, <1>4
  <2>5. DOMAIN e.files \subseteq Mcap!Indexes /\ e.chunk \in Seq(McapMessages(p))
    BY <1>0, <1>2, <1>4, <2>1
  <2> QED
    BY <2>2, <2>3, <2>4, <2>5 DEF IsDisk
<1>6. Sound(McapContents(d), p) /\ (ok /\ d.bad = 0 => Newest(McapContents(d), p))
  BY DEF McapKept
<1>7. /\ Sound(McapContents(e), p)
      /\ Mcap!Size(McapContents(e)[0]) <= Mcap!Size(McapContents(d)[0])
  BY <1>0, <1>2, <1>4, <1>5, <1>6, ChunkCut DEF a
<1>8. ASSUME ok, e.bad = 0 PROVE Newest(McapContents(e), p)
  <2>1. errors = 0 /\ d.bad = 0 /\ n = Len(d.chunk)
    BY <1>0, <1>1, <1>2, <1>8
  <2>2. \A i \in DOMAIN d.files : McapContents(e)[i] = McapContents(d)[i]
    <3> SUFFICES ASSUME NEW i \in DOMAIN d.files PROVE McapContents(e)[i] = McapContents(d)[i]
      OBVIOUS
    <3>1. McapContents(e)[i] = e.files[i]
      BY <1>2, <1>4, <1>5, NothingWaits
    <3> QED
      BY <1>3, <1>4, <2>1, <3>1, ContentsAre
  <2>3. DOMAIN McapContents(e) = DOMAIN McapContents(d) /\ DOMAIN McapContents(d) = DOMAIN d.files
    BY <1>4, ContentsAre
  <2>4. Newest(McapContents(e), p) <=> Newest(McapContents(d), p)
    <3> DEFINE c == McapContents(d)
               f == McapContents(e)
    <3>1. DOMAIN f = DOMAIN c /\ \A i \in DOMAIN f : f[i] = c[i]
      BY <2>2, <2>3
    <3> HIDE DEF c, f
    <3>2. Newest(f, p) <=> Newest(c, p)
      BY <3>1, SameContents
    <3> QED
      BY <3>2 DEF c, f
  <2> QED
    BY <1>6, <1>8, <2>1, <2>4
<1>9. e.bad \in {d.bad, d.bad + 1}
  BY <1>0, <1>2
<1> QED
  BY <1>2, <1>5, <1>7, <1>8, <1>9 DEF McapKept

(* A closed file.                                                          *)
LEMMA CloseKept ==
  ASSUME NEW p \in Nat, NEW ok, NEW d, McapKept(d, p, ok), NEW e \in Mcap!Close(d)
  PROVE  /\ McapKept(e, p, ok) /\ e.is_open = FALSE /\ e.chunk = <<>> /\ e.bad \in {d.bad, d.bad + 1}
<1>1. CASE d.is_open
  <2>1. PICK f \in Mcap!HandleWrite(d) : e = Mcap!Closed(f)
    BY <1>1 DEF Mcap!Close
  <2>2. McapKept(f, p, ok) /\ f.is_open /\ f.chunk = <<>> /\ f.bad \in {d.bad, d.bad + 1}
    BY <1>1, WriteKept
  <2>3. e.files = f.files /\ e.is_open = FALSE /\ e.chunk = f.chunk /\ e.bad = f.bad
    BY <2>1 DEF Mcap!Closed, Mcap!Disk
  <2>4. McapContents(e) = McapContents(f)
    BY <2>3 DEF McapContents
  <2>5. IsDisk(e, p)
    BY <2>2, <2>3 DEF McapKept, IsDisk
  <2> QED
    BY <2>2, <2>3, <2>4, <2>5 DEF McapKept
<1>2. CASE ~d.is_open
  <2>1. e = d /\ d.is_open = FALSE /\ d.chunk = <<>>
    BY <1>2 DEF Mcap!Close, McapKept, IsDisk
  <2> QED
    BY <2>1
<1> QED
  BY <1>1, <1>2

(* A new file 0, or none when it does not open.                            *)
LEMMA OpenedKept ==
  ASSUME NEW p \in Nat, NEW d, IsDisk(d, p), Sound(McapContents(d), p), NEW e \in Mcap!Opened(d)
  PROVE  /\ IsDisk(e, p) /\ Sound(McapContents(e), p)
         /\ \/ e.is_open /\ e.bad = d.bad /\ McapContents(e)[0] = <<>>
            \/ ~e.is_open /\ e.bad = d.bad + 1
         /\ e.is_open /\ 0 \notin DOMAIN d.files /\ Newest(McapContents(d), p) =>
              Newest(McapContents(e), p)
<1>e. <<>> \in Seq(McapMessages(p))
  OBVIOUS
<1>0. /\ DOMAIN d.files \subseteq Mcap!Indexes /\ 0 \in Mcap!Indexes /\ d.bad \in Nat
      /\ \A i \in DOMAIN d.files : d.files[i] \in Seq(McapMessages(p))
  BY McapConstants DEF IsDisk, Mcap!Indexes
<1>1. CASE e = Mcap!Disk(Mcap!File0(d.files, <<>>), TRUE, <<>>, d.bad)
  <2>1. e.files = Mcap!File0(d.files, <<>>) /\ e.is_open = TRUE /\ e.chunk = <<>> /\ e.bad = d.bad
    BY <1>1 DEF Mcap!Disk
  <2>2. /\ DOMAIN e.files = DOMAIN d.files \union {0} /\ e.files[0] = <<>>
        /\ \A i \in DOMAIN e.files : i # 0 => i \in DOMAIN d.files /\ e.files[i] = d.files[i]
    BY <2>1 DEF Mcap!File0
  <2>3. IsDisk(e, p)
    BY <1>0, <1>e, <2>1, <2>2 DEF IsDisk
  <2>4. /\ DOMAIN McapContents(e) = DOMAIN McapContents(d) \union {0} /\ McapContents(e)[0] = <<>>
        /\ \A i \in DOMAIN McapContents(e) : i # 0 => McapContents(e)[i] = McapContents(d)[i]
        /\ DOMAIN McapContents(d) = DOMAIN d.files
    BY <2>1, <2>2, <2>3, NothingWaits, ContentsAre
  <2>5. Sound(McapContents(e), p)
    BY <2>4, EmptiedSound
  <2>6. 0 \notin DOMAIN d.files /\ Newest(McapContents(d), p) => Newest(McapContents(e), p)
    BY <2>4, EmptiedSound
  <2> QED
    BY <2>1, <2>3, <2>4, <2>5, <2>6
<1>2. CASE e = Mcap!Disk(d.files, FALSE, <<>>, d.bad + 1)
  <2>1. e.files = d.files /\ e.is_open = FALSE /\ e.chunk = <<>> /\ e.bad = d.bad + 1
    BY <1>2 DEF Mcap!Disk
  <2>2. IsDisk(e, p)
    <3>1. e.bad \in Nat
      BY <1>0, <2>1
    <3>3. e.is_open \in BOOLEAN /\ (e.is_open => 0 \in DOMAIN e.files)
      BY <2>1, Zenon
    <3>2. /\ DOMAIN e.files \subseteq Mcap!Indexes
          /\ \A i \in DOMAIN e.files : e.files[i] \in Seq(McapMessages(p))
      BY <1>0, <2>1
    <3> QED
      BY <1>e, <2>1, <3>3, <3>1, <3>2 DEF IsDisk
  <2>3. Sound(McapContents(e), p)
    BY <2>1, <2>2, ChunkLost
  <2> QED
    BY <2>1, <2>2, <2>3
<1> QED
  BY <1>1, <1>2 DEF Mcap!Opened

LEMMA FilesOfClosed ==
  ASSUME NEW p \in Nat, NEW d, IsDisk(d, p), d.chunk = <<>>
  PROVE  /\ Sound(McapContents(d), p) <=> Sound(d.files, p)
         /\ Newest(McapContents(d), p) <=> Newest(d.files, p)
<1> DEFINE c == McapContents(d)
<1>1. DOMAIN c = DOMAIN d.files /\ \A i \in DOMAIN c : c[i] = d.files[i]
  BY NothingWaits, ContentsAre
<1> HIDE DEF c
<1>2. (Sound(c, p) <=> Sound(d.files, p)) /\ (Newest(c, p) <=> Newest(d.files, p))
  BY <1>1, SameContents
<1> QED
  BY <1>2 DEF c

(* The files of a sink that is closed have been renamed.                   *)
LEMMA PlacedIs ==
  ASSUME NEW p \in Nat, NEW f, Sound(f, p), NEW b \in Nat
  PROVE  LET g == Mcap!Disk(f, FALSE, <<>>, b)
         IN  /\ IsDisk(g, p) /\ Sound(McapContents(g), p) /\ g.files = f /\ g.bad = b
             /\ Newest(McapContents(g), p) <=> Newest(f, p)
<1> DEFINE g == Mcap!Disk(f, FALSE, <<>>, b)
<1>1. g.files = f /\ g.is_open = FALSE /\ g.chunk = <<>> /\ g.bad = b
  BY DEF Mcap!Disk
<1>2. <<>> \in Seq(McapMessages(p))
  OBVIOUS
<1>3. AreContents(f, p)
  BY DEF Sound
<1> HIDE DEF g
<1>4. g.is_open \in BOOLEAN /\ (g.is_open => 0 \in DOMAIN g.files)
  BY <1>1, Zenon
<1>5. IsDisk(g, p)
  BY <1>1, <1>2, <1>3, <1>4 DEF IsDisk, AreContents
<1>6. Sound(McapContents(g), p) /\ (Newest(McapContents(g), p) <=> Newest(f, p))
  BY <1>1, <1>5, FilesOfClosed
<1> QED
  BY <1>1, <1>5, <1>6 DEF g

(* Rotate.                                                                 *)
LEMMA RotateKept ==
  ASSUME NEW p \in Nat, NEW ok \in BOOLEAN, NEW d, McapKept(d, p, ok), NEW e \in Mcap!Rotate(d)
  PROVE  /\ McapKept(e, p, ok) /\ e.bad >= d.bad /\ (e.bad = 0 => e.is_open)
         /\ e.is_open => McapContents(e)[0] = <<>>
<1>1. PICK x \in Mcap!Close(d) :
        e \in Mcap!Opened(Mcap!Disk(Mcap!Renamed(x.files, 0), x.is_open, x.chunk, x.bad))
  BY DEF Mcap!Rotate, Mcap!DataSinkPBMcap
<1>2. McapKept(x, p, ok) /\ x.is_open = FALSE /\ x.chunk = <<>> /\ x.bad \in {d.bad, d.bad + 1}
  BY CloseKept
<1>3. IsDisk(x, p) /\ Sound(McapContents(x), p) /\ x.bad \in Nat /\ d.bad \in Nat
  BY <1>2 DEF McapKept, IsDisk
<1>4. Sound(x.files, p) /\ (Newest(McapContents(x), p) <=> Newest(x.files, p))
  BY <1>2, <1>3, FilesOfClosed
<1> DEFINE f == Mcap!Renamed(x.files, 0)
           g == Mcap!Disk(f, FALSE, <<>>, x.bad)
<1>5. Sound(f, p) /\ 0 \notin DOMAIN f /\ (Newest(x.files, p) => Newest(f, p))
  BY <1>4, FilesRenamed, RotatedNewest
<1> HIDE DEF f
<1>6. /\ IsDisk(g, p) /\ Sound(McapContents(g), p) /\ g.files = f /\ g.bad = x.bad
      /\ Newest(McapContents(g), p) <=> Newest(f, p)
  BY <1>3, <1>5, PlacedIs
<1>7. e \in Mcap!Opened(g)
  BY <1>1, <1>2 DEF f
<1> HIDE DEF g
<1>8. /\ IsDisk(e, p) /\ Sound(McapContents(e), p)
      /\ \/ e.is_open /\ e.bad = g.bad /\ McapContents(e)[0] = <<>>
         \/ ~e.is_open /\ e.bad = g.bad + 1
      /\ e.is_open /\ 0 \notin DOMAIN g.files /\ Newest(McapContents(g), p) =>
           Newest(McapContents(e), p)
  BY <1>6, <1>7, OpenedKept
<1>9. e.bad = 0 => e.is_open /\ x.bad = 0
  BY <1>3, <1>6, <1>8
<1>10. ASSUME ok, e.bad = 0 PROVE Newest(McapContents(e), p)
  BY <1>2, <1>4, <1>5, <1>6, <1>8, <1>9, <1>10 DEF McapKept
<1>11. e.bad >= d.bad
  BY <1>2, <1>3, <1>6, <1>8
<1> QED
  BY <1>8, <1>9, <1>10, <1>11 DEF McapKept

(* A renaming fails, and file 0 is lost all the same.                      *)
LEMMA RenameFailsKept ==
  ASSUME NEW p \in Nat, NEW d, McapKept(d, p, FALSE), NEW e \in Mcap!RenameFails(d)
  PROVE  /\ McapKept(e, p, FALSE) /\ e.bad > 0
         /\ e.is_open => McapContents(e)[0] = <<>>
<1>1. PICK x \in Mcap!Close(d) : \E fs \in Mcap!Outcomes(x) :
        e \in Mcap!Opened(Mcap!Disk(fs, x.is_open, x.chunk, x.bad + 1))
  BY DEF Mcap!RenameFails, Mcap!DataSinkPBMcap
<1>2. PICK fs \in Mcap!Outcomes(x) : e \in Mcap!Opened(Mcap!Disk(fs, x.is_open, x.chunk, x.bad + 1))
  BY <1>1
<1>3. PICK n \in Mcap!Failing(x) : fs \in Mcap!rename_file(Mcap!Renamed(x.files, n), n)
  BY <1>2 DEF Mcap!Outcomes
<1>4. n \in Nat
  <2>1. n \in 1.._max_file_count
    BY DEF Mcap!Failing
  <2> QED
    BY <2>1, McapConstants
<1>5. McapKept(x, p, FALSE) /\ x.is_open = FALSE /\ x.chunk = <<>>
  BY CloseKept
<1>6. IsDisk(x, p) /\ Sound(McapContents(x), p) /\ x.bad \in Nat
  BY <1>5 DEF McapKept, IsDisk
<1>7. Sound(x.files, p)
  BY <1>5, <1>6, FilesOfClosed
<1>8. Sound(fs, p)
  BY <1>3, <1>4, <1>7, FilesRenamed, RenamingFailed
<1> DEFINE b == x.bad + 1
           g == Mcap!Disk(fs, FALSE, <<>>, b)
<1>9. b \in Nat /\ b > 0
  BY <1>6
<1>10. e \in Mcap!Opened(g)
  BY <1>2, <1>5
<1> HIDE DEF b
<1>11. IsDisk(g, p) /\ Sound(McapContents(g), p) /\ g.bad = b
  BY <1>8, <1>9, PlacedIs
<1> HIDE DEF g
<1>12. /\ IsDisk(e, p) /\ Sound(McapContents(e), p)
       /\ \/ e.is_open /\ e.bad = g.bad /\ McapContents(e)[0] = <<>>
          \/ ~e.is_open /\ e.bad = g.bad + 1
  BY <1>10, <1>11, OpenedKept
<1>13. e.bad > 0
  BY <1>9, <1>11, <1>12
<1> QED
  BY <1>12, <1>13 DEF McapKept

(* The next number.                                                        *)
LEMMA NumberTaken ==
  ASSUME NEW p \in Nat, NEW d, IsDisk(d, p), Sound(McapContents(d), p)
  PROVE  IsDisk(d, p + 1) /\ Sound(McapContents(d), p + 1)
<1>1. IsDisk(d, p + 1)
  <2>1. /\ \A i \in DOMAIN d.files : d.files[i] \in Seq(McapMessages(p + 1))
        /\ d.chunk \in Seq(McapMessages(p + 1))
    BY McapLater DEF IsDisk
  <2>2. DOMAIN d.files \subseteq Mcap!Indexes
    BY DEF IsDisk
  <2>3. /\ d.is_open \in BOOLEAN /\ (d.is_open => 0 \in DOMAIN d.files)
        /\ d.chunk # <<>> => d.is_open
        /\ d.bad \in Nat
    BY DEF IsDisk
  <2> QED
    BY <2>1, <2>2, <2>3 DEF IsDisk
<1>2. AreContents(McapContents(d), p + 1)
  BY McapLater DEF Sound, AreContents
<1> QED
  BY <1>1, <1>2 DEF Sound

LEMMA AppendLast ==
  ASSUME NEW T, NEW a \in Seq(T), NEW b \in Seq(T), NEW m \in T
  PROVE  Append(b, m) \in Seq(T) /\ a \o Append(b, m) = Append(a \o b, m)
<1>1. Append(b, m) \in Seq(T)
  OBVIOUS
<1>2. Append(b, m) = b \o <<m>> /\ Append(a \o b, m) = (a \o b) \o <<m>>
  OBVIOUS
<1>3. (a \o b) \o <<m>> = a \o (b \o <<m>>)
  <2>1. <<m>> \in Seq(T)
    OBVIOUS
  <2> QED
    BY <2>1
<1> QED
  BY <1>1, <1>2, <1>3

(* Publish and Write of the sink.                                          *)
LEMMA PublishKept ==
  ASSUME NEW p \in Nat, NEW ok \in BOOLEAN, NEW d, McapKept(d, p, ok), ok /\ d.bad = 0 => d.is_open,
         NEW m \in McapMessages(p + 1), m.id = p + 1, NEW s \in Nat,
         d.is_open => /\ Mcap!Size(McapContents(d)[0]) + m.size <= s
                      /\ \/ McapContents(d)[0] = <<>>
                         \/ Mcap!Size(McapContents(d)[0]) + m.size <= _max_file_size,
         NEW e \in Mcap!PublishMcap(d, m)
  PROVE  /\ McapKept(e, p + 1, ok) /\ (ok /\ e.bad = 0 => e.is_open) /\ e.bad >= d.bad
         /\ e.is_open => Mcap!Size(McapContents(e)[0]) <= s
<1>0. IsDisk(d, p) /\ Sound(McapContents(d), p) /\ d.bad \in Nat /\ p + 1 \in Nat
  BY DEF McapKept, IsDisk
<1>1. IsDisk(d, p + 1) /\ Sound(McapContents(d), p + 1)
  BY <1>0, NumberTaken
<1>2. CASE ~d.is_open
  <2>1. e = d
    BY <1>2 DEF Mcap!PublishMcap
  <2>2. ~(ok /\ d.bad = 0)
    BY <1>2
  <2> QED
    BY <1>0, <1>1, <1>2, <2>1, <2>2 DEF McapKept
<1>3. CASE d.is_open
  <2> DEFINE next == Mcap!Disk(d.files, d.is_open, Append(d.chunk, m), d.bad)
             c == McapContents(d)
             f == McapContents(next)
  <2>1. /\ next.files = d.files /\ next.is_open = d.is_open /\ next.chunk = Append(d.chunk, m)
        /\ next.bad = d.bad
    BY DEF Mcap!Disk
  <2>2. e \in {next, Mcap!HandleWriteError(d)} \union Mcap!HandleWrite(next)
    BY <1>3 DEF Mcap!PublishMcap
  <2>3. /\ 0 \in DOMAIN d.files /\ d.files[0] \in Seq(McapMessages(p + 1))
        /\ d.chunk \in Seq(McapMessages(p + 1))
    BY <1>1, <1>3 DEF IsDisk
  <2>4. /\ Append(d.chunk, m) \in Seq(McapMessages(p + 1))
        /\ d.files[0] \o Append(d.chunk, m) = Append(d.files[0] \o d.chunk, m)
    <3> DEFINE T == McapMessages(p + 1)
               a == d.files[0]
               b == d.chunk
    <3>1. a \in Seq(T) /\ b \in Seq(T) /\ m \in T
      BY <2>3
    <3> HIDE DEF T, a, b
    <3>2. Append(b, m) \in Seq(T) /\ a \o Append(b, m) = Append(a \o b, m)
      BY <3>1, AppendLast
    <3> QED
      BY <3>2 DEF T, a, b
  <2>5. /\ DOMAIN f = DOMAIN c /\ 0 \in DOMAIN c /\ f[0] = Append(c[0], m)
        /\ \A i \in DOMAIN f : i # 0 => f[i] = c[i]
    <3> HIDE DEF next
    <3>1. /\ DOMAIN f = DOMAIN next.files /\ DOMAIN c = DOMAIN d.files
          /\ \A i \in DOMAIN next.files : i # 0 => f[i] = next.files[i]
          /\ \A i \in DOMAIN d.files : i # 0 => c[i] = d.files[i]
          /\ 0 \in DOMAIN next.files => f[0] = next.files[0] \o next.chunk
          /\ 0 \in DOMAIN d.files => c[0] = d.files[0] \o d.chunk
      BY ContentsAre
    <3> HIDE DEF c, f
    <3> QED
      BY <2>1, <2>3, <2>4, <3>1
  <2> HIDE DEF next
  <2>6. IsDisk(next, p + 1)
    <3>1. /\ DOMAIN d.files \subseteq Mcap!Indexes
          /\ \A i \in DOMAIN d.files : d.files[i] \in Seq(McapMessages(p + 1))
          /\ d.is_open \in BOOLEAN
      BY <1>1 DEF IsDisk
    <3>2. next.is_open \in BOOLEAN /\ next.is_open
      BY <1>3, <2>1, <3>1, Zenon
    <3>3. /\ DOMAIN next.files \subseteq Mcap!Indexes
          /\ \A i \in DOMAIN next.files : next.files[i] \in Seq(McapMessages(p + 1))
      BY <2>1, <3>1
    <3>4. next.chunk \in Seq(McapMessages(p + 1)) /\ next.bad \in Nat /\ 0 \in DOMAIN next.files
      BY <1>0, <2>1, <2>3, <2>4
    <3> QED
      BY <3>2, <3>3, <3>4 DEF IsDisk
  <2> HIDE DEF c, f
  <2>7. c[0] = <<>> \/ Mcap!Size(c[0]) + m.size <= _max_file_size
    BY <1>3 DEF c
  <2>8. Sound(c, p)
    BY <1>0 DEF c
  <2>9. /\ Sound(f, p + 1) /\ Mcap!Size(f[0]) = Mcap!Size(c[0]) + m.size
        /\ Newest(c, p) => Newest(f, p + 1)
    BY <2>5, <2>7, <2>8, AppendedSound
  <2>10. McapKept(next, p + 1, ok)
    BY <2>1, <2>6, <2>9 DEF McapKept, c, f
  <2>11. Mcap!Size(f[0]) <= s /\ Mcap!Size(f[0]) \in Nat
    <3>1. f[0] \in Seq(McapMessages(p + 1))
      BY <2>5, <2>9 DEF Sound, AreContents
    <3>2. Mcap!Size(f[0]) \in Nat
      BY <1>0, <3>1, McapSizes
    <3> QED
      BY <1>3, <2>9, <3>2 DEF c
  <2>12. CASE e = next
    <3>0. e.is_open
      BY <1>3, <2>1, <2>12, Zenon
    <3>1. e.is_open /\ e.bad = d.bad /\ d.bad >= d.bad
      BY <1>0, <2>1, <2>12, <3>0
    <3>2. Mcap!Size(McapContents(e)[0]) <= s
      BY <2>11, <2>12 DEF f
    <3> QED
      BY <2>10, <2>12, <3>1, <3>2
  <2>13. CASE e \in Mcap!HandleWrite(next)
    <3>1. next.is_open
      BY <1>3, <2>1
    <3>2. /\ McapKept(e, p + 1, ok) /\ e.is_open /\ e.bad \in {next.bad, next.bad + 1}
          /\ Mcap!Size(McapContents(e)[0]) <= Mcap!Size(f[0])
      BY <1>0, <2>10, <2>13, <3>1, WriteKept DEF f
    <3>3. Mcap!Size(McapContents(e)[0]) \in Nat
      <4>1. IsDisk(e, p + 1) /\ Sound(McapContents(e), p + 1)
        BY <3>2 DEF McapKept
      <4>2. 0 \in DOMAIN McapContents(e)
        BY <3>2, <4>1, ContentsAre DEF IsDisk
      <4>3. McapContents(e)[0] \in Seq(McapMessages(p + 1))
        BY <4>1, <4>2 DEF Sound, AreContents
      <4> QED
        BY <1>0, <4>3, McapSizes
    <3>4. e.bad >= d.bad
      BY <1>0, <2>1, <3>2
    <3>5. Mcap!Size(McapContents(e)[0]) <= s
      BY <2>11, <3>2, <3>3
    <3> QED
      BY <3>2, <3>4, <3>5
  <2>14. CASE e = Mcap!HandleWriteError(d)
    <3>1. e.files = d.files /\ e.is_open = FALSE /\ e.chunk = <<>> /\ e.bad = d.bad + 1
      BY <2>14 DEF Mcap!HandleWriteError, Mcap!Disk
    <3>2. <<>> \in Seq(McapMessages(p + 1)) /\ e.bad \in Nat /\ e.bad # 0 /\ e.bad >= d.bad
      BY <1>0, <3>1
    <3>3. e.is_open \in BOOLEAN /\ (e.is_open => 0 \in DOMAIN e.files)
      BY <3>1, Zenon
    <3>4. IsDisk(e, p + 1)
      BY <1>1, <3>1, <3>2, <3>3 DEF IsDisk
    <3>5. Sound(McapContents(e), p + 1)
      BY <1>0, <1>1, <3>1, <3>4, ChunkLost
    <3> QED
      BY <3>1, <3>2, <3>4, <3>5 DEF McapKept
  <2> QED
    BY <2>2, <2>12, <2>13, <2>14
<1> QED
  BY <1>2, <1>3

-----------------------------------------------------------------------------
(* The steps of the rotator.                                               *)

LEMMA ContentIs ==
  \A i \in Mcap!Files : Mcap!Content(i) = McapContents(disk)[i]
BY DEF Mcap!Content, Mcap!Files, McapContents

LEMMA McapState ==
  ASSUME Mcap!McapInv
  PROVE  /\ published \in Nat /\ faults \in Nat /\ _current_file_size \in Nat
         /\ McapKept(disk, published, faults = 0) /\ disk.bad = 0 /\ (faults = 0 => disk.is_open)
         /\ disk.is_open => Mcap!Size(McapContents(disk)[0]) <= _current_file_size
<1> DEFINE c == McapContents(disk)
           fs == disk.files
<1>0. /\ published \in Nat /\ faults \in Nat /\ _current_file_size \in Nat /\ disk.bad = 0
      /\ faults = 0 => disk.is_open
  BY McapConstants DEF Mcap!McapInv, Mcap!McapTypeOK
<1>1. IsDisk(disk, published)
  <2>1. /\ DOMAIN fs \subseteq Mcap!Indexes
        /\ \A i \in DOMAIN fs : fs[i] \in Seq(McapMessages(published))
        /\ disk.chunk \in Seq(McapMessages(published))
    BY DEF Mcap!McapInv, Mcap!McapTypeOK, Mcap!Files, McapMessages
  <2>2. /\ disk.is_open \in BOOLEAN /\ (disk.is_open => 0 \in DOMAIN fs)
        /\ disk.chunk # <<>> => disk.is_open
    BY DEF Mcap!McapInv, Mcap!McapTypeOK, Mcap!Exists
  <2> QED
    BY <1>0, <2>1, <2>2 DEF IsDisk
<1>2. DOMAIN c = Mcap!Files /\ \A i \in Mcap!Files : Mcap!Content(i) = c[i]
  BY ContentsAre, ContentIs DEF Mcap!Files
<1> HIDE DEF c
<1>3. AreContents(c, published)
  BY <1>2 DEF Mcap!McapInv, Mcap!McapTypeOK, AreContents, McapMessages
<1>4. Published(c)
  BY <1>2 DEF Mcap!McapInv, Mcap!MessagesInOrder, Published
<1>5. \A i \in DOMAIN c : Small(c[i])
  BY <1>2 DEF Mcap!McapInv, Mcap!PayloadBounded, Small
<1>6. ASSUME faults = 0 PROVE Newest(c, published)
  <2>1. PICK n \in 1..(published + 1) :
          Mcap!Ids = n..published /\ (n > 1 => _max_file_count \in Mcap!Files)
    BY <1>6 DEF Mcap!McapInv, Mcap!NewestMessagesKept, Mcap!Exists, Mcap!Files
  <2>2. \A x : HasId(c, x) <=> x \in Mcap!Ids
    BY <1>2 DEF HasId, Mcap!Ids
  <2> QED
    BY <1>2, <2>1, <2>2 DEF Newest
<1>7. disk.is_open => Mcap!Size(c[0]) <= _current_file_size
  BY <1>1, <1>2 DEF Mcap!McapInv, IsDisk, Mcap!Files
<1> QED
  BY <1>0, <1>1, <1>3, <1>4, <1>5, <1>6, <1>7 DEF McapKept, Sound, c

LEMMA BecomesKept ==
  ASSUME faults \in Nat, NEW d, Mcap!Becomes(d), NEW p \in 0..MaxMessages, published' = p,
         McapKept(d, p, faults = 0), faults = 0 /\ d.bad = 0 => d.is_open,
         _current_file_size' \in Nat,
         d.is_open => Mcap!Size(McapContents(d)[0]) <= _current_file_size'
  PROVE  Mcap!McapInv'
<1>1. /\ disk' = Mcap!Disk(d.files, d.is_open, d.chunk, 0) /\ faults' = faults + d.bad
      /\ faults + d.bad <= MaxFaults
  BY DEF Mcap!Becomes
<1>2. disk'.files = d.files /\ disk'.is_open = d.is_open /\ disk'.chunk = d.chunk /\ disk'.bad = 0
  BY <1>1 DEF Mcap!Disk
<1> DEFINE c == McapContents(d)
<1>3. /\ IsDisk(d, p) /\ Sound(c, p) /\ (faults = 0 /\ d.bad = 0 => Newest(c, p))
      /\ d.bad \in Nat /\ p \in Nat
  BY McapConstants DEF McapKept, IsDisk
<1>4. Mcap!Files' = DOMAIN c
  BY <1>2, ContentsAre DEF Mcap!Files
<1>5. \A i \in DOMAIN c : Mcap!Content(i)' = c[i]
  BY <1>2 DEF Mcap!Content, McapContents
<1>6. \A i \in DOMAIN c : c[i] \in Seq(McapMessages(p))
  BY <1>3 DEF Sound, AreContents
<1>7. 0 \in Mcap!Files' => Mcap!Content(0)' = c[0]
  BY <1>4, <1>5
<1>8. d.is_open \in BOOLEAN /\ (d.is_open => 0 \in DOMAIN d.files) /\ (d.chunk # <<>> => d.is_open)
  BY <1>3 DEF IsDisk
<1>9. d.is_open => 0 \in DOMAIN c
  BY <1>8, ContentsAre
<1> HIDE DEF c
<1>10. Mcap!McapTypeOK'
  <2>1. Mcap!Files' \subseteq Mcap!Indexes
    BY <1>3, <1>4 DEF Sound, AreContents
  <2>2. \A i \in Mcap!Files' : Mcap!Content(i)' \in Seq([id : 1..published', size : Sizes])
    BY <1>4, <1>5, <1>6 DEF McapMessages
  <2>3. /\ disk'.is_open \in BOOLEAN /\ (disk'.is_open => 0 \in DOMAIN disk'.files)
        /\ disk'.chunk # <<>> => disk'.is_open
    BY <1>2, <1>8
  <2>4. published' \in 0..MaxMessages
    OBVIOUS
  <2>5. faults' \in 0..MaxFaults
    BY <1>1, <1>3, McapConstants
  <2> QED
    BY <2>1, <2>2, <2>3, <2>4, <2>5 DEF Mcap!McapTypeOK, Mcap!Exists, Mcap!Indexes
<1>11. Mcap!MessagesInOrder'
  BY <1>3, <1>4, <1>5 DEF Mcap!MessagesInOrder, Sound, Published
<1>12. Mcap!PayloadBounded'
  <2>1. \A i \in Mcap!Files' : Mcap!Content(i)' = c[i] /\ Small(c[i])
    BY <1>3, <1>4, <1>5 DEF Sound
  <2> QED
    BY <2>1 DEF Mcap!PayloadBounded, Small, Mcap!Size
<1>13. Mcap!NewestMessagesKept'
  <2>1. ASSUME faults' = 0
        PROVE  \E n \in 1..(published' + 1) :
                 Mcap!Ids' = n..published' /\ (n > 1 => _max_file_count \in DOMAIN disk'.files)
    <3>1. faults = 0 /\ d.bad = 0
      BY <1>1, <1>3, <2>1
    <3>2. PICK n \in 1..(p + 1) : /\ \A x : HasId(c, x) <=> x \in n..p
                                  /\ n > 1 => _max_file_count \in DOMAIN c
      BY <1>3, <3>1 DEF Newest
    <3>3. \A x : x \in Mcap!Ids' <=> HasId(c, x)
      BY <1>4, <1>5 DEF Mcap!Ids, HasId
    <3>4. Mcap!Ids' = n..p
      BY <3>2, <3>3
    <3>5. DOMAIN disk'.files = DOMAIN c
      BY <1>4 DEF Mcap!Files
    <3> QED
      BY <3>2, <3>4, <3>5
  <2> QED
    BY <2>1 DEF Mcap!NewestMessagesKept, Mcap!Exists
<1>14. /\ \A i \in Mcap!Files' : disk'.files[i] \in Seq([id : 1..published', size : Sizes])
       /\ disk'.chunk \in Seq([id : 1..published', size : Sizes])
  BY <1>2, <1>3 DEF IsDisk, McapMessages, Mcap!Files
<1>15. disk'.is_open => Mcap!Size(Mcap!Content(0)') <= _current_file_size'
  <2> SUFFICES ASSUME disk'.is_open
               PROVE  Mcap!Size(Mcap!Content(0)') <= _current_file_size'
    OBVIOUS
  <2>1. d.is_open
    BY <1>2
  <2>2. Mcap!Content(0)' = c[0]
    BY <1>5, <1>9, <2>1
  <2>3. Mcap!Size(c[0]) <= _current_file_size'
    BY <2>1 DEF c
  <2> QED
    BY ONLY <2>2, <2>3
<1>16. faults' = 0 => disk'.is_open
  <2>1. faults' = 0 => faults = 0 /\ d.bad = 0
    BY <1>1, <1>3
  <2> QED
    BY <1>2, <2>1
<1> QED
  BY <1>2, <1>10, <1>11, <1>12, <1>13, <1>14, <1>15, <1>16 DEF Mcap!McapInv, Mcap!Size

(* Publish and Write of the rotator.                                       *)
LEMMA PutKept ==
  ASSUME Mcap!McapInv, NEW n \in Sizes, Mcap!Put(n)
  PROVE  Mcap!McapInv'
<1> DEFINE p == published
           m == [id |-> p + 1, size |-> n]
           ok == faults = 0
           size == _current_file_size
<1>1. /\ p \in Nat /\ faults \in Nat /\ size \in Nat /\ McapKept(disk, p, ok) /\ disk.bad = 0
      /\ ok => disk.is_open
      /\ disk.is_open => Mcap!Size(McapContents(disk)[0]) <= size
  BY McapState
<1>2. published' = p + 1 /\ p < MaxMessages
  BY DEF Mcap!Put
<1>3. p + 1 \in 0..MaxMessages /\ n \in Nat /\ ok \in BOOLEAN
  BY <1>1, <1>2, McapConstants
<1>4. m \in McapMessages(p + 1) /\ m.id = p + 1 /\ m.size = n
  BY <1>1 DEF McapMessages
<1>5. \/ /\ size + n <= _max_file_size
         /\ \E d \in Mcap!PublishMcap(disk, m) : Mcap!Becomes(d)
         /\ _current_file_size' = size + n
      \/ /\ \E d \in Mcap!Rotate(disk) : \E e \in Mcap!PublishMcap(d, m) : Mcap!Becomes(e)
         /\ _current_file_size' = n
      \/ /\ \E d \in Mcap!RenameFails(disk) : Mcap!Becomes(d)
         /\ _current_file_size' = size
  BY DEF Mcap!Put, Mcap!NewSize
<1>6. \A d : d.is_open /\ IsDisk(d, p) /\ Sound(McapContents(d), p) =>
        Mcap!Size(McapContents(d)[0]) \in Nat
  <2> SUFFICES ASSUME NEW d, d.is_open, IsDisk(d, p), Sound(McapContents(d), p)
               PROVE  Mcap!Size(McapContents(d)[0]) \in Nat
    OBVIOUS
  <2>1. 0 \in DOMAIN McapContents(d)
    BY ContentsAre DEF IsDisk
  <2>2. McapContents(d)[0] \in Seq(McapMessages(p))
    BY <2>1 DEF Sound, AreContents
  <2> QED
    BY <1>1, <2>2, McapSizes
<1>7. Mcap!Size(<<>>) = 0
  BY <1>1, <1>4, McapSizes, EmptySeq
<1> HIDE DEF m, ok, size, p
<1>8. CASE /\ size + n <= _max_file_size /\ _current_file_size' = size + n
           /\ \E d \in Mcap!PublishMcap(disk, m) : Mcap!Becomes(d)
  <2>1. PICK d \in Mcap!PublishMcap(disk, m) : Mcap!Becomes(d)
    BY <1>8
  <2> DEFINE s == size + n
  <2>2. s \in Nat
    BY <1>1, <1>3
  <2>3. disk.is_open => /\ Mcap!Size(McapContents(disk)[0]) + m.size <= s
                        /\ Mcap!Size(McapContents(disk)[0]) + m.size <= _max_file_size
    <3> SUFFICES ASSUME disk.is_open
                 PROVE  /\ Mcap!Size(McapContents(disk)[0]) + m.size <= s
                        /\ Mcap!Size(McapContents(disk)[0]) + m.size <= _max_file_size
      OBVIOUS
    <3>1. Mcap!Size(McapContents(disk)[0]) \in Nat
      BY <1>1, <1>6 DEF McapKept
    <3> QED
      BY <1>1, <1>3, <1>4, <1>8, <3>1, McapConstants
  <2> HIDE DEF s
  <2>4. /\ McapKept(d, p + 1, ok) /\ (ok /\ d.bad = 0 => d.is_open)
        /\ d.is_open => Mcap!Size(McapContents(d)[0]) <= s
    BY <1>1, <1>3, <1>4, <2>1, <2>2, <2>3, PublishKept
  <2>5. _current_file_size' = s
    BY <1>8 DEF s
  <2> QED
    BY <1>1, <1>2, <1>3, <2>1, <2>2, <2>4, <2>5, BecomesKept DEF ok
<1>9. CASE /\ _current_file_size' = n
           /\ \E d \in Mcap!Rotate(disk) : \E e \in Mcap!PublishMcap(d, m) : Mcap!Becomes(e)
  <2>1. PICK d \in Mcap!Rotate(disk) : \E e \in Mcap!PublishMcap(d, m) : Mcap!Becomes(e)
    BY <1>9
  <2>2. PICK e \in Mcap!PublishMcap(d, m) : Mcap!Becomes(e)
    BY <2>1
  <2>3. /\ McapKept(d, p, ok) /\ d.bad >= disk.bad /\ (d.bad = 0 => d.is_open)
        /\ d.is_open => McapContents(d)[0] = <<>>
    BY <1>1, <1>3, RotateKept
  <2>4. d.is_open => /\ Mcap!Size(McapContents(d)[0]) + m.size <= n
                     /\ McapContents(d)[0] = <<>>
    BY <1>3, <1>4, <1>7, <2>3
  <2>5. /\ McapKept(e, p + 1, ok) /\ (ok /\ e.bad = 0 => e.is_open)
        /\ e.is_open => Mcap!Size(McapContents(e)[0]) <= n
    BY <1>1, <1>3, <1>4, <2>2, <2>3, <2>4, PublishKept
  <2> QED
    BY <1>1, <1>2, <1>3, <1>9, <2>2, <2>5, BecomesKept DEF ok
<1>10. CASE /\ _current_file_size' = size
            /\ \E d \in Mcap!RenameFails(disk) : Mcap!Becomes(d)
  <2>1. PICK d \in Mcap!RenameFails(disk) : Mcap!Becomes(d)
    BY <1>10
  <2>2. McapKept(disk, p, FALSE)
    BY <1>1 DEF McapKept
  <2>3. McapKept(d, p, FALSE) /\ d.bad > 0 /\ (d.is_open => McapContents(d)[0] = <<>>)
    BY <1>1, <2>1, <2>2, RenameFailsKept
  <2>4. IsDisk(d, p) /\ Sound(McapContents(d), p) /\ d.bad \in Nat
    BY <2>3 DEF McapKept, IsDisk
  <2>5. IsDisk(d, p + 1) /\ Sound(McapContents(d), p + 1) /\ d.bad # 0
    BY <1>1, <2>3, <2>4, NumberTaken
  <2>6. McapKept(d, p + 1, ok)
    BY <2>5 DEF McapKept
  <2>7. d.is_open => Mcap!Size(McapContents(d)[0]) <= size
    BY <1>1, <1>7, <2>3
  <2> QED
    BY <1>1, <1>2, <1>3, <1>10, <2>1, <2>5, <2>6, <2>7, BecomesKept DEF ok
<1> QED
  BY <1>5, <1>8, <1>9, <1>10

LEMMA RestartKept ==
  ASSUME Mcap!McapInv, Mcap!Restart PROVE Mcap!McapInv'
<1> DEFINE p == published
           ok == faults = 0
<1>1. p \in Nat /\ faults \in Nat /\ McapKept(disk, p, ok) /\ p \in 0..MaxMessages
  BY McapState DEF Mcap!McapInv, Mcap!McapTypeOK
<1>2. _current_file_size' = 0 /\ published' = p
  BY DEF Mcap!Restart
<1>3. PICK d \in {disk} \union Mcap!Close(disk) : \E e \in Mcap!Opened(d) :
        Mcap!Becomes(Mcap!Disk(e.files, e.is_open, e.chunk, e.bad + 1))
  BY DEF Mcap!Restart, Mcap!New, Mcap!DataSinkPBMcap
<1>4. PICK e \in Mcap!Opened(d) : Mcap!Becomes(Mcap!Disk(e.files, e.is_open, e.chunk, e.bad + 1))
  BY <1>3
<1> HIDE DEF ok, p
<1>5. IsDisk(d, p) /\ Sound(McapContents(d), p)
  BY <1>1, <1>3, CloseKept DEF McapKept
<1>6. IsDisk(e, p) /\ Sound(McapContents(e), p) /\ (e.is_open => McapContents(e)[0] = <<>>)
  BY <1>1, <1>4, <1>5, OpenedKept
<1> DEFINE g == Mcap!Disk(e.files, e.is_open, e.chunk, e.bad + 1)
<1>7. g.files = e.files /\ g.is_open = e.is_open /\ g.chunk = e.chunk /\ g.bad = e.bad + 1
  BY DEF Mcap!Disk
<1>8. Mcap!Becomes(g)
  BY <1>4
<1> HIDE DEF g
<1>9. e.bad \in Nat
  BY <1>6 DEF IsDisk
<1>10. g.bad \in Nat /\ g.bad # 0
  BY <1>7, <1>9
<1>11. IsDisk(g, p)
  BY <1>6, <1>7, <1>10 DEF IsDisk
<1>12. McapContents(g) = McapContents(e)
  BY <1>7 DEF McapContents
<1>13. McapKept(g, p, ok)
  BY <1>6, <1>10, <1>11, <1>12 DEF McapKept
<1>14. g.is_open => Mcap!Size(McapContents(g)[0]) <= 0
  <2>1. Mcap!Size(<<>>) = 0
    BY <1>1, McapSizes, EmptySeq
  <2> QED
    BY <1>6, <1>7, <1>12, <2>1
<1> QED
  BY <1>1, <1>2, <1>8, <1>10, <1>13, <1>14, BecomesKept DEF ok

LEMMA McapInit == Mcap!Init => Mcap!McapInv
<1> SUFFICES ASSUME Mcap!Init PROVE Mcap!McapInv
  OBVIOUS
<1>1. _current_file_size = 0 /\ published = 0 /\ faults = 0 /\ disk.bad = 0
  BY DEF Mcap!Init
<1>2. \/ disk = Mcap!Disk(Mcap!File0(<<>>, <<>>), TRUE, <<>>, 0)
      \/ disk.bad = 1
  BY DEF Mcap!Init, Mcap!New, Mcap!DataSinkPBMcap, Mcap!Opened, Mcap!Disk
<1>3. disk = Mcap!Disk(Mcap!File0(<<>>, <<>>), TRUE, <<>>, 0)
  BY <1>1, <1>2
<1>4. disk.files = Mcap!File0(<<>>, <<>>) /\ disk.is_open = TRUE /\ disk.chunk = <<>>
  BY <1>3 DEF Mcap!Disk
<1>5. DOMAIN disk.files = {0} /\ disk.files[0] = <<>>
  BY <1>4 DEF Mcap!File0
<1>6. Mcap!Files = {0} /\ Mcap!Content(0) = <<>> /\ \A i \in Mcap!Files : Mcap!Content(i) = <<>>
  BY <1>4, <1>5 DEF Mcap!Files, Mcap!Content
<1>7. Mcap!Size(<<>>) = 0 /\ \A T : <<>> \in Seq(T)
  BY McapSizes, EmptySeq
<1>8. Mcap!McapTypeOK
  <2>1. 0 \in Mcap!Indexes
    BY McapConstants DEF Mcap!Indexes
  <2>2. published \in 0..MaxMessages /\ faults \in 0..MaxFaults
    BY <1>1, McapConstants
  <2> QED
    BY <1>4, <1>5, <1>6, <1>7, <2>1, <2>2 DEF Mcap!McapTypeOK, Mcap!Exists
<1>9. Mcap!MessagesInOrder
  <2>1. \A i \in Mcap!Files : 1..Len(Mcap!Content(i)) = {}
    BY <1>6
  <2> QED
    BY <2>1 DEF Mcap!MessagesInOrder
<1>10. Mcap!NewestMessagesKept
  <2>1. Mcap!Ids = {}
    BY <1>6 DEF Mcap!Ids
  <2>2. 1..0 = {} /\ 1 \in 1..(0 + 1) /\ ~(1 > 1)
    OBVIOUS
  <2> QED
    BY <1>1, <2>1, <2>2 DEF Mcap!NewestMessagesKept
<1>11. Mcap!PayloadBounded
  BY <1>6, <1>7, McapConstants DEF Mcap!PayloadBounded
<1>12. disk.is_open => Mcap!Size(Mcap!Content(0)) <= _current_file_size
  BY <1>1, <1>6, <1>7
<1> QED
  BY <1>1, <1>4, <1>5, <1>6, <1>7, <1>8, <1>9, <1>10, <1>11, <1>12 DEF Mcap!McapInv

(* What the files of the rotator hold, whatever fails.                     *)
THEOREM McapInvariant == Spec => []Mcap!McapInv
<1>1. Init => Mcap!McapInv
  BY McapInit DEF Init
<1>2. Mcap!McapInv /\ [Next]_vars => Mcap!McapInv'
  <2> SUFFICES ASSUME Mcap!McapInv, [Next]_vars PROVE Mcap!McapInv'
    OBVIOUS
  <2>1. Mcap!Next \/ UNCHANGED mcapVars
    BY DEF Next, StreamStep, SinkStep, TuiStep, McapStep, vars
  <2>2. CASE UNCHANGED mcapVars
    <3>1. /\ disk' = disk /\ _current_file_size' = _current_file_size
          /\ published' = published /\ faults' = faults
      BY <2>2 DEF mcapVars
    <3>2. Mcap!Files' = Mcap!Files /\ \A i : Mcap!Content(i)' = Mcap!Content(i)
      BY <3>1 DEF Mcap!Files, Mcap!Content
    <3>3. Mcap!McapTypeOK'
      BY <3>1, <3>2 DEF Mcap!McapInv, Mcap!McapTypeOK, Mcap!Exists
    <3>4. Mcap!MessagesInOrder'
      BY <3>2 DEF Mcap!McapInv, Mcap!MessagesInOrder
    <3>5. Mcap!NewestMessagesKept'
      <4>1. Mcap!Ids' = Mcap!Ids
        BY <3>2 DEF Mcap!Ids
      <4>2. DOMAIN disk'.files = DOMAIN disk.files
        BY <3>1
      <4> QED
        BY <3>1, <4>1, <4>2 DEF Mcap!McapInv, Mcap!NewestMessagesKept, Mcap!Exists
    <3>6. \A i : Mcap!Size(Mcap!Content(i))' = Mcap!Size(Mcap!Content(i))
      BY <3>2 DEF Mcap!Size
    <3>7. Mcap!PayloadBounded'
      BY <3>2, <3>6 DEF Mcap!McapInv, Mcap!PayloadBounded
    <3> QED
      BY <3>1, <3>2, <3>3, <3>4, <3>5, <3>6, <3>7 DEF Mcap!McapInv
  <2>3. CASE Mcap!Next
    BY <2>3, PutKept, RestartKept DEF Mcap!Next, Mcap!Publish, Mcap!Write
  <2> QED
    BY <2>1, <2>2, <2>3
<1> QED
  BY <1>1, <1>2, PTL DEF Spec

(* Publish and Rotate of the MCAP rotator, for any sizes of messages and   *)
(* whatever part of a chunk a failing write leaves: messages stay in order *)
(* and do not come twice; while nothing fails the oldest go first; the     *)
(* payload of a file is bounded, which does not bound the file itself.     *)
THEOREM RotatorKeepsMessages == Spec => []MessagesKept
<1>1. Mcap!McapInv => MessagesKept
  BY DEF Mcap!McapInv, MessagesKept
<1> QED
  BY <1>1, McapInvariant, PTL

-----------------------------------------------------------------------------
(* The log streams: what the helpers do to a buffer.                       *)

LEMMA StreamConstants ==
  /\ BUF_LEN \in Nat /\ BUF_LEN > 0 /\ MaxPieces \in Nat
  /\ \A n \in Lengths : n \in Nat /\ n > 0
  /\ \A ns \in Vectors : ns \in Seq(Lengths)
BY OutputsAssumption DEF Stream!LogStreamAssumption

(* A buffer that holds pieces up to g, in order.                           *)
IsBuffer(b, g) ==
  /\ b.text \in Seq(Stream!Runs) /\ b.pos = Stream!TextSize(b.text)
  /\ b.pos \in 0..(BUF_LEN - 1) /\ b.width \in {0} \union Lengths
  /\ Stream!Rising(b.text) /\ Stream!UpTo(b.text, g)

LEMMA RunFields ==
  ASSUME NEW T, NEW q \in Seq(T)
  PROVE  Len(q) \in Nat /\ \A i \in 1..Len(q) : q[i] \in T
OBVIOUS

LEMMA AppendFields ==
  ASSUME NEW T, NEW q \in Seq(T), NEW r \in T
  PROVE  /\ Append(q, r) \in Seq(T) /\ Len(q) \in Nat /\ Len(Append(q, r)) = Len(q) + 1
         /\ Append(q, r)[Len(q) + 1] = r
         /\ \A i \in 1..Len(q) : Append(q, r)[i] = q[i]
OBVIOUS

LEMMA TextGrows ==
  ASSUME NEW T, NEW q \in Seq(T), NEW r \in T
  PROVE  Stream!TextSize(Append(q, r)) = Stream!TextSize(q) + r.size
<1> DEFINE s == Append(q, r)
<1>1. /\ s \in Seq(T) /\ Len(s) = Len(q) + 1 /\ Len(q) \in Nat /\ s[Len(q) + 1] = r
      /\ \A i \in 1..Len(q) : s[i] = q[i]
  BY AppendFields
<1> HIDE DEF s
<1>2. Len(s) \in 0..Len(s) /\ Len(s) # 0 /\ Len(s) - 1 = Len(q) /\ Len(q) <= Len(s)
  BY <1>1
<1>3. SizeUpTo(s)[Len(s)] = SizeUpTo(s)[Len(q)] + r.size
  BY <1>1, <1>2, SizesAre DEF SizeStep
<1>4. SizeUpTo(s)[Len(q)] = SizeUpTo(q)[Len(q)]
  BY <1>1, <1>2, SizeOfPrefix
<1>5. Stream!TextSize(s) = SizeUpTo(s)[Len(s)] /\ Stream!TextSize(q) = SizeUpTo(q)[Len(q)]
  BY <1>1, SizesAre
<1> QED
  BY <1>3, <1>4, <1>5 DEF s

(* A run is added.                                                         *)
LEMMA PutKeeps ==
  ASSUME NEW g \in Nat, NEW h \in Nat, g <= h, NEW b, IsBuffer(b, g),
         NEW r \in Stream!Runs, r.of = 0 \/ r.of > g, r.of <= h, b.pos + r.size < BUF_LEN
  PROVE  /\ IsBuffer(Stream!Put(b, r), h)
         /\ \A k \in Nat : Stream!Safe(b, k) /\ (r.of = 0 \/ r.of > k) => Stream!Safe(Stream!Put(b, r), k)
         /\ r.whole /\ r.size > 0 => Stream!Safe(Stream!Put(b, r), r.of)
         /\ r = Stream!Mark => \A k \in Nat : k > g => Stream!Safe(Stream!Put(b, r), k)
<1> DEFINE c == Stream!Put(b, r)
           q == b.text
           s == c.text
<1>1. c.pos = b.pos + r.size /\ s = Append(q, r) /\ c.width = b.width
  BY DEF Stream!Put
<1>2. q \in Seq(Stream!Runs) /\ \A i \in 1..Len(q) : q[i] \in Stream!Runs
  BY RunFields DEF IsBuffer
<1>3. /\ s \in Seq(Stream!Runs) /\ Len(q) \in Nat /\ Len(s) = Len(q) + 1 /\ s[Len(q) + 1] = r
      /\ \A i \in 1..Len(q) : s[i] = q[i]
  BY <1>1, <1>2, AppendFields
<1>4. r.of \in Nat /\ r.size \in Nat /\ \A i \in 1..Len(q) : q[i].of \in Nat
  BY <1>2 DEF Stream!Runs
<1>5. c.pos = Stream!TextSize(s)
  BY <1>1, <1>2, TextGrows DEF IsBuffer
<1>6. c.pos \in 0..(BUF_LEN - 1) /\ b.pos \in Nat /\ c.pos >= b.pos
  BY <1>1, <1>4, StreamConstants DEF IsBuffer
<1>7. c.width \in {0} \union Lengths
  BY <1>1 DEF IsBuffer
<1> HIDE DEF c, q, s
<1>8. Stream!UpTo(q, g) /\ Stream!Rising(q)
  BY DEF IsBuffer, q
<1>9. \A i \in 1..Len(s) : (i \in 1..Len(q) /\ s[i] = q[i]) \/ (i = Len(q) + 1 /\ s[i] = r)
  BY <1>3
<1>10. Stream!UpTo(s, h)
  BY <1>4, <1>8, <1>9 DEF Stream!UpTo
<1>11. Stream!Rising(s)
  <2> SUFFICES ASSUME NEW i \in 1..Len(s), NEW j \in 1..Len(s), i < j, s[i].of # 0, s[j].of # 0
               PROVE  s[i].of < s[j].of
    BY DEF Stream!Rising
  <2>1. i \in 1..Len(q) /\ s[i] = q[i]
    BY <1>3
  <2>2. CASE j \in 1..Len(q) /\ s[j] = q[j]
    BY <1>8, <2>1, <2>2 DEF Stream!Rising
  <2>3. CASE s[j] = r
    <3>1. q[i].of <= g /\ r.of > g
      BY <1>8, <2>1, <2>3 DEF Stream!UpTo
    <3> QED
      BY <1>4, <2>1, <2>3, <3>1
  <2> QED
    BY <1>9, <2>2, <2>3
<1>12. IsBuffer(c, h)
  BY <1>3, <1>5, <1>6, <1>7, <1>10, <1>11 DEF IsBuffer, s
<1>13. ASSUME NEW k \in Nat, Stream!Safe(b, k), r.of = 0 \/ r.of > k PROVE Stream!Safe(c, k)
  <2>1. Stream!Whole(q, k) => Stream!Whole(s, k)
    BY <1>3 DEF Stream!Whole
  <2>2. ASSUME Stream!Marked(q, k) PROVE Stream!Marked(s, k)
    <3>1. PICK i \in 1..Len(q) : /\ q[i] = Stream!Mark
                                 /\ \A j \in 1..Len(q) : j < i => q[j].of < k
                                 /\ \A j \in 1..Len(q) : j > i => q[j].of = 0 \/ q[j].of > k
      BY <2>2 DEF Stream!Marked
    <3>2. i \in 1..Len(s) /\ s[i] = Stream!Mark
      BY <1>3, <3>1
    <3>3. \A j \in 1..Len(s) : j < i => s[j].of < k
      BY <1>3, <3>1
    <3>4. \A j \in 1..Len(s) : j > i => s[j].of = 0 \/ s[j].of > k
      BY <1>9, <1>13, <3>1
    <3> QED
      BY <3>2, <3>3, <3>4 DEF Stream!Marked
  <2>3. (b.pos + 3 >= BUF_LEN => c.pos + 3 >= BUF_LEN) /\ (b.pos > 0 => c.pos > 0)
    BY <1>6, StreamConstants DEF IsBuffer
  <2> QED
    BY <1>13, <2>1, <2>2, <2>3 DEF Stream!Safe, s, q
<1>14. r.whole /\ r.size > 0 => Stream!Safe(c, r.of)
  <2>1. r.whole => Stream!Whole(s, r.of)
    BY <1>3 DEF Stream!Whole
  <2>2. r.size > 0 => c.pos > 0
    BY <1>1, <1>4, <1>6
  <2> QED
    BY <2>1, <2>2 DEF Stream!Safe, s
<1>15. ASSUME r = Stream!Mark, NEW k \in Nat, k > g PROVE Stream!Safe(c, k)
  <2>1. Len(s) \in 1..Len(s) /\ s[Len(s)] = Stream!Mark
    BY <1>3, <1>15
  <2>2. \A j \in 1..Len(s) : j < Len(s) => s[j].of < k
    <3> SUFFICES ASSUME NEW j \in 1..Len(s), j < Len(s) PROVE s[j].of < k
      OBVIOUS
    <3>1. j \in 1..Len(q) /\ s[j] = q[j]
      BY <1>3
    <3>2. q[j].of <= g
      BY <1>8, <3>1 DEF Stream!UpTo
    <3> QED
      BY <1>4, <1>15, <3>1, <3>2
  <2>3. Stream!Marked(s, k)
    BY <2>1, <2>2, <1>3 DEF Stream!Marked
  <2>4. c.pos > 0
    BY <1>1, <1>6, <1>15 DEF Stream!Mark, Stream!Run
  <2> QED
    BY <2>3, <2>4 DEF Stream!Safe, s
<1> QED
  BY <1>12, <1>13, <1>14, <1>15 DEF c

LEMMA WidthFields ==
  ASSUME NEW b, NEW n
  PROVE  /\ Stream!SetWidth(b, n).pos = b.pos /\ Stream!SetWidth(b, n).text = b.text
         /\ Stream!SetWidth(b, n).width = n
BY DEF Stream!SetWidth

LEMMA WidthKeeps ==
  ASSUME NEW g, NEW b, IsBuffer(b, g), NEW n \in {0} \union Lengths
  PROVE  /\ IsBuffer(Stream!SetWidth(b, n), g)
         /\ \A k : Stream!Safe(b, k) <=> Stream!Safe(Stream!SetWidth(b, n), k)
BY WidthFields DEF IsBuffer, Stream!Safe

LEMMA TriedKeeps ==
  ASSUME NEW g, NEW b, IsBuffer(b, g)
  PROVE  /\ IsBuffer(Stream!Tried(b), g) /\ Stream!Tried(b).pos = b.pos
         /\ \A k : Stream!Safe(b, k) <=> Stream!Safe(Stream!Tried(b), k)
<1>1. CASE b.pos + 10 < BUF_LEN
  BY <1>1, WidthKeeps, WidthFields DEF Stream!Tried
<1>2. CASE ~(b.pos + 10 < BUF_LEN)
  BY <1>2 DEF Stream!Tried
<1> QED
  BY <1>1, <1>2

LEMMA Later ==
  ASSUME NEW g \in Nat, NEW h \in Nat, g <= h, NEW b, IsBuffer(b, g)
  PROVE  IsBuffer(b, h)
<1>1. \A i \in 1..Len(b.text) : b.text[i].of \in Nat /\ b.text[i].of <= g
  <2>1. b.text \in Seq(Stream!Runs)
    BY DEF IsBuffer
  <2>2. \A i \in 1..Len(b.text) : b.text[i] \in Stream!Runs
    BY <2>1, RunFields
  <2>3. \A r \in Stream!Runs : r.of \in Nat
    BY DEF Stream!Runs
  <2> QED
    BY <2>2, <2>3 DEF IsBuffer, Stream!UpTo
<1> QED
  BY <1>1 DEF IsBuffer, Stream!UpTo

(* Append: what does not fit is cut at the end of the buffer.              *)
LEMMA AppendTextKeeps ==
  ASSUME NEW g \in Nat, NEW b, IsBuffer(b, g), NEW n \in Nat, n > 0
  PROVE  LET c == Stream!AppendText(b, g + 1, n)
         IN  /\ IsBuffer(c, g + 1) /\ Stream!Safe(c, g + 1)
             /\ \A k \in 1..g : Stream!Safe(b, k) => Stream!Safe(c, k)
<1> DEFINE m == Stream!Copied(b, n)
           r == Stream!Run(g + 1, m, m = n)
           c == Stream!AppendText(b, g + 1, n)
<1>1. b.pos \in Nat /\ b.pos <= BUF_LEN - 1 /\ BUF_LEN \in Nat
  BY StreamConstants DEF IsBuffer
<1>2. m \in Nat /\ b.pos + m < BUF_LEN /\ (m # n => b.pos + m = BUF_LEN - 1)
  BY <1>1 DEF Stream!Copied
<1>3. c = Stream!Put(b, r)
  BY DEF Stream!AppendText
<1> HIDE DEF m
<1>4. r \in Stream!Runs /\ r.of = g + 1 /\ r.size = m /\ (r.whole <=> m = n)
  <2> DEFINE w == m = n
  <2>1. w \in BOOLEAN /\ r = Stream!Run(g + 1, m, w)
    OBVIOUS
  <2> HIDE DEF w, r
  <2>2. r \in Stream!Runs /\ r.of = g + 1 /\ r.size = m /\ r.whole = w
    BY <1>2, <2>1 DEF Stream!Run, Stream!Runs
  <2> QED
    BY <2>2, Zenon DEF w
<1> HIDE DEF r, c
<1>5. /\ IsBuffer(Stream!Put(b, r), g + 1)
      /\ \A k \in Nat : Stream!Safe(b, k) /\ (r.of = 0 \/ r.of > k) => Stream!Safe(Stream!Put(b, r), k)
      /\ r.whole /\ r.size > 0 => Stream!Safe(Stream!Put(b, r), r.of)
  <2>1. g + 1 \in Nat /\ g <= g + 1 /\ r.of > g /\ r.of <= g + 1 /\ b.pos + r.size < BUF_LEN
    BY <1>2, <1>4
  <2> QED
    BY <1>4, <2>1, PutKeeps
<1>6. Stream!Safe(c, g + 1)
  <2>1. CASE m = n
    BY <1>3, <1>4, <1>5, <2>1
  <2>2. CASE m # n
    <3>1. c.pos = b.pos + m
      BY <1>3, <1>4 DEF Stream!Put
    <3>2. c.pos + 3 >= BUF_LEN
      BY <1>1, <1>2, <2>2, <3>1
    <3> QED
      BY <3>2 DEF Stream!Safe
  <2> QED
    BY <2>1, <2>2
<1> QED
  BY <1>3, <1>4, <1>5, <1>6 DEF c

LEMMA AppendCharKeeps ==
  ASSUME NEW g \in Nat, NEW h \in Nat, NEW b, IsBuffer(b, g), NEW k \in Nat, k = 0 \/ k = g + 1,
         h = IF k = 0 THEN g ELSE g + 1
  PROVE  LET c == Stream!AppendChar(b, k)
         IN  /\ IsBuffer(c, h)
             /\ k # 0 => Stream!Safe(c, g + 1)
             /\ \A j \in Nat : (k = 0 \/ j <= g) /\ Stream!Safe(b, j) => Stream!Safe(c, j)
<1> DEFINE r == Stream!Run(k, 1, TRUE)
           c == Stream!AppendChar(b, k)
<1>0. IsBuffer(b, h) /\ g <= h /\ k <= h
  BY Later
<1>1. CASE b.pos + 1 < BUF_LEN
  <2>1. c = Stream!Put(b, r)
    BY <1>1 DEF Stream!AppendChar
  <2>2. r \in Stream!Runs /\ r.of = k /\ r.size = 1 /\ r.whole = TRUE
    BY DEF Stream!Run, Stream!Runs
  <2> HIDE DEF r, c
  <2>3. /\ IsBuffer(Stream!Put(b, r), h)
        /\ \A j \in Nat : Stream!Safe(b, j) /\ (r.of = 0 \/ r.of > j) => Stream!Safe(Stream!Put(b, r), j)
        /\ r.whole /\ r.size > 0 => Stream!Safe(Stream!Put(b, r), r.of)
    <3>1. (r.of = 0 \/ r.of > g) /\ r.of <= h /\ b.pos + r.size < BUF_LEN
      BY <1>0, <1>1, <2>2
    <3> QED
      BY <1>0, <2>2, <3>1, PutKeeps
  <2> QED
    BY <2>1, <2>2, <2>3 DEF c
<1>2. CASE ~(b.pos + 1 < BUF_LEN)
  <2>1. c = b
    BY <1>2 DEF Stream!AppendChar
  <2>2. b.pos + 3 >= BUF_LEN
    BY <1>2, StreamConstants DEF IsBuffer
  <2> QED
    BY <1>0, <2>1, <2>2 DEF Stream!Safe
<1> QED
  BY <1>1, <1>2

(* FormatElement, and AddTruncation when there is no room: every piece     *)
(* from this one on is marked then.                                        *)
LEMMA FormatKeeps ==
  ASSUME NEW g \in Nat, NEW b, IsBuffer(b, g), NEW n \in Nat, n > 0
  PROVE  LET c == Stream!FormatOrMark(b, g + 1, n)
         IN  /\ IsBuffer(c, g + 1) /\ Stream!Safe(c, g + 1)
             /\ \A k \in 1..g : Stream!Safe(b, k) => Stream!Safe(c, k)
             /\ ~Stream!Fits(b, n) => \A k \in Nat : k > g => Stream!Safe(c, k)
<1> DEFINE c == Stream!FormatOrMark(b, g + 1, n)
           r == Stream!Run(g + 1, n, TRUE)
<1>0. b.pos \in Nat /\ BUF_LEN \in Nat /\ g + 1 \in Nat /\ g <= g + 1 /\ IsBuffer(b, g + 1)
  <2>1. g + 1 \in Nat /\ g <= g + 1
    OBVIOUS
  <2>2. IsBuffer(b, g + 1)
    BY ONLY g \in Nat, IsBuffer(b, g), <2>1, Later
  <2>3. b.pos \in Nat /\ BUF_LEN \in Nat
    BY StreamConstants DEF IsBuffer
  <2> QED
    BY <2>1, <2>2, <2>3
<1>1. CASE Stream!Fits(b, n)
  <2>1. c = Stream!Put(b, r) /\ b.pos + n < BUF_LEN
    BY <1>0, <1>1 DEF Stream!FormatOrMark, Stream!Fits
  <2>2. r \in Stream!Runs /\ r.of = g + 1 /\ r.size = n /\ r.whole = TRUE
    BY DEF Stream!Run, Stream!Runs
  <2> HIDE DEF r, c
  <2>3. /\ IsBuffer(Stream!Put(b, r), g + 1)
        /\ \A k \in Nat : Stream!Safe(b, k) /\ (r.of = 0 \/ r.of > k) => Stream!Safe(Stream!Put(b, r), k)
        /\ r.whole /\ r.size > 0 => Stream!Safe(Stream!Put(b, r), r.of)
    <3>1. r.of > g /\ r.of <= g + 1 /\ b.pos + r.size < BUF_LEN
      BY <1>0, <2>1, <2>2
    <3> QED
      BY <1>0, <2>2, <3>1, PutKeeps
  <2> QED
    BY <1>1, <2>1, <2>2, <2>3 DEF c
<1>2. CASE ~Stream!Fits(b, n)
  <2> DEFINE m == Stream!Mark
  <2>1. c = Stream!AddTruncation(b)
    BY <1>2 DEF Stream!FormatOrMark
  <2>2. m \in Stream!Runs /\ m.of = 0 /\ m.size = 3
    BY DEF Stream!Mark, Stream!Run, Stream!Runs
  <2> HIDE DEF c
  <2>3. CASE b.pos + 3 < BUF_LEN
    <3>1. c = Stream!Put(b, m)
      BY <2>1, <2>3 DEF Stream!AddTruncation
    <3> HIDE DEF m
    <3>2. /\ IsBuffer(Stream!Put(b, m), g + 1)
          /\ \A k \in Nat : Stream!Safe(b, k) /\ (m.of = 0 \/ m.of > k) => Stream!Safe(Stream!Put(b, m), k)
          /\ m = Stream!Mark => \A k \in Nat : k > g => Stream!Safe(Stream!Put(b, m), k)
      <4>1. m.of <= g + 1 /\ b.pos + m.size < BUF_LEN
        BY <1>0, <2>2, <2>3
      <4> QED
        BY <1>0, <2>2, <4>1, PutKeeps
    <3>3. \A k \in Nat : k > g => Stream!Safe(c, k)
      BY <3>1, <3>2 DEF m
    <3> QED
      BY <1>0, <1>2, <2>2, <3>1, <3>2, <3>3 DEF c
  <2>4. CASE ~(b.pos + 3 < BUF_LEN)
    <3>1. c = b /\ b.pos + 3 >= BUF_LEN
      BY <1>0, <2>1, <2>4 DEF Stream!AddTruncation
    <3> QED
      BY <1>0, <3>1 DEF Stream!Safe, c
  <2> QED
    BY <2>3, <2>4
<1> QED
  BY <1>1, <1>2

-----------------------------------------------------------------------------
(* operator<< of a vector.                                                 *)

ElementKept(acc, e, g, h) ==
  /\ IsBuffer(e.b, g + 1) /\ e.going \in BOOLEAN
  /\ \A k \in 1..g : Stream!Safe(acc.b, k) => Stream!Safe(e.b, k)
  /\ acc.going => Stream!Safe(e.b, g + 1)
  /\ ~e.going => ~acc.going \/ \A k \in (g + 1)..h : Stream!Safe(e.b, k)
  /\ ~acc.going => ~e.going /\ e.b = acc.b

LEMMA ElementKeeps ==
  ASSUME NEW g \in Nat, NEW h \in Nat, g < h, NEW acc, IsBuffer(acc.b, g), acc.going \in BOOLEAN,
         NEW n \in Lengths, NEW last \in BOOLEAN, last => h = g + 1
  PROVE  ElementKept(acc, Stream!Element(acc, g + 1, n, last), g, h)
<1> DEFINE length == Stream!IntLength(acc.b, n)
           t == Stream!Tried(acc.b)
           next == Stream!FormatOrMark(t, g + 1, length)
           goes == Stream!Fits(acc.b, length) /\ ~last /\ next.pos + 2 < BUF_LEN
           r == Stream!Run(0, 2, TRUE)
           e == Stream!Element(acc, g + 1, n, last)
<1>1. length \in Nat /\ length > 0
  BY StreamConstants DEF Stream!IntLength, IsBuffer
<1>2. /\ IsBuffer(t, g) /\ t.pos = acc.b.pos
      /\ \A k : Stream!Safe(acc.b, k) <=> Stream!Safe(t, k)
  BY TriedKeeps
<1>3. e = IF acc.going THEN Stream!Acc(IF goes THEN Stream!Put(next, r) ELSE next, goes) ELSE acc
  BY DEF Stream!Element
<1>4. \A c, o : Stream!Acc(c, o).b = c /\ Stream!Acc(c, o).going = o
  BY DEF Stream!Acc
<1>5. goes \in BOOLEAN
  OBVIOUS
<1>6. ~goes => ~Stream!Fits(t, length) \/ last \/ next.pos + 2 >= BUF_LEN
  <2>1. Stream!Fits(t, length) <=> Stream!Fits(acc.b, length)
    BY <1>2 DEF Stream!Fits
  <2>2. /\ IsBuffer(next, g + 1)
    BY <1>1, <1>2, FormatKeeps
  <2>3. next.pos \in Nat /\ BUF_LEN \in Nat
    BY <2>2, StreamConstants DEF IsBuffer
  <2> HIDE DEF next, t, length
  <2> QED
    BY <2>1, <2>3
<1>7. goes => next.pos + 2 < BUF_LEN
  OBVIOUS
<1> HIDE DEF e, length, t
<1>8. /\ IsBuffer(next, g + 1) /\ Stream!Safe(next, g + 1)
      /\ \A k \in 1..g : Stream!Safe(t, k) => Stream!Safe(next, k)
      /\ ~Stream!Fits(t, length) => \A k \in Nat : k > g => Stream!Safe(next, k)
  BY <1>1, <1>2, FormatKeeps
<1> HIDE DEF next, goes
<1>9. \A k \in 1..g : Stream!Safe(acc.b, k) => Stream!Safe(next, k)
  BY <1>2, <1>8
<1>10. CASE ~acc.going
  <2>1. e = acc /\ IsBuffer(acc.b, g + 1)
    BY <1>3, <1>10, Later
  <2> QED
    BY <1>10, <2>1 DEF ElementKept, e
<1>11. CASE acc.going /\ goes
  <2>1. e.b = Stream!Put(next, r) /\ e.going
    <3>1. e = Stream!Acc(Stream!Put(next, r), goes)
      BY <1>3, <1>11
    <3>2. e.b = Stream!Put(next, r) /\ e.going = goes
      BY <1>4, <3>1
    <3> QED
      BY <1>11, <3>2
  <2>2. e.going \in BOOLEAN
    <3>1. e = Stream!Acc(Stream!Put(next, r), goes)
      BY <1>3, <1>11
    <3>2. e.going = goes
      BY <1>4, <3>1
    <3> QED
      BY <1>5, <3>2
  <2>3. r \in Stream!Runs /\ r.of = 0 /\ r.size = 2
    BY DEF Stream!Run, Stream!Runs
  <2> HIDE DEF r
  <2>4. /\ IsBuffer(Stream!Put(next, r), g + 1)
        /\ \A k \in Nat : Stream!Safe(next, k) /\ (r.of = 0 \/ r.of > k) => Stream!Safe(Stream!Put(next, r), k)
    <3>1. next.pos + r.size < BUF_LEN /\ r.of <= g + 1 /\ g + 1 \in Nat
      BY <1>7, <1>11, <2>3
    <3> QED
      BY <1>8, <2>3, <3>1, PutKeeps
  <2> QED
    BY <1>8, <1>9, <1>11, <2>1, <2>2, <2>3, <2>4 DEF ElementKept, e
<1>12. CASE acc.going /\ ~goes
  <2>1. e = Stream!Acc(next, goes)
    BY <1>3, <1>12
  <2>2. e.b = next /\ e.going = goes
    BY <1>4, <2>1
  <2>3. e.going \in BOOLEAN /\ ~e.going
    BY <1>5, <1>12, <2>2
  <2>4. \A k \in (g + 1)..h : Stream!Safe(next, k)
    <3>1. CASE ~Stream!Fits(t, length)
      BY <1>8, <3>1
    <3>2. CASE last
      <4>1. h = g + 1
        BY <3>2
      <4>2. \A k \in (g + 1)..h : k = g + 1
        BY <4>1
      <4> QED
        BY <1>8, <4>2
    <3>3. CASE next.pos + 2 >= BUF_LEN
      <4>1. next.pos + 3 >= BUF_LEN
        BY <1>8, <3>3, StreamConstants DEF IsBuffer
      <4> QED
        BY <4>1 DEF Stream!Safe
    <3> QED
      BY <1>6, <1>12, <3>1, <3>2, <3>3
  <2> QED
    BY <1>8, <1>9, <1>12, <2>2, <2>3, <2>4 DEF ElementKept, e
<1> QED
  BY <1>10, <1>11, <1>12

AccStep(b, k, ns, acc, i) ==
  IF i = 0 THEN Stream!Acc(Stream!Put(b, Stream!Run(0, 1, TRUE)), TRUE)
  ELSE Stream!Element(acc[i - 1], k + i - 1, ns[i], i = Len(ns))

(* The function that Elements chooses exists.                              *)
LEMMA ElementsAre ==
  ASSUME NEW b, NEW k, NEW ns, Len(ns) \in Nat
  PROVE  \E acc : /\ Stream!Elements(b, k, ns) = acc[Len(ns)].b
                  /\ \A i \in 0..Len(ns) : acc[i] = AccStep(b, k, ns, acc, i)
<1> DEFINE S == {n \in Nat : \E acc : acc = [i \in 0..n |-> AccStep(b, k, ns, acc, i)]}
<1>1. 0 \in S
  <2> DEFINE acc == [i \in 0..0 |-> Stream!Acc(Stream!Put(b, Stream!Run(0, 1, TRUE)), TRUE)]
  <2>1. acc = [i \in 0..0 |-> AccStep(b, k, ns, acc, i)]
    BY DEF AccStep
  <2> QED
    BY <2>1
<1>2. ASSUME NEW n \in Nat, n \in S PROVE n + 1 \in S
  <2>1. PICK acc : acc = [i \in 0..n |-> AccStep(b, k, ns, acc, i)]
    BY <1>2
  <2> DEFINE new == Stream!Element(acc[n], k + (n + 1) - 1, ns[n + 1], n + 1 = Len(ns))
             h == [i \in 0..(n + 1) |-> IF i = n + 1 THEN new ELSE acc[i]]
  <2>2. \A i \in 0..(n + 1) : h[i] = AccStep(b, k, ns, h, i)
    <3> SUFFICES ASSUME NEW i \in 0..(n + 1) PROVE h[i] = AccStep(b, k, ns, h, i)
      OBVIOUS
    <3>1. CASE i = n + 1
      <4>1. i # 0 /\ i - 1 = n /\ n \in 0..(n + 1) /\ n # n + 1
        BY <3>1
      <4>2. h[i] = new /\ h[n] = acc[n]
        BY <3>1, <4>1
      <4> QED
        BY <3>1, <4>1, <4>2 DEF AccStep
    <3>2. CASE i # n + 1
      <4>1. i \in 0..n /\ h[i] = acc[i]
        BY <3>2
      <4>2. acc[i] = AccStep(b, k, ns, acc, i)
        BY <2>1, <4>1
      <4>3. i # 0 => i - 1 \in 0..n /\ h[i - 1] = acc[i - 1]
        BY <4>1
      <4> QED
        BY <4>1, <4>2, <4>3 DEF AccStep
    <3> QED
      BY <3>1, <3>2
  <2>3. DOMAIN h = 0..(n + 1) /\ h = [i \in DOMAIN h |-> h[i]]
    OBVIOUS
  <2> HIDE DEF h
  <2>4. h = [i \in 0..(n + 1) |-> AccStep(b, k, ns, h, i)]
    BY <2>2, <2>3
  <2>5. n + 1 \in Nat
    OBVIOUS
  <2> QED
    BY <2>4, <2>5
<1> HIDE DEF S
<1>3. \A n \in Nat : n \in S
  BY <1>1, <1>2, NatSetInduction
<1>4. \E acc : acc = [i \in 0..Len(ns) |-> AccStep(b, k, ns, acc, i)]
  BY <1>3 DEF S
<1> DEFINE acc == CHOOSE f : f = [i \in 0..Len(ns) |-> AccStep(b, k, ns, f, i)]
<1>5. acc = [i \in 0..Len(ns) |-> AccStep(b, k, ns, acc, i)]
  BY <1>4
<1>6. Stream!Elements(b, k, ns) = acc[Len(ns)].b
  BY DEF Stream!Elements, AccStep
<1> HIDE DEF acc
<1>7. \A i \in 0..Len(ns) : acc[i] = AccStep(b, k, ns, acc, i)
  BY <1>5
<1> QED
  BY <1>6, <1>7

LEMMA ElementsKeep ==
  ASSUME NEW g \in Nat, NEW b, IsBuffer(b, g), b.pos + 1 < BUF_LEN, NEW ns \in Seq(Lengths)
  PROVE  LET c == Stream!Elements(b, g + 1, ns)
         IN  /\ IsBuffer(c, g + Len(ns))
             /\ \A k \in 1..g : Stream!Safe(b, k) => Stream!Safe(c, k)
             /\ \A k \in (g + 1)..(g + Len(ns)) : Stream!Safe(c, k)
<1> DEFINE L == Len(ns)
           c == Stream!Elements(b, g + 1, ns)
           h == g + L
<1>1. L \in Nat /\ h \in Nat /\ \A i \in 1..L : ns[i] \in Lengths
  BY RunFields
<1>2. PICK acc : c = acc[L].b /\ \A i \in 0..L : acc[i] = AccStep(b, g + 1, ns, acc, i)
  BY <1>1, ElementsAre
<1>4. \A i \in 0..L : acc[i] = AccStep(b, g + 1, ns, acc, i)
  BY <1>2
<1> DEFINE P(i) == /\ IsBuffer(acc[i].b, g + i) /\ acc[i].going \in BOOLEAN
                   /\ \A k \in 1..g : Stream!Safe(b, k) => Stream!Safe(acc[i].b, k)
                   /\ \A k \in (g + 1)..(g + i) : Stream!Safe(acc[i].b, k)
                   /\ ~acc[i].going => \A k \in (g + 1)..h : Stream!Safe(acc[i].b, k)
           S == {i \in Nat : i <= L => P(i)}
<1> HIDE DEF c, L
<1>5. 0 \in S
  <2> DEFINE r == Stream!Run(0, 1, TRUE)
  <2>1. 0 \in 0..L
    BY <1>1
  <2>2. acc[0] = Stream!Acc(Stream!Put(b, r), TRUE)
    BY <1>4, <2>1 DEF AccStep
  <2>3. acc[0].b = Stream!Put(b, r) /\ acc[0].going = TRUE
    BY <2>2 DEF Stream!Acc
  <2>4. r \in Stream!Runs /\ r.of = 0 /\ r.size = 1
    BY DEF Stream!Run, Stream!Runs
  <2> HIDE DEF r
  <2>5. /\ IsBuffer(Stream!Put(b, r), g)
        /\ \A k \in Nat : Stream!Safe(b, k) /\ (r.of = 0 \/ r.of > k) => Stream!Safe(Stream!Put(b, r), k)
    <3>1. b.pos + r.size < BUF_LEN /\ r.of <= g /\ g <= g
      BY <2>4
    <3> QED
      BY <2>4, <3>1, PutKeeps
  <2>6. IsBuffer(acc[0].b, g + 0)
    BY <2>3, <2>5
  <2>7. acc[0].going \in BOOLEAN /\ acc[0].going
    BY <2>3
  <2>8. \A k \in 1..g : Stream!Safe(b, k) => Stream!Safe(acc[0].b, k)
    BY <2>3, <2>4, <2>5
  <2>9. \A k \in (g + 1)..(g + 0) : Stream!Safe(acc[0].b, k)
    OBVIOUS
  <2> QED
    BY <2>6, <2>7, <2>8, <2>9
<1>6. ASSUME NEW i \in Nat, i \in S PROVE i + 1 \in S
  <2> SUFFICES ASSUME i + 1 <= L PROVE P(i + 1)
    OBVIOUS
  <2>1. P(i)
    BY <1>1, <1>6
  <2> DEFINE j == i + 1
             m == g + i
             last == j = L
             e == acc[j]
             f == acc[i]
  <2>2. j \in 1..L /\ j # 0 /\ j - 1 = i /\ (g + 1) + j - 1 = m + 1 /\ m \in Nat /\ m < h
        /\ m + 1 = g + j /\ ns[j] \in Lengths
    BY <1>1
  <2>3. e = Stream!Element(f, m + 1, ns[j], last)
    <3>1. e = AccStep(b, g + 1, ns, acc, j)
      BY <1>1, <1>4, <2>2
    <3>2. (g + 1) + j - 1 = m + 1
      BY <2>2
    <3> HIDE DEF j, m, e, f
    <3>3. e = Stream!Element(acc[j - 1], (g + 1) + j - 1, ns[j], j = Len(ns))
      BY <2>2, <3>1 DEF AccStep
    <3> QED
      BY <2>2, <3>2, <3>3 DEF f, L
  <2>4. last \in BOOLEAN /\ (last => h = m + 1)
    BY <1>1
  <2>5. IsBuffer(f.b, m) /\ f.going \in BOOLEAN
    BY <2>1
  <2> HIDE DEF last, e, f
  <2>6. ElementKept(f, e, m, h)
    BY <1>1, <2>2, <2>3, <2>4, <2>5, ElementKeeps
  <2>7. IsBuffer(e.b, g + j) /\ e.going \in BOOLEAN
    BY <2>2, <2>6 DEF ElementKept
  <2>8. \A k \in 1..g : Stream!Safe(b, k) => Stream!Safe(e.b, k)
    <3>1. \A k \in 1..g : k \in 1..m
      OBVIOUS
    <3>2. \A k \in 1..g : Stream!Safe(b, k) => Stream!Safe(f.b, k)
      BY <2>1 DEF f
    <3> QED
      BY <2>6, <3>1, <3>2 DEF ElementKept
  <2>9. ~f.going => ~e.going /\ e.b = f.b /\ \A k \in (g + 1)..h : Stream!Safe(e.b, k)
    BY <2>1, <2>6 DEF ElementKept, f
  <2>10. \A k \in (g + 1)..m : Stream!Safe(e.b, k)
    <3>1. \A k \in (g + 1)..m : k \in 1..m
      OBVIOUS
    <3>2. \A k \in (g + 1)..m : Stream!Safe(f.b, k)
      BY <2>1 DEF f
    <3> QED
      BY <2>6, <3>1, <3>2 DEF ElementKept
  <2>11. \A k \in (g + 1)..(g + j) : Stream!Safe(e.b, k)
    <3>1. \A k \in (g + 1)..(g + j) : k \in (g + 1)..m \/ k = m + 1
      BY <2>2
    <3>2. f.going => Stream!Safe(e.b, m + 1)
      BY <2>6 DEF ElementKept
    <3>3. \A k \in (g + 1)..(g + j) : k \in (g + 1)..h
      BY <1>1, <2>2
    <3> QED
      BY <2>9, <2>10, <3>1, <3>2, <3>3
  <2>12. ~e.going => \A k \in (g + 1)..h : Stream!Safe(e.b, k)
    <3>1. \A k \in (g + 1)..h : k \in (g + 1)..m \/ k \in (m + 1)..h
      BY <2>2
    <3>2. ~e.going => ~f.going \/ \A k \in (m + 1)..h : Stream!Safe(e.b, k)
      BY <2>6 DEF ElementKept
    <3> QED
      BY <2>9, <2>10, <3>1, <3>2
  <2> QED
    BY <2>7, <2>8, <2>11, <2>12 DEF e
<1> HIDE DEF S
<1>7. \A i \in Nat : i \in S
  BY <1>5, <1>6, NatSetInduction
<1>8. P(L)
  BY <1>1, <1>7 DEF S
<1> QED
  BY <1>2, <1>8 DEF c, L

LEMMA VectorKeeps ==
  ASSUME NEW g \in Nat, NEW b, IsBuffer(b, g), NEW ns \in Seq(Lengths)
  PROVE  LET c == Stream!AppendVector(b, g + 1, ns)
         IN  /\ IsBuffer(c, g + Len(ns))
             /\ \A k \in 1..g : Stream!Safe(b, k) => Stream!Safe(c, k)
             /\ \A k \in (g + 1)..(g + Len(ns)) : Stream!Safe(c, k)
<1> DEFINE h == g + Len(ns)
           c == Stream!AppendVector(b, g + 1, ns)
           d == Stream!Elements(b, g + 1, ns)
<1>1. Len(ns) \in Nat /\ h \in Nat /\ g <= h
  BY RunFields
<1>2. CASE b.pos + 1 >= BUF_LEN
  <2>1. c = b
    BY <1>2 DEF Stream!AppendVector
  <2>2. b.pos + 3 >= BUF_LEN
    BY <1>2, StreamConstants DEF IsBuffer
  <2>3. IsBuffer(b, h)
    BY <1>1, Later
  <2> QED
    BY <2>1, <2>2, <2>3 DEF Stream!Safe
<1>3. CASE ~(b.pos + 1 >= BUF_LEN)
  <2>1. c = Stream!AppendChar(d, 0)
    BY <1>3 DEF Stream!AppendVector
  <2>2. b.pos + 1 < BUF_LEN
    BY <1>3, StreamConstants DEF IsBuffer
  <2>3. /\ IsBuffer(d, h) /\ \A k \in 1..g : Stream!Safe(b, k) => Stream!Safe(d, k)
        /\ \A k \in (g + 1)..h : Stream!Safe(d, k)
    BY <2>2, ElementsKeep
  <2> HIDE DEF c, d, h
  <2>4. IsBuffer(c, h) /\ \A k \in Nat : Stream!Safe(d, k) => Stream!Safe(c, k)
    BY <1>1, <2>1, <2>3, AppendCharKeeps
  <2>5. (\A k \in 1..g : k \in Nat) /\ (\A k \in (g + 1)..h : k \in Nat)
    BY <1>1
  <2> QED
    BY <2>3, <2>4, <2>5 DEF c, h
<1> QED
  BY <1>2, <1>3

-----------------------------------------------------------------------------
(* The statements.                                                         *)

Ordered2(es) ==
  /\ \A x \in 1..Len(es) : Stream!Rising(es[x])
  /\ \A x, y \in 1..Len(es) : \A i \in 1..Len(es[x]), j \in 1..Len(es[y]) :
       x < y /\ es[x][i].of # 0 /\ es[y][j].of # 0 => es[x][i].of < es[y][j].of
AllUpTo(es, g) == \A x \in 1..Len(es) : Stream!UpTo(es[x], g)

LEMMA EmptyText == Stream!TextSize(<<>>) = 0
<1> DEFINE q == <<>>
<1>1. q \in Seq(Stream!Runs)
  OBVIOUS
<1>2. Stream!TextSize(q) = SizeUpTo(q)[Len(q)]
  BY <1>1, SizesAre
<1>3. \A n \in 0..Len(q) : SizeUpTo(q)[n] = SizeStep(q, SizeUpTo(q), n)
  BY <1>1, SizesAre
<1>4. Len(q) = 0 /\ 0 \in 0..0
  OBVIOUS
<1>5. Stream!TextSize(q) = 0
  <2> HIDE DEF q
  <2> QED
    BY <1>2, <1>3, <1>4 DEF SizeStep
<1> QED
  BY <1>5

LEMMA StreamState ==
  ASSUME Stream!StreamInv
  PROVE  /\ given \in Nat /\ given <= MaxPieces /\ IsBuffer(buffer, given)
         /\ kind \in Stream!Kinds \union {"none"} /\ m_active \in BOOLEAN /\ m_submitted \in BOOLEAN
         /\ entries \in Seq(Seq(Stream!Runs)) /\ Ordered2(entries) /\ AllUpTo(entries, given)
         /\ m_active /\ ~m_submitted => \A k \in 1..given : Stream!Safe(buffer, k)
         /\ kind # "none" /\ ~m_submitted => entries = <<>>
         /\ kind = "none" /\ m_active /\ ~m_submitted => entries = Stream!Submitted(buffer)
         /\ kind = "cont" => ~m_submitted
<1>1. given \in Nat /\ given <= MaxPieces
  BY StreamConstants DEF Stream!StreamInv, Stream!StreamTypeOK
<1>2. IsBuffer(buffer, given)
  BY DEF Stream!StreamInv, Stream!StreamTypeOK, IsBuffer
<1>3. kind \in Stream!Kinds \union {"none"} /\ m_active \in BOOLEAN /\ m_submitted \in BOOLEAN
  BY DEF Stream!StreamInv, Stream!StreamTypeOK
<1>4. Ordered2(entries) /\ AllUpTo(entries, given) /\ entries \in Seq(Seq(Stream!Runs))
  BY DEF Stream!StreamInv, Stream!EachPieceOnce, Ordered2, AllUpTo
<1>5. m_active /\ ~m_submitted => \A k \in 1..given : Stream!Safe(buffer, k)
  BY DEF Stream!StreamInv
<1>6. /\ kind # "none" /\ ~m_submitted => entries = <<>>
      /\ kind = "none" /\ m_active /\ ~m_submitted => entries = Stream!Submitted(buffer)
      /\ kind = "cont" => ~m_submitted
  BY DEF Stream!StreamInv
<1> QED
  BY <1>1, <1>2, <1>3, <1>4, <1>5, <1>6

(* The text of a statement shows its pieces.                               *)
LEMMA SafeIsShown ==
  ASSUME NEW b, b.pos = Stream!TextSize(b.text), b.pos \in Nat, NEW k, Stream!Safe(b, k),
         NEW q, q = b.text \/ (b.pos = 0 /\ q = <<>>)
  PROVE  Stream!Shown(q, k)
<1>1. CASE q = b.text
  BY <1>1 DEF Stream!Safe, Stream!Shown
<1>2. CASE b.pos = 0 /\ q = <<>>
  <2>1. ~(b.pos > 0)
    BY <1>2
  <2>2. b.pos + 3 >= BUF_LEN
    BY <2>1 DEF Stream!Safe
  <2>3. Stream!TextSize(q) = b.pos
    BY <1>2, EmptyText
  <2> QED
    BY <2>2, <2>3 DEF Stream!Shown
<1> QED
  BY <1>1, <1>2

LEMMA StreamStateNext ==
  ASSUME given' \in Nat, given' <= MaxPieces, IsBuffer(buffer', given'),
         kind' \in Stream!Kinds \union {"none"}, m_active' \in BOOLEAN, m_submitted' \in BOOLEAN,
         entries' \in Seq(Seq(Stream!Runs)), Ordered2(entries'), AllUpTo(entries', given'),
         m_active' /\ ~m_submitted' => \A k \in 1..given' : Stream!Safe(buffer', k),
         kind' # "none" /\ ~m_submitted' => entries' = <<>>,
         kind' = "none" /\ m_active' /\ ~m_submitted' => entries' = Stream!Submitted(buffer'),
         kind' = "cont" => ~m_submitted'
  PROVE  Stream!StreamInv'
<1>1. /\ buffer'.text \in Seq(Stream!Runs) /\ buffer'.pos = Stream!TextSize(buffer'.text)
      /\ buffer'.pos \in 0..(BUF_LEN - 1) /\ buffer'.width \in {0} \union Lengths
      /\ Stream!Rising(buffer'.text) /\ Stream!UpTo(buffer'.text, given')
  BY DEF IsBuffer
<1>2. given' \in 0..MaxPieces
  BY StreamConstants
<1>3. Stream!StreamTypeOK'
  BY <1>1, <1>2 DEF Stream!StreamTypeOK, Stream!TextSize
<1>4. Stream!LossIsMarked'
  <2> DEFINE q == IF kind' # "none" THEN buffer'.text
                  ELSE IF entries' = <<>> THEN <<>> ELSE entries'[1]
  <2>1. m_active' /\ ~m_submitted' => q = buffer'.text \/ (buffer'.pos = 0 /\ q = <<>>)
    <3> SUFFICES ASSUME m_active', ~m_submitted'
                 PROVE  q = buffer'.text \/ (buffer'.pos = 0 /\ q = <<>>)
      OBVIOUS
    <3>1. kind' = "none" /\ buffer'.pos > 0 => entries' = <<buffer'.text>>
      BY DEF Stream!Submitted
    <3>2. kind' = "none" /\ ~(buffer'.pos > 0) => entries' = <<>>
      BY DEF Stream!Submitted
    <3>3. ~(buffer'.pos > 0) => buffer'.pos = 0
      BY <1>1, StreamConstants
    <3> QED
      BY <3>1, <3>2, <3>3
  <2>2. buffer'.pos \in Nat
    BY <1>1, StreamConstants
  <2> HIDE DEF q
  <2>3. m_active' /\ ~m_submitted' => \A k \in 1..given' : Stream!Shown(q, k)
    BY <1>1, <2>1, <2>2, SafeIsShown
  <2> USE DEF q
  <2> QED
    BY <2>3 DEF Stream!LossIsMarked, Stream!Text, Stream!Shown, Stream!Whole, Stream!Marked,
                Stream!TextSize
<1>5. Stream!EachPieceOnce'
  BY DEF Stream!EachPieceOnce, Ordered2, Stream!Rising
<1>9. (m_active /\ ~m_submitted => \A k \in 1..given : Stream!Safe(buffer, k))'
  BY DEF Stream!Safe, Stream!Whole, Stream!Marked
<1>10. (kind = "none" /\ m_active /\ ~m_submitted => entries = Stream!Submitted(buffer))'
  BY DEF Stream!Submitted
<1>6. Stream!Rising(buffer.text)' /\ Stream!UpTo(buffer.text, given)'
  BY <1>1 DEF Stream!Rising, Stream!UpTo
<1>7. \A x \in 1..Len(entries') : Stream!UpTo(entries'[x], given')
  BY DEF AllUpTo
<1> QED
  BY <1>1, <1>3, <1>4, <1>5, <1>6, <1>7, <1>9, <1>10 DEF Stream!StreamInv, Stream!UpTo

LEMMA LaterEntries ==
  ASSUME NEW es \in Seq(Seq(Stream!Runs)), NEW g \in Nat, NEW h \in Nat, g <= h, AllUpTo(es, g)
  PROVE  AllUpTo(es, h)
<1> SUFFICES ASSUME NEW x \in 1..Len(es), NEW i \in 1..Len(es[x]) PROVE es[x][i].of <= h
  BY DEF AllUpTo, Stream!UpTo
<1>1. es[x] \in Seq(Stream!Runs)
  BY RunFields
<1>2. es[x][i] \in Stream!Runs
  BY <1>1, RunFields
<1>3. es[x][i].of \in Nat /\ es[x][i].of <= g
  BY <1>2 DEF Stream!Runs, AllUpTo, Stream!UpTo
<1> QED
  BY <1>3

(* An operator<< that adds n pieces.                                       *)
LEMMA StreamedKept ==
  ASSUME Stream!StreamInv, NEW n \in Nat, NEW b, Stream!Stream(n, b), kind # "none",
         IsBuffer(b, given + n), \A k \in 1..given : Stream!Safe(buffer, k) => Stream!Safe(b, k),
         \A k \in (given + 1)..(given + n) : Stream!Safe(b, k)
  PROVE  Stream!StreamInv'
<1> DEFINE h == given + n
<1>0. /\ given' = h /\ h <= MaxPieces /\ kind' = kind /\ m_active' = m_active
      /\ m_submitted' = m_submitted /\ entries' = entries
      /\ buffer' = IF m_active THEN b ELSE buffer
  BY DEF Stream!Stream
<1>1. /\ given \in Nat /\ IsBuffer(buffer, given)
      /\ kind \in Stream!Kinds \union {"none"} /\ m_active \in BOOLEAN /\ m_submitted \in BOOLEAN
      /\ entries \in Seq(Seq(Stream!Runs)) /\ Ordered2(entries) /\ AllUpTo(entries, given)
      /\ m_active /\ ~m_submitted => \A k \in 1..given : Stream!Safe(buffer, k)
      /\ kind # "none" /\ ~m_submitted => entries = <<>>
      /\ kind = "cont" => ~m_submitted
  BY StreamState
<1>2. h \in Nat /\ given <= h
  BY <1>1
<1>3. AllUpTo(entries, h)
  BY <1>1, <1>2, LaterEntries
<1>4. IsBuffer(buffer', h)
  <2>1. CASE m_active
    BY <1>0, <2>1
  <2>2. CASE ~m_active
    <3>1. buffer' = buffer
      BY <1>0, <2>2
    <3> QED
      BY <1>1, <1>2, <3>1, Later
  <2> QED
    BY <2>1, <2>2
<1>5. ASSUME m_active, ~m_submitted PROVE \A k \in 1..h : Stream!Safe(b, k)
  <2>1. \A k \in 1..given : Stream!Safe(b, k)
    BY <1>1, <1>5
  <2>2. \A k \in 1..h : k \in 1..given \/ k \in (given + 1)..h
    BY <1>1, <1>2
  <2> QED
    BY <2>1, <2>2
<1> HIDE DEF h
<1>6. m_active' /\ ~m_submitted' => \A k \in 1..given' : Stream!Safe(buffer', k)
  BY <1>0, <1>5
<1>7. AllUpTo(entries', given') /\ Ordered2(entries') /\ entries' \in Seq(Seq(Stream!Runs))
  BY <1>0, <1>1, <1>3
<1>8. given' \in Nat /\ given' <= MaxPieces /\ IsBuffer(buffer', given')
  BY <1>0, <1>2, <1>4
<1>9. kind' # "none" /\ ~m_submitted' => entries' = <<>>
  BY <1>0, <1>1
<1>10. (kind' = "cont" => ~m_submitted') /\ kind' # "none"
  BY <1>0, <1>1
<1>11. kind' \in Stream!Kinds \union {"none"} /\ m_active' \in BOOLEAN /\ m_submitted' \in BOOLEAN
  BY <1>0, <1>1
<1> QED
  BY <1>6, <1>7, <1>8, <1>9, <1>10, <1>11, StreamStateNext

LEMMA StringKeeps ==
  ASSUME Stream!StreamInv, kind # "none", NEW n \in Lengths,
         Stream!Stream(1, Stream!AppendText(buffer, given + 1, n))
  PROVE  Stream!StreamInv'
<1> DEFINE b == Stream!AppendText(buffer, given + 1, n)
<1>1. given \in Nat /\ IsBuffer(buffer, given) /\ n \in Nat /\ n > 0
  BY StreamState, StreamConstants
<1>2. IsBuffer(b, given + 1) /\ Stream!Safe(b, given + 1) /\ \A k \in 1..given : Stream!Safe(buffer, k) => Stream!Safe(b, k)
  BY <1>1, AppendTextKeeps
<1>3. Stream!Stream(1, b)
  OBVIOUS
<1> HIDE DEF b
<1>4. \A k \in (given + 1)..(given + 1) : Stream!Safe(b, k)
  BY <1>1, <1>2
<1> QED
  BY <1>2, <1>3, <1>4, StreamedKept

LEMMA CharKeeps ==
  ASSUME Stream!StreamInv, kind # "none",
         Stream!Stream(1, Stream!AppendChar(buffer, given + 1))
  PROVE  Stream!StreamInv'
<1> DEFINE b == Stream!AppendChar(buffer, given + 1)
           g == given
<1>1. g \in Nat /\ IsBuffer(buffer, g) /\ g + 1 \in Nat /\ g + 1 # 0
  BY StreamState
<1>2. /\ IsBuffer(b, g + 1) /\ Stream!Safe(b, g + 1)
      /\ \A j \in Nat : j <= g /\ Stream!Safe(buffer, j) => Stream!Safe(b, j)
  <2> HIDE DEF g
  <2>1. g + 1 = IF g + 1 = 0 THEN g ELSE g + 1
    BY <1>1
  <2> QED
    BY <1>1, <2>1, AppendCharKeeps DEF g
<1>3. Stream!Stream(1, b)
  OBVIOUS
<1> HIDE DEF b
<1>4. \A k \in (given + 1)..(given + 1) : Stream!Safe(b, k)
  BY <1>1, <1>2
<1>5. \A k \in 1..given : Stream!Safe(buffer, k) => Stream!Safe(b, k)
  BY <1>1, <1>2
<1> QED
  BY <1>2, <1>3, <1>4, <1>5, StreamedKept

LEMMA NumberKeeps ==
  ASSUME Stream!StreamInv, kind # "none", NEW c, NEW n \in Nat, n > 0,
         IsBuffer(c, given), \A k : Stream!Safe(buffer, k) <=> Stream!Safe(c, k),
         Stream!Stream(1, Stream!FormatOrMark(c, given + 1, n))
  PROVE  Stream!StreamInv'
<1> DEFINE b == Stream!FormatOrMark(c, given + 1, n)
<1>1. given \in Nat
  BY StreamState
<1>2. /\ IsBuffer(b, given + 1) /\ Stream!Safe(b, given + 1)
      /\ \A k \in 1..given : Stream!Safe(c, k) => Stream!Safe(b, k)
  BY <1>1, FormatKeeps
<1>3. Stream!Stream(1, b)
  OBVIOUS
<1> HIDE DEF b
<1>4. \A k \in (given + 1)..(given + 1) : Stream!Safe(b, k)
  BY <1>1, <1>2
<1>5. \A k \in 1..given : Stream!Safe(buffer, k) => Stream!Safe(b, k)
  BY <1>2
<1> QED
  BY <1>2, <1>3, <1>4, <1>5, StreamedKept

LEMMA NumbersKeep ==
  ASSUME Stream!StreamInv, kind # "none", NEW n \in Lengths,
         \/ Stream!Stream(1, Stream!FormatOrMark(buffer, given + 1, n))
         \/ Stream!Stream(1, Stream!FormatOrMark(Stream!Tried(buffer), given + 1,
                                                 Stream!IntLength(buffer, n)))
  PROVE  Stream!StreamInv'
<1>1. IsBuffer(buffer, given) /\ n \in Nat /\ n > 0 /\ buffer.width \in Nat
  BY StreamState, StreamConstants DEF IsBuffer
<1>2. CASE Stream!Stream(1, Stream!FormatOrMark(buffer, given + 1, n))
  BY <1>1, <1>2, NumberKeeps
<1>3. CASE Stream!Stream(1, Stream!FormatOrMark(Stream!Tried(buffer), given + 1,
                                                Stream!IntLength(buffer, n)))
  <2> DEFINE c == Stream!Tried(buffer)
             m == Stream!IntLength(buffer, n)
  <2>1. m \in Nat /\ m > 0
    BY <1>1 DEF Stream!IntLength
  <2>2. IsBuffer(c, given) /\ \A k : Stream!Safe(buffer, k) <=> Stream!Safe(c, k)
    BY <1>1, TriedKeeps
  <2>3. Stream!Stream(1, Stream!FormatOrMark(c, given + 1, m))
    BY <1>3
  <2> HIDE DEF c, m
  <2> QED
    BY <2>1, <2>2, <2>3, NumberKeeps
<1> QED
  BY <1>2, <1>3

LEMMA VectorsKeep ==
  ASSUME Stream!StreamInv, kind # "none", NEW ns \in Vectors,
         Stream!Stream(Len(ns), Stream!AppendVector(buffer, given + 1, ns))
  PROVE  Stream!StreamInv'
<1> DEFINE b == Stream!AppendVector(buffer, given + 1, ns)
           n == Len(ns)
<1>1. given \in Nat /\ IsBuffer(buffer, given) /\ ns \in Seq(Lengths) /\ n \in Nat
  BY StreamState, StreamConstants, RunFields
<1>2. /\ IsBuffer(b, given + n) /\ \A k \in 1..given : Stream!Safe(buffer, k) => Stream!Safe(b, k)
      /\ \A k \in (given + 1)..(given + n) : Stream!Safe(b, k)
  BY <1>1, VectorKeeps
<1>3. Stream!Stream(n, b)
  OBVIOUS
<1> HIDE DEF b, n
<1> QED
  BY <1>1, <1>2, <1>3, StreamedKept

LEMMA WidthsKeep ==
  ASSUME Stream!StreamInv, kind # "none", NEW n \in Lengths,
         Stream!Stream(0, Stream!SetWidth(buffer, n))
  PROVE  Stream!StreamInv'
<1> DEFINE b == Stream!SetWidth(buffer, n)
<1>1. given \in Nat /\ IsBuffer(buffer, given) /\ given + 0 = given
  BY StreamState
<1>2. IsBuffer(b, given + 0) /\ \A k \in 1..given : Stream!Safe(buffer, k) => Stream!Safe(b, k)
  BY <1>1, WidthKeeps
<1>3. Stream!Stream(0, b)
  OBVIOUS
<1> HIDE DEF b
<1>4. \A k \in (given + 1)..(given + 0) : Stream!Safe(b, k)
  BY <1>1
<1> QED
  BY <1>2, <1>3, <1>4, StreamedKept

LEMMA ConstructKeeps ==
  ASSUME Stream!StreamInv, NEW k \in Stream!Kinds, Stream!Construct(k)
  PROVE  Stream!StreamInv'
<1>1. /\ kind' = k /\ m_active' \in BOOLEAN /\ m_submitted' = FALSE
      /\ buffer' = Stream!Empty /\ given' = 0 /\ entries' = <<>>
  BY DEF Stream!Construct
<1>2. IsBuffer(Stream!Empty, 0)
  <2>1. Stream!Empty.pos = 0 /\ Stream!Empty.text = <<>> /\ Stream!Empty.width = 0
    BY DEF Stream!Empty
  <2>2. <<>> \in Seq(Stream!Runs)
    OBVIOUS
  <2>6. Len(<<>>) = 0 /\ 1..0 = {}
    OBVIOUS
  <2>3. Stream!TextSize(<<>>) = 0
    BY EmptyText
  <2>4. Stream!Rising(<<>>) /\ Stream!UpTo(<<>>, 0)
    BY <2>6 DEF Stream!Rising, Stream!UpTo
  <2>5. 0 \in 0..(BUF_LEN - 1)
    BY StreamConstants
  <2> QED
    BY <2>1, <2>2, <2>3, <2>4, <2>5 DEF IsBuffer
<1>3. Ordered2(<<>>) /\ AllUpTo(<<>>, 0) /\ <<>> \in Seq(Seq(Stream!Runs))
  BY DEF Ordered2, AllUpTo
<1>4. 0 \in Nat /\ 0 <= MaxPieces /\ 1..0 = {}
  BY StreamConstants
<1>5. /\ m_active' /\ ~m_submitted' => \A j \in 1..given' : Stream!Safe(buffer', j)
      /\ kind' # "none"
  BY <1>1, <1>4 DEF Stream!Kinds
<1>6. IsBuffer(buffer', given') /\ Ordered2(entries') /\ AllUpTo(entries', given')
  BY <1>1, <1>2, <1>3
<1>7. given' \in Nat /\ given' <= MaxPieces /\ entries' \in Seq(Seq(Stream!Runs))
  BY <1>1, <1>3, <1>4
<1> QED
  BY <1>1, <1>5, <1>6, <1>7, StreamStateNext

(* Entries whose pieces are newer than those of all entries before.        *)
LEMMA EntryAdded ==
  ASSUME NEW es \in Seq(Seq(Stream!Runs)), NEW g \in Nat, NEW h \in Nat, g <= h,
         Ordered2(es), AllUpTo(es, g), NEW q \in Seq(Stream!Runs),
         Stream!Rising(q), Stream!UpTo(q, h),
         es = <<>> \/ \A i \in 1..Len(q) : q[i].of > g
  PROVE  LET fs == Append(es, q)
         IN  fs \in Seq(Seq(Stream!Runs)) /\ Ordered2(fs) /\ AllUpTo(fs, h)
<1> DEFINE fs == Append(es, q)
           n == Len(es)
<1>1. /\ fs \in Seq(Seq(Stream!Runs)) /\ n \in Nat /\ Len(fs) = n + 1 /\ fs[n + 1] = q
      /\ \A x \in 1..n : fs[x] = es[x]
  BY AppendFields
<1> HIDE DEF fs
<1>2. AllUpTo(es, h)
  BY LaterEntries
<1>3. \A x \in 1..Len(fs) : (x \in 1..n /\ fs[x] = es[x]) \/ (x = n + 1 /\ fs[x] = q)
  BY <1>1
<1>4. AllUpTo(fs, h)
  BY <1>2, <1>3 DEF AllUpTo
<1>5. \A x \in 1..Len(fs) : Stream!Rising(fs[x])
  BY <1>3 DEF Ordered2
<1>6. ASSUME NEW x \in 1..Len(fs), NEW y \in 1..Len(fs), x < y,
             NEW i \in 1..Len(fs[x]), NEW j \in 1..Len(fs[y]), fs[x][i].of # 0, fs[y][j].of # 0
      PROVE  fs[x][i].of < fs[y][j].of
  <2>1. x \in 1..n /\ fs[x] = es[x]
    BY SMTT(30), <1>1, <1>3, <1>6
  <2>2. CASE y \in 1..n
    <3>1. fs[y] = es[y]
      BY <1>1, <2>2
    <3> QED
      BY <1>6, <2>1, <2>2, <3>1 DEF Ordered2
  <2>3. CASE y = n + 1
    <3>1. fs[y] = q /\ es # <<>>
      BY <1>1, <2>1, <2>3
    <3>2. fs[y][j].of > g
      BY <1>6, <3>1
    <3>3. es[x][i].of <= g
      BY <1>6, <2>1 DEF AllUpTo, Stream!UpTo
    <3>4. es[x] \in Seq(Stream!Runs)
      BY <2>1, RunFields
    <3>5. es[x][i] \in Stream!Runs /\ q[j] \in Stream!Runs
      BY <1>6, <2>1, <3>1, <3>4, RunFields
    <3>6. es[x][i].of \in Nat /\ q[j].of \in Nat
      BY <3>5 DEF Stream!Runs
    <3> QED
      BY SMTT(30), <2>1, <3>1, <3>2, <3>3, <3>6
  <2> QED
    BY <1>1, <2>2, <2>3
<1>7. Ordered2(fs)
  BY <1>5, <1>6 DEF Ordered2
<1> QED
  BY <1>1, <1>4, <1>7 DEF fs

LEMMA SubmitKeeps ==
  ASSUME Stream!StreamInv, NEW k \in {"rt", "named"}, Stream!Submit(k)
  PROVE  Stream!StreamInv'
<1> DEFINE q == <<Stream!Run(given + 1, 1, TRUE)>>
           h == given + 1
<1>1. /\ kind = k /\ given' = h /\ given < MaxPieces /\ kind' = kind
      /\ m_active' = m_active /\ buffer' = buffer
      /\ m_active => m_submitted' = TRUE /\ entries' = Append(entries, q)
      /\ ~m_active => m_submitted' = m_submitted /\ entries' = entries
  BY DEF Stream!Submit
<1>2. /\ given \in Nat /\ IsBuffer(buffer, given) /\ kind \in Stream!Kinds \union {"none"}
      /\ m_active \in BOOLEAN /\ m_submitted \in BOOLEAN
      /\ entries \in Seq(Seq(Stream!Runs)) /\ Ordered2(entries) /\ AllUpTo(entries, given)
      /\ kind # "none" /\ ~m_submitted => entries = <<>>
      /\ kind = "cont" => ~m_submitted
  BY StreamState
<1>3. h \in Nat /\ given <= h /\ h <= MaxPieces
  BY <1>1, <1>2, StreamConstants
<1>4. IsBuffer(buffer, h) /\ AllUpTo(entries, h)
  BY <1>2, <1>3, Later, LaterEntries
<1>5. /\ q \in Seq(Stream!Runs) /\ Stream!Rising(q) /\ Stream!UpTo(q, h)
      /\ \A i \in 1..Len(q) : q[i].of > given
  <2> DEFINE r == Stream!Run(h, 1, TRUE)
  <2>1. r \in Stream!Runs /\ r.of = h
    BY <1>3 DEF Stream!Run, Stream!Runs
  <2> HIDE DEF r
  <2>2. <<r>> \in Seq(Stream!Runs) /\ \A i \in 1..Len(<<r>>) : i = 1 /\ <<r>>[i] = r
    BY <2>1
  <2>3. Stream!Rising(<<r>>)
    BY <2>2 DEF Stream!Rising
  <2>4. Stream!UpTo(<<r>>, h) /\ \A i \in 1..Len(<<r>>) : <<r>>[i].of > given
    BY <1>2, <2>1, <2>2 DEF Stream!UpTo
  <2> QED
    BY <2>2, <2>3, <2>4 DEF r
<1> HIDE DEF q, h
<1>6. entries' \in Seq(Seq(Stream!Runs)) /\ Ordered2(entries') /\ AllUpTo(entries', h)
  <2>1. CASE m_active
    <3>1. LET fs == Append(entries, q)
          IN  fs \in Seq(Seq(Stream!Runs)) /\ Ordered2(fs) /\ AllUpTo(fs, h)
      BY <1>2, <1>3, <1>5, EntryAdded
    <3> QED
      BY <1>1, <2>1, <3>1
  <2>2. CASE ~m_active
    BY <1>1, <1>2, <1>4, <2>2
  <2> QED
    BY <2>1, <2>2
<1>7. m_active' /\ ~m_submitted' => \A j \in 1..given' : Stream!Safe(buffer', j)
  BY <1>1
<1>8. m_submitted' \in BOOLEAN /\ m_active' \in BOOLEAN /\ kind' \in Stream!Kinds \union {"none"}
  BY <1>1, <1>2
<1>9. kind' # "none" /\ ~m_submitted' => entries' = <<>>
  BY <1>1, <1>2
<1>10. kind' # "cont" /\ kind' # "none"
  BY <1>1
<1>11. IsBuffer(buffer', given') /\ AllUpTo(entries', given') /\ given' \in Nat /\ given' <= MaxPieces
  BY <1>1, <1>3, <1>4, <1>6
<1> QED
  BY <1>6, <1>7, <1>8, <1>9, <1>10, <1>11, StreamStateNext

LEMMA AppendToEmpty == \A r : Append(<<>>, r) = <<r>>
OBVIOUS

(* What the destructor submits is the only entry of its statement.         *)
LEMMA DestroyKeeps ==
  ASSUME Stream!StreamInv, NEW k \in Stream!Kinds, NEW submits, Stream!Destroy(k, submits),
         submits <=> m_active /\ ~m_submitted /\ buffer.pos > 0
  PROVE  Stream!StreamInv'
<1> DEFINE q == buffer.text
<1>1. /\ kind = k /\ kind' = "none" /\ given' = given /\ buffer' = buffer
      /\ m_active' = m_active /\ m_submitted' = m_submitted
      /\ entries' = IF submits THEN Append(entries, q) ELSE entries
  BY DEF Stream!Destroy
<1>2. /\ given \in Nat /\ given <= MaxPieces /\ IsBuffer(buffer, given)
      /\ m_active \in BOOLEAN /\ m_submitted \in BOOLEAN
      /\ entries \in Seq(Seq(Stream!Runs)) /\ Ordered2(entries) /\ AllUpTo(entries, given)
      /\ kind # "none" /\ ~m_submitted => entries = <<>>
      /\ m_active /\ ~m_submitted => \A j \in 1..given : Stream!Safe(buffer, j)
  BY StreamState
<1>3. k # "none"
  BY DEF Stream!Kinds
<1>4. entries' \in Seq(Seq(Stream!Runs)) /\ Ordered2(entries') /\ AllUpTo(entries', given)
  <2>1. CASE submits
    <3>1. entries = <<>>
      BY <1>1, <1>2, <1>3, <2>1
    <3>2. q \in Seq(Stream!Runs) /\ Stream!Rising(q) /\ Stream!UpTo(q, given)
      BY <1>2 DEF IsBuffer
    <3> HIDE DEF q
    <3>3. given <= given
      BY <1>2
    <3>4. LET fs == Append(entries, q)
          IN  fs \in Seq(Seq(Stream!Runs)) /\ Ordered2(fs) /\ AllUpTo(fs, given)
      BY <1>2, <3>1, <3>2, <3>3, EntryAdded
    <3> QED
      BY <1>1, <2>1, <3>4
  <2>2. CASE ~submits
    BY <1>1, <1>2, <2>2
  <2> QED
    BY <2>1, <2>2
<1>5. kind' = "none" /\ kind' \in Stream!Kinds \union {"none"}
  BY <1>1
<1>6. IsBuffer(buffer', given') /\ AllUpTo(entries', given') /\ given' \in Nat /\ given' <= MaxPieces
  BY <1>1, <1>2, <1>4
<1>7. /\ m_submitted' \in BOOLEAN /\ m_active' \in BOOLEAN
      /\ m_active' /\ ~m_submitted' => \A j \in 1..given' : Stream!Safe(buffer', j)
  BY <1>1, <1>2
<1>8. m_active' /\ ~m_submitted' => entries' = Stream!Submitted(buffer')
  <2> SUFFICES ASSUME m_active, ~m_submitted PROVE entries' = Stream!Submitted(buffer)
    BY <1>1
  <2>1. entries = <<>>
    BY <1>1, <1>2, <1>3
  <2>2. CASE buffer.pos > 0
    <3>1. entries' = Append(<<>>, q)
      BY <1>1, <2>1, <2>2
    <3>2. Append(<<>>, q) = <<q>>
      BY AppendToEmpty
    <3> QED
      BY <2>2, <3>1, <3>2 DEF Stream!Submitted
  <2>3. CASE ~(buffer.pos > 0)
    BY <1>1, <2>1, <2>3 DEF Stream!Submitted
  <2> QED
    BY <2>2, <2>3
<1> QED
  BY <1>4, <1>5, <1>6, <1>7, <1>8, StreamStateNext

LEMMA StreamInitInv == Stream!Init => Stream!StreamInv
<1> SUFFICES ASSUME Stream!Init PROVE Stream!StreamInv
  OBVIOUS
<1>1. /\ kind = "none" /\ m_active = FALSE /\ m_submitted = FALSE
      /\ buffer = Stream!Empty /\ given = 0 /\ entries = <<>>
  BY DEF Stream!Init
<1>2. buffer.pos = 0 /\ buffer.text = <<>> /\ buffer.width = 0
  BY <1>1 DEF Stream!Empty
<1>3. Len(<<>>) = 0 /\ 1..0 = {}
  OBVIOUS
<1>4. <<>> \in Seq(Stream!Runs) /\ <<>> \in Seq(Seq(Stream!Runs))
  OBVIOUS
<1>5. Stream!TextSize(<<>>) = 0
  BY EmptyText
<1>6. Stream!StreamTypeOK
  <2>1. buffer.pos = Stream!TextSize(buffer.text)
    BY <1>2, <1>5
  <2>2. buffer.pos \in 0..(BUF_LEN - 1) /\ buffer.width \in {0} \union Lengths
    BY <1>2, StreamConstants
  <2>3. given \in 0..MaxPieces
    BY <1>1, StreamConstants
  <2> QED
    BY <1>1, <2>1, <2>2, <2>3 DEF Stream!StreamTypeOK
<1>7. Stream!LossIsMarked
  BY <1>1 DEF Stream!LossIsMarked
<1>8. Stream!EachPieceOnce
  BY <1>1, <1>3 DEF Stream!EachPieceOnce
<1>9. Stream!Rising(<<>>) /\ Stream!UpTo(<<>>, 0)
  BY <1>3 DEF Stream!Rising, Stream!UpTo
<1>10. \A x \in 1..Len(entries) : Stream!UpTo(entries[x], given)
  BY <1>1, <1>3
<1>11. m_active /\ ~m_submitted => FALSE
  BY <1>1
<1> QED
  BY <1>1, <1>2, <1>4, <1>6, <1>7, <1>8, <1>9, <1>10, <1>11 DEF Stream!StreamInv

LEMMA StreamStutters == Stream!StreamInv /\ UNCHANGED streamVars => Stream!StreamInv'
<1> SUFFICES ASSUME Stream!StreamInv, UNCHANGED streamVars PROVE Stream!StreamInv'
  OBVIOUS
<1>1. /\ kind' = kind /\ m_active' = m_active /\ m_submitted' = m_submitted
      /\ buffer' = buffer /\ given' = given /\ entries' = entries
  BY DEF streamVars
<1> QED
  BY <1>1, StreamState, StreamStateNext

LEMMA StreamsKeep ==
  ASSUME Stream!StreamInv, NEW k \in Stream!Kinds,
         \/ Stream!StreamString(k) \/ Stream!StreamChar(k) \/ Stream!StreamNumber(k)
         \/ Stream!StreamVector(k) \/ Stream!StreamWidth(k)
  PROVE  Stream!StreamInv'
<1>0. k # "none"
  BY DEF Stream!Kinds
<1>1. CASE Stream!StreamString(k)
  BY <1>0, <1>1, StringKeeps DEF Stream!StreamString
<1>2. CASE Stream!StreamChar(k)
  BY <1>0, <1>2, CharKeeps DEF Stream!StreamChar
<1>3. CASE Stream!StreamNumber(k)
  BY <1>0, <1>3, NumbersKeep DEF Stream!StreamNumber
<1>4. CASE Stream!StreamVector(k)
  BY <1>0, <1>4, VectorsKeep DEF Stream!StreamVector
<1>5. CASE Stream!StreamWidth(k)
  BY <1>0, <1>5, WidthsKeep DEF Stream!StreamWidth
<1> QED
  BY <1>1, <1>2, <1>3, <1>4, <1>5

(* What the streams hold and submit, for any buffer and any pieces.        *)
THEOREM StreamInvariant == Spec => []Stream!StreamInv
<1>1. Init => Stream!StreamInv
  BY StreamInitInv DEF Init
<1>2. Stream!StreamInv /\ [Next]_vars => Stream!StreamInv'
  <2> SUFFICES ASSUME Stream!StreamInv, [Next]_vars PROVE Stream!StreamInv'
    OBVIOUS
  <2>0. /\ "rt" \in Stream!Kinds /\ "named" \in Stream!Kinds /\ "cont" \in Stream!Kinds
        /\ "rt" \in {"rt", "named"} /\ "named" \in {"rt", "named"} /\ "cont" # "none"
    BY DEF Stream!Kinds
  <2>1. Stream!Next \/ UNCHANGED streamVars
    BY DEF Next, StreamStep, SinkStep, TuiStep, McapStep, vars
  <2>2. CASE Stream!ConstructRt \/ Stream!ConstructNamed \/ Stream!ConstructCont
    BY <2>0, <2>2, ConstructKeeps
       DEF Stream!ConstructRt, Stream!ConstructNamed, Stream!ConstructCont
  <2>3. CASE Stream!StreamRt
    BY <2>0, <2>3, StreamsKeep DEF Stream!StreamRt
  <2>4. CASE Stream!StreamNamed
    BY <2>0, <2>4, StreamsKeep DEF Stream!StreamNamed
  <2>5. CASE Stream!StreamCont
    BY <2>0, <2>5, StreamsKeep DEF Stream!StreamCont
  <2>6. CASE Stream!PrintfRt \/ Stream!PrintfNamed
    BY <2>0, <2>6, SubmitKeeps DEF Stream!PrintfRt, Stream!PrintfNamed
  <2>7. CASE Stream!PrintfCont
    BY <2>0, <2>7, StringKeeps DEF Stream!PrintfCont
  <2>8. CASE Stream!DestroyRt
    BY <2>0, <2>8, DestroyKeeps DEF Stream!DestroyRt
  <2>9. CASE Stream!DestroyNamed
    BY <2>0, <2>9, DestroyKeeps DEF Stream!DestroyNamed
  <2>10. CASE Stream!DestroyCont
    <3>1. kind = "cont" /\ ~m_submitted
      BY <2>10, StreamState DEF Stream!DestroyCont, Stream!Destroy
    <3> QED
      BY <2>0, <2>10, <3>1, DestroyKeeps DEF Stream!DestroyCont
  <2> QED
    BY <2>1, <2>2, <2>3, <2>4, <2>5, <2>6, <2>7, <2>8, <2>9, <2>10, StreamStutters
       DEF Stream!Next
<1> QED
  BY <1>1, <1>2, PTL DEF Spec

(* operator<<, printf and the destructors of the log streams, for any      *)
(* length of the buffer and any pieces: pieces get out in order, each in   *)
(* one entry, and a statement without printf and format of LOG and         *)
(* LOG_NAMED submits every piece or its mark.                              *)
THEOREM LossesAreMarked == Spec => []LossIsMarked
<1>1. Stream!StreamInv => LossIsMarked
  BY DEF Stream!StreamInv, LossIsMarked
<1> QED
  BY <1>1, StreamInvariant, PTL

(* No buffer is overrun by what is put into it, whatever its length and    *)
(* the lengths of what is put: AppendChar, AppendData and FormatElement.   *)
THEOREM TypesCorrect == Spec => []TypeOK
<1>1. Stream!StreamInv => Stream!StreamTypeOK
  BY DEF Stream!StreamInv
<1>2. Sink!SinkInv => Sink!SinkTypeOK
  BY DEF Sink!SinkInv
<1>3. Tui!OutputInv => Tui!OutputTypeOK
  BY DEF Tui!OutputInv
<1>4. Mcap!McapInv => Mcap!McapTypeOK
  BY DEF Mcap!McapInv
<1>5. Stream!StreamInv /\ Sink!SinkInv /\ Tui!OutputInv /\ Mcap!McapInv => TypeOK
  BY <1>1, <1>2, <1>3, <1>4 DEF TypeOK
<1> QED
  BY <1>5, StreamInvariant, StdoutInvariant, TuiOutputInvariant, McapInvariant, PTL

=============================================================================
