------------------------- MODULE LogStreamProperties -------------------------
(***************************************************************************)
(* What the streams should satisfy.                                        *)
(***************************************************************************)
EXTENDS LogStream

(* Every variable has its type: m_pos counts what is in m_buf and leaves   *)
(* room for the terminating zero.                                          *)
TextSize(q) ==
  LET upTo[n \in 0..Len(q)] == IF n = 0 THEN 0 ELSE upTo[n - 1] + q[n].size
  IN  upTo[Len(q)]
StreamTypeOK ==
  /\ kind \in Kinds \union {"none"} /\ m_active \in BOOLEAN /\ m_submitted \in BOOLEAN
  /\ buffer.pos = TextSize(buffer.text)
  /\ buffer.pos \in 0..(BUF_LEN - 1) /\ buffer.width \in {0} \union Lengths
  /\ given \in 0..MaxPieces

(* A loss can be seen: for a piece that was cut or left out a "..." stands *)
(* between the pieces before it and the pieces after it, or the text ends  *)
(* within three bytes of the end of the buffer.                            *)
Whole(q, k) == \E i \in 1..Len(q) : q[i].of = k /\ q[i].whole
Marked(q, k) ==
  \E i \in 1..Len(q) :
    /\ q[i] = Mark
    /\ \A j \in 1..Len(q) : j < i => q[j].of < k
    /\ \A j \in 1..Len(q) : j > i => q[j].of = 0 \/ q[j].of > k
Shown(q, k) == Whole(q, k) \/ Marked(q, k) \/ TextSize(q) + 3 >= BUF_LEN

(* What a statement without printf and format has collected is what its    *)
(* destructor submits, every piece or its mark in it.  With printf or      *)
(* format of LOG and LOG_NAMED (m_submitted) what is streamed is dropped,  *)
(* without a mark.                                                         *)
Text ==
  IF kind # "none" THEN buffer.text ELSE IF entries = <<>> THEN <<>> ELSE entries[1]
LossIsMarked == m_active /\ ~m_submitted => \A k \in 1..given : Shown(Text, k)

(* The pieces of a statement get out in their order, each in one entry.    *)
Rising(q) ==
  \A i, j \in 1..Len(q) : i < j /\ q[i].of # 0 /\ q[j].of # 0 => q[i].of < q[j].of
EachPieceOnce ==
  /\ \A x \in 1..Len(entries) : Rising(entries[x])
  /\ \A x, y \in 1..Len(entries) :
       \A i \in 1..Len(entries[x]), j \in 1..Len(entries[y]) :
         x < y /\ entries[x][i].of # 0 /\ entries[y][j].of # 0 =>
           entries[x][i].of < entries[y][j].of

(* The invariant that is inductive: the buffer holds pieces in order and   *)
(* is not empty when it holds one; a statement that has not submitted      *)
(* anything has no entry before its destructor and one text after it.      *)
Safe(b, k) ==
  (b.pos > 0 /\ (Whole(b.text, k) \/ Marked(b.text, k))) \/ b.pos + 3 >= BUF_LEN
Submitted(b) == IF b.pos > 0 THEN <<b.text>> ELSE <<>>
Runs == [of : Nat, size : Nat, whole : BOOLEAN]
UpTo(q, g) == \A i \in 1..Len(q) : q[i].of <= g
StreamInv ==
  /\ StreamTypeOK /\ LossIsMarked /\ EachPieceOnce
  /\ buffer.text \in Seq(Runs) /\ entries \in Seq(Seq(Runs))
  /\ Rising(buffer.text) /\ UpTo(buffer.text, given)
  /\ \A x \in 1..Len(entries) : UpTo(entries[x], given)
  /\ m_active /\ ~m_submitted => \A k \in 1..given : Safe(buffer, k)
  /\ kind # "none" /\ ~m_submitted => entries = <<>>
  /\ kind = "none" /\ m_active /\ ~m_submitted => entries = Submitted(buffer)
  /\ kind = "cont" => ~m_submitted
=============================================================================
