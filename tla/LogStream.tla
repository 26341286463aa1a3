------------------------------ MODULE LogStream ------------------------------
(***************************************************************************)
(* The streams behind LOG, LOG_NAMED and LOG_CONT.  A stream lives for one *)
(* statement: it collects what is streamed into a buffer of BUF_LEN bytes  *)
(* and its destructor submits the text as one entry.  printf and format of *)
(* the first two kinds submit an entry of their own.                       *)
(*                                                                         *)
(* Pieces are what is streamed: strings, characters, numbers, the elements *)
(* of vectors and printf's output of a LOG_CONT.  They are numbered in the *)
(* order of the statement.                                                 *)
(***************************************************************************)
EXTENDS Sequences, Naturals

(* BUF_LEN is QueueType::MsgLen(), Lengths those of strings, numbers and   *)
(* setw, a member of Vectors the lengths of its numbers; MaxPieces bounds  *)
(* the pieces of a statement.                                              *)
CONSTANTS BUF_LEN, Lengths, Vectors, MaxPieces

LogStreamAssumption ==
  /\ BUF_LEN \in Nat \ {0} /\ MaxPieces \in Nat
  /\ Lengths \subseteq Nat \ {0} /\ Vectors \subseteq Seq(Lengths)

VARIABLES
  kind,          (* the kind of the stream, "none" between statements      *)
  m_active,
  m_submitted,
  buffer,        (* m_pos, m_buf as runs of bytes and m_width              *)
  given,         (* history: the number of pieces streamed                 *)
  entries        (* history: what the statement has submitted              *)

vars == <<kind, m_active, m_submitted, buffer, given, entries>>

Kinds == {"rt", "named", "cont"}

(* A run of bytes: the piece it is of, or 0 for "..." and punctuation.     *)
Run(k, n, whole) == [of |-> k, size |-> n, whole |-> whole]
Empty == [pos |-> 0, text |-> <<>>, width |-> 0]
Put(b, r) == [pos |-> b.pos + r.size, text |-> Append(b.text, r), width |-> b.width]
SetWidth(b, n) == [pos |-> b.pos, text |-> b.text, width |-> n]

(* Between two statements.                                                 *)
Init ==
  /\ kind = "none" /\ m_active = FALSE /\ m_submitted = FALSE
  /\ buffer = Empty /\ given = 0 /\ entries = <<>>

(***************************************************************************)
(* The helpers, which every kind of stream has.                            *)
(***************************************************************************)
Copied(b, n) == IF n < BUF_LEN - 1 - b.pos THEN n ELSE BUF_LEN - 1 - b.pos
AppendText(b, k, n) == Put(b, Run(k, Copied(b, n), Copied(b, n) = n))

AppendChar(b, k) == IF b.pos + 1 < BUF_LEN THEN Put(b, Run(k, 1, TRUE)) ELSE b

Mark == Run(0, 3, TRUE)
AddTruncation(b) == IF b.pos + 3 < BUF_LEN THEN Put(b, Mark) ELSE b

(* FormatElement wants room for 10 bytes before it tries.                  *)
Fits(b, n) == b.pos + 10 < BUF_LEN /\ n < BUF_LEN - b.pos

(* setw holds for the next integer that is tried.                          *)
IntLength(b, n) == IF n < b.width THEN b.width ELSE n
Tried(b) == IF b.pos + 10 < BUF_LEN THEN SetWidth(b, 0) ELSE b

(* Mutant: An element that does not fit is left out.                       *)
FormatOrSkip(b, k, n) == IF Fits(b, n) THEN Put(b, Run(k, n, TRUE)) ELSE b

FormatOrMark(b, k, n) ==
  IF Fits(b, n) THEN Put(b, Run(k, n, TRUE)) ELSE AddTruncation(b)

(* operator<< of a vector: the loop ends at the first element or separator *)
(* that does not fit, the bracket is closed all the same.                  *)
Acc(b, going) == [b |-> b, going |-> going]
Element(acc, k, n, last) ==
  LET length == IntLength(acc.b, n)
      next   == FormatOrMark(Tried(acc.b), k, length)
      goes   == Fits(acc.b, length) /\ ~last /\ next.pos + 2 < BUF_LEN
  IN  IF acc.going THEN Acc(IF goes THEN Put(next, Run(0, 2, TRUE)) ELSE next, goes) ELSE acc
Elements(b, k, ns) ==
  LET acc[i \in 0..Len(ns)] ==
        IF i = 0 THEN Acc(Put(b, Run(0, 1, TRUE)), TRUE)
        ELSE Element(acc[i - 1], k + i - 1, ns[i], i = Len(ns))
  IN  acc[Len(ns)].b
AppendVector(b, k, ns) ==
  IF b.pos + 1 >= BUF_LEN THEN b ELSE AppendChar(Elements(b, k, ns), 0)

(***************************************************************************)
(* A statement: constructor, operator<<, printf, format and destructor.    *)
(***************************************************************************)
(* m_active: RtLog is initialized and the level is enabled.                *)
Construct(k) ==
  /\ kind = "none"
  /\ kind' = k /\ m_active' \in BOOLEAN /\ m_submitted' = FALSE
  /\ buffer' = Empty /\ given' = 0 /\ entries' = <<>>

ConstructRt    == Construct("rt")
ConstructNamed == Construct("named")
ConstructCont  == Construct("cont")

(* Nothing happens to a stream that is not active.                         *)
Stream(count, b) ==
  /\ given + count <= MaxPieces
  /\ given' = given + count
  /\ buffer' = IF m_active THEN b ELSE buffer
  /\ UNCHANGED <<kind, m_active, m_submitted, entries>>

StreamString(k) == kind = k /\ \E n \in Lengths : Stream(1, AppendText(buffer, given + 1, n))
StreamChar(k)   == kind = k /\ Stream(1, AppendChar(buffer, given + 1))
StreamNumber(k) ==
  /\ kind = k
  /\ \E n \in Lengths :
       \/ Stream(1, FormatOrMark(buffer, given + 1, n))
       \/ Stream(1, FormatOrMark(Tried(buffer), given + 1, IntLength(buffer, n)))
StreamVector(k) == kind = k /\ \E ns \in Vectors : Stream(Len(ns), AppendVector(buffer, given + 1, ns))
StreamWidth(k)  == kind = k /\ \E n \in Lengths : Stream(0, SetWidth(buffer, n))

StreamRt ==
  StreamString("rt") \/ StreamChar("rt") \/ StreamNumber("rt") \/ StreamVector("rt") \/ StreamWidth("rt")
StreamNamed ==
  \/ StreamString("named") \/ StreamChar("named") \/ StreamNumber("named")
  \/ StreamVector("named") \/ StreamWidth("named")
StreamCont ==
  \/ StreamString("cont") \/ StreamChar("cont") \/ StreamNumber("cont")
  \/ StreamVector("cont") \/ StreamWidth("cont")

(* printf and format of a log or named log submit an entry at once.        *)
Submit(k) ==
  /\ kind = k /\ given < MaxPieces
  /\ given' = given + 1
  /\ IF m_active
     THEN /\ m_submitted' = TRUE
          /\ entries' = Append(entries, <<Run(given + 1, 1, TRUE)>>)
     ELSE UNCHANGED <<m_submitted, entries>>
  /\ UNCHANGED <<kind, m_active, buffer>>

PrintfRt    == Submit("rt")
PrintfNamed == Submit("named")

(* printf of a LOG_CONT: vsnprintf keeps what fits before the zero.        *)
PrintfCont == kind = "cont" /\ \E n \in Lengths : Stream(1, AppendText(buffer, given + 1, n))

Destroy(k, submits) ==
  /\ kind = k
  /\ kind' = "none"
  /\ entries' = IF submits THEN Append(entries, buffer.text) ELSE entries
  /\ UNCHANGED <<m_active, m_submitted, buffer, given>>

DestroyRt    == Destroy("rt", m_active /\ ~m_submitted /\ buffer.pos > 0)
DestroyNamed == Destroy("named", m_active /\ ~m_submitted /\ buffer.pos > 0)
DestroyCont  == Destroy("cont", m_active /\ buffer.pos > 0)

Next ==
  \/ ConstructRt \/ ConstructNamed \/ ConstructCont
  \/ StreamRt \/ StreamNamed \/ StreamCont
  \/ PrintfRt \/ PrintfNamed \/ PrintfCont
  \/ DestroyRt \/ DestroyNamed \/ DestroyCont

Spec == Init /\ [][Next]_vars
=============================================================================
