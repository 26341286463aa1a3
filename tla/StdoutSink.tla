----------------------------- MODULE StdoutSink -----------------------------
(***************************************************************************)
(* ColorStdoutSinkT: a sink that formats into a buffer and writes it to a  *)
(* terminal that may be slow.  A log message is appended in five parts     *)
(* when it is coloured, in one otherwise.  A write takes what the terminal *)
(* has room for; what is left stays in the buffer, and when there is no    *)
(* room for a message the oldest bytes go.                                 *)
(*                                                                         *)
(* The bytes of all messages are numbered in their order.                  *)
(***************************************************************************)
EXTENDS Naturals, Sequences

CONSTANTS
  INTERNAL_BUF_SIZE,
  PartLengths,        (* the lengths of the parts of a message             *)
  MaxBytes            (* bound on the bytes of all messages                *)

StdoutSinkAssumption ==
  /\ INTERNAL_BUF_SIZE \in Nat \ {0} /\ MaxBytes \in Nat
  /\ PartLengths \subseteq Nat \ {0}

VARIABLES
  m_buf,       (* what m_buf holds up to m_pos                             *)
  m_stdout_fd, (* "private", "stdout" when it could not be opened, "closed"*)
  todo,        (* the parts of the message that are still to be appended   *)
  appended,    (* history: the number of bytes appended so far             *)
  cut,         (* history: the bytes that were never put into m_buf        *)
  out          (* the bytes the terminal has got                           *)

vars == <<m_buf, m_stdout_fd, todo, appended, cut, out>>

Bytes(from, to) == [i \in 1..(to - from + 1) |-> from + i - 1]

Init ==
  /\ m_buf = <<>> /\ m_stdout_fd \in {"private", "stdout"}
  /\ todo = <<>> /\ appended = 0 /\ cut = {} /\ out = <<>>

(* FlushBuffer: the writes take the first n bytes.                         *)
Written(n) == SubSeq(m_buf, 1, n)

(* Mutant: The unwritten bytes are not moved to the front.                 *)
KeptInPlace(n) == SubSeq(m_buf, 1, Len(m_buf) - n)

Kept(n) == SubSeq(m_buf, n + 1, Len(m_buf))

FlushBuffer ==
  /\ m_stdout_fd # "closed" /\ todo = <<>> /\ m_buf # <<>>
  /\ \E n \in 0..Len(m_buf) : out' = out \o Written(n) /\ m_buf' = Kept(n)
  /\ UNCHANGED <<m_stdout_fd, todo, appended, cut>>

(* sink_it_: with a colour in the pattern, text, colour, text, reset, text.*)
sink_it_ ==
  /\ m_stdout_fd # "closed" /\ todo = <<>>
  /\ \E n \in PartLengths : todo' \in {<<n>>, <<1, 1, n, 1, n>>}
  /\ UNCHANGED <<m_buf, m_stdout_fd, appended, cut, out>>

(* Of a part that is as long as the buffer, only the tail is kept.         *)
Start(n) == IF n >= INTERNAL_BUF_SIZE THEN n - INTERNAL_BUF_SIZE + 2 ELSE 1

(* Mutant: No room is made for what is appended.                           *)
NothingDiscarded(kept, data) == kept

(* The oldest bytes go when the flush has not made enough room.            *)
Discard(kept, data) ==
  LET over == Len(kept) + Len(data) - INTERNAL_BUF_SIZE
  IN  IF Len(kept) + Len(data) > INTERNAL_BUF_SIZE
      THEN SubSeq(kept, over + 1, Len(kept)) ELSE kept

AppendData ==
  /\ todo # <<>> /\ appended + Head(todo) <= MaxBytes
  /\ LET data == Bytes(appended + Start(Head(todo)), appended + Head(todo))
     IN  IF Len(m_buf) + Len(data) > INTERNAL_BUF_SIZE
         THEN \E n \in 0..Len(m_buf) :
                /\ out' = out \o Written(n)
                /\ m_buf' = Discard(Kept(n), data) \o data
         ELSE m_buf' = m_buf \o data /\ UNCHANGED out
  /\ cut' = cut \union (appended + 1)..(appended + Start(Head(todo)) - 1)
  /\ appended' = appended + Head(todo) /\ todo' = Tail(todo)
  /\ UNCHANGED m_stdout_fd

(* The destructor writes to a terminal that blocks: everything is taken,   *)
(* unless the write fails.                                                 *)
Destroy ==
  /\ m_stdout_fd # "closed" /\ todo = <<>>
  /\ \E n \in 0..Len(m_buf) : out' = out \o Written(n) /\ m_buf' = Kept(n)
  /\ m_stdout_fd' = "closed"
  /\ UNCHANGED <<todo, appended, cut>>

Next == FlushBuffer \/ sink_it_ \/ AppendData \/ Destroy

Spec == Init /\ [][Next]_vars
-----------------------------------------------------------------------------
(* Every variable has its type; the buffer is never overrun.               *)
SinkTypeOK ==
  /\ m_stdout_fd \in {"private", "stdout", "closed"}
  /\ todo \in Seq(PartLengths \union {1}) /\ appended \in 0..MaxBytes
  /\ cut \subseteq 1..appended
  /\ Len(m_buf) <= INTERNAL_BUF_SIZE /\ Len(out) <= MaxBytes

(* The buffer holds the newest bytes, however slow the terminal is: every  *)
(* byte that was put into it since the oldest it holds is there, in order; *)
(* and the terminal gets each byte once, in order and none that is newer.  *)
InOrder(q) == \A i, j \in 1..Len(q) : i < j => q[i] < q[j]
NewestBytesKept ==
  /\ m_buf # <<>> => {m_buf[i] : i \in 1..Len(m_buf)} = (m_buf[1]..appended) \ cut
  /\ InOrder(out \o m_buf)

(* The invariant that is inductive: what got out is in order and older     *)
(* than what the buffer holds.                                             *)
SinkInv ==
  /\ SinkTypeOK /\ m_buf \in Seq(1..appended) /\ out \in Seq(1..appended)
  /\ InOrder(out) /\ InOrder(m_buf)
  /\ \A i \in 1..Len(out), j \in 1..Len(m_buf) : out[i] < m_buf[j]
  /\ m_buf # <<>> => {m_buf[i] : i \in 1..Len(m_buf)} = (m_buf[1]..appended) \ cut
=============================================================================
