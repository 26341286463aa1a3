------------------------------ MODULE TuiOutput ------------------------------
(***************************************************************************)
(* The output buffer of RtTui.  A frame is put together from parts in      *)
(* m_outBuf and written to a terminal that may be slow or may fail; what   *)
(* the terminal does not take stays in the buffer until the next frame.    *)
(*                                                                         *)
(* A byte is the number of its frame, its place in the frame and whether   *)
(* it is of the text of the frame or the zero with which snprintf ends.    *)
(* The sequences of TermInit and TermRestore are frames of their own.      *)
(***************************************************************************)
EXTENDS Naturals, Sequences

CONSTANTS
  OUT_BUF_SIZE,
  FrameParts,         (* the lengths of the parts of a frame               *)
  MaxFrameLen,        (* bound on the bytes of a frame                     *)
  MaxFrames           (* bound on the frames                               *)

TuiOutputAssumption ==
  /\ OUT_BUF_SIZE \in Nat \ 0..3 /\ MaxFrameLen \in Nat /\ MaxFrames \in Nat
  /\ FrameParts \subseteq Nat \ {0}

VARIABLES
  m_termActive, m_running,
  m_outBuf,     (* the bytes up to m_outPos                                *)
  frame,        (* the frame being rendered: its number, its length and    *)
                (* whether a part of it was cut off                        *)
  ticking,      (* the drain thread is in Tick                             *)
  screen,       (* the bytes the terminal has got                          *)
  failed        (* history: a write has failed                             *)

vars == <<m_termActive, m_running, m_outBuf, frame, ticking, screen, failed>>

Init ==
  /\ m_termActive = FALSE /\ m_running = FALSE /\ m_outBuf = <<>>
  /\ frame = [no |-> 0, len |-> 0, cut |-> FALSE] /\ ticking = FALSE
  /\ screen = <<>> /\ failed = FALSE

(* A state of the output: the buffer, what got out, whether a write failed.*)
Output == [left |-> m_outBuf, out |-> <<>>, error |-> FALSE]
Becomes(o) ==
  /\ m_outBuf' = o.left /\ screen' = screen \o o.out /\ failed' = (failed \/ o.error)

(* Mutant: The bytes that stay are not moved to the front.                 *)
LeftInPlace(b, n, error) == SubSeq(b, 1, IF error THEN n ELSE Len(b) - n)

(* What stays when n bytes were taken: after an error m_outPos is n.       *)
Left(b, n, error) == IF error THEN SubSeq(b, 1, n) ELSE SubSeq(b, n + 1, Len(b))

(* FlushOutput: the writes take n bytes, then the terminal is full or the  *)
(* next write fails.                                                       *)
Flushed(o, n, error) ==
  [left  |-> Left(o.left, n, error), out |-> o.out \o SubSeq(o.left, 1, n),
   error |-> o.error \/ error]
FlushOutput(o) ==
  {Flushed(o, n, FALSE) : n \in 0..Len(o.left)}
  \union {Flushed(o, n, TRUE) : n \in 0..(Len(o.left) - 1)}

Room(o) == OUT_BUF_SIZE - Len(o.left)
Space(o, n) == IF n < Room(o) THEN n ELSE Room(o)

(* memcpy puts in what fits.                                               *)
Bytes(f, n) == [i \in 1..n |-> <<f.no, f.len + i, "text">>]
Copied(o, f, n) == [o EXCEPT !.left = @ \o Bytes(f, Space(o, n))]

(* snprintf ends with a zero, for which it cuts off a byte more: m_outPos  *)
(* counts the zero as well when the text fills the room.                   *)
Text(o, f, n) ==
  [i \in 1..Space(o, n) |->
     <<f.no, f.len + i, IF n >= Room(o) /\ i = Room(o) THEN "zero" ELSE "text">>]
Printed(o, f, n) == [o EXCEPT !.left = @ \o Text(o, f, n)]

(* A part of n bytes is added to the frame; it is cut off to the room.     *)
Grown(f, n, room) == [f EXCEPT !.len = @ + n, !.cut = @ \/ n > room]

(* The buffer is flushed when a part would fill it.                        *)
MakeRoom(o, n) == IF Len(o.left) + n >= OUT_BUF_SIZE THEN FlushOutput(o) ELSE {o}

AppendData ==
  /\ ticking
  /\ \E n \in {m \in FrameParts : frame.len + m <= MaxFrameLen} :
       \E o \in MakeRoom(Output, n) :
         Becomes(Copied(o, frame, n)) /\ frame' = Grown(frame, n, Room(o))
  /\ UNCHANGED <<m_termActive, m_running, ticking>>

SafeSnprintf ==
  /\ ticking
  /\ \E n \in {m \in FrameParts : frame.len + m <= MaxFrameLen} :
       Becomes(Printed(Output, frame, n)) /\ frame' = Grown(frame, n, Room(Output) - 1)
  /\ UNCHANGED <<m_termActive, m_running, ticking>>

NextFrame == [no |-> frame.no + 1, len |-> 0, cut |-> FALSE]

(* Init of the TUI: the cursor is hidden and the screen is cleared.        *)
TermInit ==
  /\ ~m_termActive /\ frame.no < MaxFrames
  /\ \E o \in MakeRoom(Output, 2) :
       /\ frame' = Grown(NextFrame, 2, Room(o))
       /\ \E p \in FlushOutput(Copied(o, NextFrame, 2)) : Becomes(p)
  /\ m_termActive' = TRUE /\ m_running' = TRUE /\ UNCHANGED ticking

(* Tick up to its rendering: after a resize or a switch of the layout the  *)
(* screen is cleared; what is left of earlier frames, of the clearing too, *)
(* is tried once more and then forgotten.                                  *)
TickBegin ==
  /\ m_running /\ ~ticking /\ frame.no + 2 <= MaxFrames
  /\ \E clear \in BOOLEAN :
       LET length  == IF clear THEN 1 ELSE 0
           before  == MakeRoom(Output, length)
           cleared == UNION {FlushOutput(Copied(o, NextFrame, length)) : o \in before}
       IN  /\ frame' = [NextFrame EXCEPT !.no = @ + length]
           /\ \E o \in (IF clear THEN cleared ELSE {Output}) : \E p \in FlushOutput(o) :
                Becomes([p EXCEPT !.left = <<>>])
  /\ ticking' = TRUE /\ UNCHANGED <<m_termActive, m_running>>

TickEnd ==
  /\ ticking
  /\ \E o \in FlushOutput(Output) : Becomes(o)
  /\ ticking' = FALSE /\ UNCHANGED <<m_termActive, m_running, frame>>

(* Stop: what is left is dropped and the cursor is shown on a clear screen.*)
(* The terminal blocks now: all is taken unless the write fails.           *)
TermRestore ==
  /\ frame' = NextFrame
  /\ \E o \in FlushOutput([Output EXCEPT !.left = Bytes(NextFrame, 4)]) :
       (o.error \/ o.left = <<>>) /\ Becomes(o)

Stop ==
  /\ ~ticking /\ frame.no < MaxFrames
  /\ m_running' = FALSE /\ m_termActive' = FALSE /\ UNCHANGED ticking
  /\ IF m_termActive THEN TermRestore ELSE UNCHANGED <<m_outBuf, frame, screen, failed>>

Next == AppendData \/ SafeSnprintf \/ TermInit \/ TickBegin \/ TickEnd \/ Stop

Spec == Init /\ [][Next]_vars
-----------------------------------------------------------------------------
(* Every variable has its type; the buffer is never overrun.               *)
OutputTypeOK ==
  /\ m_termActive \in BOOLEAN /\ m_running \in BOOLEAN /\ ticking \in BOOLEAN
  /\ failed \in BOOLEAN /\ frame.no \in 0..MaxFrames
  /\ Len(m_outBuf) <= OUT_BUF_SIZE /\ (m_running => m_termActive)

(* Up to the first failing write the terminal gets every byte once and in  *)
(* its order, however slow it is; of the newest frame the whole text is on *)
(* the screen or in the buffer, unless a part was cut off: a text of       *)
(* snprintf is whole only if room is left behind it.  Also after a write   *)
(* failed nothing of an earlier frame is left when a frame is put          *)
(* together, so that it cannot go out behind the new bytes.                *)
Before(a, b) == a[1] < b[1] \/ (a[1] = b[1] /\ a[2] < b[2])
ScreenInOrder ==
  LET all == screen \o m_outBuf
  IN  /\ ~failed =>
           /\ \A i, j \in DOMAIN all : i < j => Before(all[i], all[j])
           /\ ~frame.cut => \A k \in 1..frame.len :
                              \E i \in DOMAIN all : all[i] = <<frame.no, k, "text">>
      /\ ticking => \A i \in DOMAIN m_outBuf : m_outBuf[i][1] = frame.no

(* The invariant that is inductive: no byte is of a later frame, and when  *)
(* the terminal is not restored none is beyond what was put together of    *)
(* the newest frame.                                                       *)
OutputBytes == Nat \X Nat \X {"text", "zero"}
UpTo(s, f, tight) ==
  \A i \in DOMAIN s : s[i][1] <= f.no /\ (tight /\ s[i][1] = f.no => s[i][2] <= f.len)
OutputInv ==
  /\ OutputTypeOK /\ ScreenInOrder
  /\ frame \in [no : Nat, len : Nat, cut : BOOLEAN]
  /\ m_outBuf \in Seq(OutputBytes) /\ screen \in Seq(OutputBytes)
  /\ ticking => m_running
  /\ UpTo(screen, frame, m_termActive) /\ UpTo(m_outBuf, frame, m_termActive)
=============================================================================
