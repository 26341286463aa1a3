------------------------------- MODULE Outputs -------------------------------
(***************************************************************************)
(* The parts of dtCore that turn what they are given into bytes or files:  *)
(* the log streams, the stdout sink, the output of the TUI and the MCAP    *)
(* rotator.  Each is used by one thread and shares nothing with the        *)
(* others, so a behaviour of this module is a behaviour of one of them.    *)
(***************************************************************************)
EXTENDS Naturals, Sequences

CONSTANTS BUF_LEN, Lengths, Vectors, MaxPieces
VARIABLES kind, m_active, m_submitted, buffer, given, entries
Stream == INSTANCE LogStreamProperties

CONSTANTS INTERNAL_BUF_SIZE, PartLengths, MaxBytes
VARIABLES m_buf, m_stdout_fd, todo, appended, cut, out
Sink == INSTANCE StdoutSink

CONSTANTS OUT_BUF_SIZE, FrameParts, MaxFrameLen, MaxFrames
VARIABLES m_termActive, m_running, m_outBuf, frame, ticking, screen, failed
Tui == INSTANCE TuiOutput

CONSTANTS _max_file_size, _max_file_count, Sizes, MaxMessages, MaxFaults
VARIABLES disk, _current_file_size, published, faults
Mcap == INSTANCE McapRotator

ASSUME OutputsAssumption ==
  /\ Stream!LogStreamAssumption /\ Sink!StdoutSinkAssumption
  /\ Tui!TuiOutputAssumption /\ Mcap!McapRotatorAssumption

VARIABLE part      (* the part that is used                                *)

streamVars == <<kind, m_active, m_submitted, buffer, given, entries>>
sinkVars == <<m_buf, m_stdout_fd, todo, appended, cut, out>>
tuiVars == <<m_termActive, m_running, m_outBuf, frame, ticking, screen, failed>>
mcapVars == <<disk, _current_file_size, published, faults>>
vars == <<streamVars, sinkVars, tuiVars, mcapVars, part>>

Init ==
  /\ Stream!Init /\ Sink!Init /\ Tui!Init /\ Mcap!Init
  /\ part \in {"stream", "sink", "tui", "mcap"}

StreamStep == part = "stream" /\ Stream!Next /\ UNCHANGED <<sinkVars, tuiVars, mcapVars, part>>
SinkStep == part = "sink" /\ Sink!Next /\ UNCHANGED <<streamVars, tuiVars, mcapVars, part>>
TuiStep == part = "tui" /\ Tui!Next /\ UNCHANGED <<streamVars, sinkVars, mcapVars, part>>
McapStep == part = "mcap" /\ Mcap!Next /\ UNCHANGED <<streamVars, sinkVars, tuiVars, part>>

Next == StreamStep \/ SinkStep \/ TuiStep \/ McapStep

Spec == Init /\ [][Next]_vars
-----------------------------------------------------------------------------
(* The variables of every part have their types, and no buffer is overrun, *)
(* whatever the lengths of what is put into it.                            *)
TypeOK == Stream!StreamTypeOK /\ Sink!SinkTypeOK /\ Tui!OutputTypeOK /\ Mcap!McapTypeOK

(* operator<< of the log streams and their destructors: pieces get out in  *)
(* order and each once, and in a statement without printf and format every *)
(* piece gets out or is marked as cut or left out.                         *)
LossIsMarked == Stream!LossIsMarked /\ Stream!EachPieceOnce

(* AppendData and FlushBuffer of ColorStdoutSinkT: a slow terminal gets    *)
(* bytes in order, and the newest ones are kept for it.                    *)
NewestBytesKept == Sink!NewestBytesKept

(* AppendData, SafeSnprintf and FlushOutput of RtTui: a slow terminal gets *)
(* the bytes of the frames in order, and the newest frame without holes    *)
(* unless a part of it was cut off; nothing of an earlier frame, failed or *)
(* not, goes out behind the bytes of a new one.                            *)
ScreenInOrder == Tui!ScreenInOrder

(* Publish and Rotate of DataSinkPBMcapRotator: the files hold messages in *)
(* order, whatever failed, the newest ones without a gap when nothing did, *)
(* and the count of Publish bounds the payload of a file, not its size.    *)
MessagesKept == Mcap!MessagesInOrder /\ Mcap!NewestMessagesKept /\ Mcap!PayloadBounded
=============================================================================
