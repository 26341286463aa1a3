------------------------------ MODULE FileSink ------------------------------
(***************************************************************************)
(* BasicFileSinkT: the sink that writes the log to a file, through a       *)
(* buffer of its own, and rotates the file when it would get too large.    *)
(*                                                                         *)
(* The mutex of base_sink makes sink_it_, flush_ and the destructor        *)
(* atomic to each other.  They are cut in steps at the system calls, any   *)
(* of which may fail, and between which the process may die.               *)
(*                                                                         *)
(* A byte is the number of the message it belongs to, and a file the       *)
(* sequence of its bytes.                                                  *)
(***************************************************************************)
EXTENDS Integers, Sequences

CONSTANTS
  MaxSize,      (* m_maxSize, in bytes; 0 for no rotation                  *)
  MaxFiles,     (* m_maxFiles, which the constructor makes positive        *)
  BufSize,      (* INTERNAL_BUF_SIZE                                       *)
  Sizes,        (* the sizes of the messages                               *)
  None,         (* a file that does not exist                              *)
  MaxMessages,  (* bound on the messages                                   *)
  MaxFaults,    (* bound on the failures and crashes                       *)
  MaxOpens      (* bound on the sinks constructed                          *)

ASSUME FileSinkAssumption ==
  /\ MaxSize \in Nat
  /\ MaxFiles \in Nat \ {0}
  /\ BufSize \in Nat \ {0}
  /\ Sizes \subseteq Nat \ {0}
  /\ None \notin Seq([of : Nat, at : Nat])
  /\ MaxMessages \in Nat
  /\ MaxFaults \in Nat
  /\ MaxOpens \in Nat

VARIABLES
  files,        (* the files: 0 is m_baseFilename, i the one with suffix i *)
  open,         (* m_fd >= 0                                               *)
  buf,          (* the first m_bufPos bytes of m_buffer                    *)
  currentSize,  (* m_currentSize                                           *)
  pc,           (* "none" without a sink, else where it is                 *)
  slot,         (* the variable i of the loop of RotateFiles               *)
  msg,          (* the formatted message in sink_it_                       *)
  count,        (* messages so far                                         *)
  opens,        (* sinks constructed so far                                *)
  faults,       (* failures and crashes so far                             *)
  intact,       (* there were none since this sink was constructed         *)
  accepted      (* the bytes in the files at that time, and those since    *)

fileVars   == <<files, open, currentSize>>
boundVars  == <<count, opens>>
faultVars  == <<faults, intact>>
vars == <<fileVars, buf, pc, slot, msg, boundVars, faultVars, accepted>>

Suffixes == 0..MaxFiles

Bytes(n, size) == [i \in 1..size |-> [of |-> n, at |-> i]]

(* What some files hold, from the oldest to the newest: all of them, or    *)
(* those with the suffixes up to i.                                        *)
Content(fs, i) == IF fs[i] = None THEN <<>> ELSE fs[i]

StoredUpTo(fs) ==
  LET upTo[i \in Suffixes] ==
        IF i = 0 THEN Content(fs, 0) ELSE Content(fs, i) \o upTo[i - 1]
  IN upTo

Stored(fs) == StoredUpTo(fs)[MaxFiles]

Init ==
  /\ \E size \in Sizes : files \in {[i \in Suffixes |-> None],
                                    [i \in Suffixes |-> IF i = 0 THEN Bytes(0, size) ELSE None]}
  /\ open = FALSE /\ currentSize = 0
  /\ buf = <<>> /\ msg = <<>>
  /\ pc = "none" /\ slot = 0
  /\ count = 0 /\ opens = 0
  /\ faults = 0 /\ intact = FALSE
  /\ accepted = <<>>

Fault   == faults < MaxFaults /\ faults' = faults + 1 /\ intact' = FALSE
NoFault == UNCHANGED faultVars

(***************************************************************************)
(* The helpers that make the system calls.                                 *)
(***************************************************************************)
(* write(2) is repeated until it has written all, or fails.                *)
Write(bytes) ==
  \E k \in 0..Len(bytes) :
    /\ files' = [files EXCEPT ![0] = @ \o SubSeq(bytes, 1, k)]
    /\ currentSize' = currentSize + k
    /\ IF k = Len(bytes) THEN NoFault ELSE Fault

(* What a failing write leaves in the buffer is discarded.                 *)
FlushBuffer ==
  IF open
  THEN Write(buf) /\ buf' = <<>>
  ELSE UNCHANGED <<files, currentSize, buf, faultVars>>

(* open(2) may fail: then m_fd is negative.                                *)
OpenFile(truncate) ==
  /\ currentSize' = IF truncate \/ files[0] = None THEN 0 ELSE Len(files[0])
  /\ \/ /\ open' = TRUE
        /\ files' = [files EXCEPT ![0] = IF truncate \/ @ = None THEN <<>> ELSE @]
     \/ open' = FALSE /\ UNCHANGED files

(* rename(2) does nothing when there is no source file.                    *)
Renamed(fs, from, to) ==
  IF fs[from] = None THEN fs ELSE [fs EXCEPT ![to] = fs[from], ![from] = None]

(***************************************************************************)
(* The life of a sink.                                                     *)
(***************************************************************************)
Construct(truncate) ==
  /\ pc = "none"
  /\ opens < MaxOpens
  /\ opens' = opens + 1
  /\ OpenFile(truncate)
  /\ buf' = <<>>
  /\ pc' = "idle"
  /\ intact' = open'
  /\ open' \/ faults < MaxFaults
  /\ faults' = IF open' THEN faults ELSE faults + 1
  /\ accepted' = Stored(files')
  /\ UNCHANGED <<slot, msg, count>>

(* The destructor flushes the buffer and closes the file.                  *)
Destroy ==
  /\ pc = "idle"
  /\ FlushBuffer
  /\ open' = FALSE
  /\ pc' = "none"
  /\ UNCHANGED <<slot, msg, boundVars, accepted>>

(* The process dies: the files stay as they are, the buffer is lost.       *)
Crash ==
  /\ pc # "none"
  /\ Fault
  /\ open' = FALSE
  /\ buf' = <<>> /\ msg' = <<>>
  /\ pc' = "none"
  /\ UNCHANGED <<files, currentSize, slot, boundVars, accepted>>

FlushSink ==
  /\ pc = "idle"
  /\ FlushBuffer
  /\ UNCHANGED <<open, pc, slot, msg, boundVars, accepted>>

(***************************************************************************)
(* sink_it_.                                                               *)
(***************************************************************************)
Receive(size) ==
  /\ pc = "idle"
  /\ count < MaxMessages
  /\ count' = count + 1
  /\ accepted' = accepted \o Bytes(count + 1, size)

(* A message that would make the file too large rotates the files first.   *)
SinkIt(size) ==
  /\ Receive(size)
  /\ open
  /\ msg' = Bytes(count + 1, size)
  /\ pc' = IF MaxSize > 0 /\ currentSize + Len(buf) + size > MaxSize
           THEN "rotate" ELSE "store"
  /\ UNCHANGED <<fileVars, buf, slot, opens, faultVars>>

(* Without a file, the message is dropped.                                 *)
SinkItClosed(size) ==
  /\ Receive(size)
  /\ ~open
  /\ UNCHANGED <<fileVars, buf, pc, slot, msg, opens, faultVars>>

(* Mutant: the loop starts one file too low.                               *)
RotateFilesShort ==
  /\ pc = "rotate"
  /\ FlushBuffer
  /\ open' = FALSE
  /\ slot' = IF MaxFiles > 1 THEN MaxFiles - 2 ELSE 0
  /\ pc' = "shift"
  /\ UNCHANGED <<msg, boundVars, accepted>>

(* Mutant: the file is closed without the flush.                           *)
RotateFilesUnflushed ==
  /\ pc = "rotate"
  /\ buf' = <<>>
  /\ open' = FALSE
  /\ slot' = MaxFiles - 1
  /\ pc' = "shift"
  /\ UNCHANGED <<files, currentSize, faultVars, msg, boundVars, accepted>>

(* RotateFiles flushes and closes the file, then moves each file one up.   *)
RotateFiles ==
  /\ pc = "rotate"
  /\ FlushBuffer
  /\ open' = FALSE
  /\ slot' = MaxFiles - 1
  /\ pc' = "shift"
  /\ UNCHANGED <<msg, boundVars, accepted>>

(* The oldest file is unlinked before the first rename; either may fail.   *)
ShiftFile ==
  /\ pc = "shift"
  /\ LET unlinked == IF slot > 0 /\ slot = MaxFiles - 1
                     THEN [files EXCEPT ![slot + 1] = None] ELSE files
     IN \/ files' = Renamed(unlinked, slot, slot + 1) /\ NoFault
        \/ files' \in {files, unlinked, Renamed(files, slot, slot + 1)} /\ Fault
  /\ slot' = IF slot = 0 THEN 0 ELSE slot - 1
  /\ pc' = IF slot = 0 THEN "open" ELSE "shift"
  /\ UNCHANGED <<open, currentSize, buf, msg, boundVars, accepted>>

(* An exception in the loop skips the renames that are left.               *)
ShiftThrows ==
  /\ pc = "shift"
  /\ Fault
  /\ pc' = "open"
  /\ UNCHANGED <<fileVars, buf, slot, msg, boundVars, accepted>>

Reopen ==
  /\ pc = "open"
  /\ OpenFile(TRUE)
  /\ IF open' THEN NoFault ELSE Fault
  /\ pc' = "store"
  /\ UNCHANGED <<buf, slot, msg, boundVars, accepted>>

(* Mutant: a large message overtakes the bytes in the buffer.              *)
StoreUnflushed ==
  /\ pc = "store"
  /\ IF Len(msg) <= BufSize /\ Len(buf) + Len(msg) > BufSize
     THEN FlushBuffer
     ELSE UNCHANGED <<files, currentSize, buf, faultVars>>
  /\ pc' = IF Len(msg) > BufSize THEN "direct" ELSE "append"
  /\ UNCHANGED <<open, slot, msg, boundVars, accepted>>

(* The buffer is flushed when the message does not fit in.                 *)
Store ==
  /\ pc = "store"
  /\ IF Len(buf) + Len(msg) > BufSize
     THEN FlushBuffer
     ELSE UNCHANGED <<files, currentSize, buf, faultVars>>
  /\ pc' = IF Len(msg) > BufSize THEN "direct" ELSE "append"
  /\ UNCHANGED <<open, slot, msg, boundVars, accepted>>

AppendToBuffer ==
  /\ pc = "append"
  /\ buf' = buf \o msg
  /\ msg' = <<>>
  /\ pc' = "idle"
  /\ UNCHANGED <<fileVars, slot, boundVars, faultVars, accepted>>

(* A message larger than the buffer is written at once.                    *)
WriteDirect ==
  /\ pc = "direct"
  /\ IF open THEN Write(msg) ELSE UNCHANGED <<files, currentSize, faultVars>>
  /\ msg' = <<>>
  /\ pc' = "idle"
  /\ UNCHANGED <<open, buf, slot, boundVars, accepted>>

-----------------------------------------------------------------------------
Rotation == RotateFiles \/ ShiftFile \/ ShiftThrows \/ Reopen

Next ==
  \/ \E truncate \in BOOLEAN : Construct(truncate)
  \/ \E size \in Sizes : SinkIt(size) \/ SinkItClosed(size)
  \/ Rotation
  \/ Store \/ AppendToBuffer \/ WriteDirect
  \/ FlushSink \/ Destroy \/ Crash

Spec == Init /\ [][Next]_vars

=============================================================================
