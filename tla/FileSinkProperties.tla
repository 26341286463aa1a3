------------------------- MODULE FileSinkProperties -------------------------
(***************************************************************************)
(* What the file sink owes to the logger: the files, read from the oldest  *)
(* to the newest, tell what was logged.                                    *)
(***************************************************************************)
EXTENDS FileSink, FiniteSets

(* The files, and what is on its way to them.                              *)
History == Stored(files) \o buf \o msg

Present == {i \in Suffixes : files[i] # None}

ByteSet == [of : 0..MaxMessages, at : Nat]

SinkOK ==
  /\ files \in [Suffixes -> Seq(ByteSet) \union {None}]
  /\ open \in BOOLEAN
  /\ open => files[0] \in Seq(ByteSet)
  /\ buf \in Seq(ByteSet) /\ Len(buf) <= BufSize
  /\ currentSize \in Nat
  /\ pc \in {"none", "idle", "rotate", "shift", "open", "store", "append", "direct"}
  /\ slot \in 0..(MaxFiles - 1)
  /\ msg \in Seq(ByteSet)

CountsOK ==
  /\ count \in 0..MaxMessages
  /\ opens \in 0..MaxOpens
  /\ faults \in 0..MaxFaults

TypeOK == SinkOK /\ CountsOK /\ intact \in BOOLEAN /\ accepted \in Seq(ByteSet)

Before(a, b) == a.of < b.of \/ (a.of = b.of /\ a.at < b.at)

(* Whatever fails and whenever the process dies, no byte is out of order   *)
(* or twice in the files: a reader who goes from the highest suffix down   *)
(* to the base file reads forward in time.                                 *)
Increasing(q) == \A i, j \in 1..Len(q) : i < j => Before(q[i], q[j])

FilesInOrder == Increasing(History)

(* As long as nothing fails, the files and the buffer hold an unbroken     *)
(* stretch of what was logged, up to the last byte.                        *)
EndsWith(q, h) ==
  Len(h) <= Len(q) /\ h = SubSeq(q, Len(q) - Len(h) + 1, Len(q))

NothingSkipped == intact => EndsWith(accepted, History)

(* Rotation forgets only the oldest file, and only when MaxFiles rotated   *)
(* files exist beside the new one.                                         *)
ForgetsOnlyOldest ==
  faults = 0 /\ pc = "idle" /\ Len(History) < Len(accepted) => Present = Suffixes

(* A sequence of bytes may be the content of a file when it is not larger  *)
(* than MaxSize, or belongs to a single message.                           *)
Owners(bytes) == {bytes[j].of : j \in 1..Len(bytes)}

OneOwner(bytes) == \E n \in 0..MaxMessages : Owners(bytes) \subseteq {n}

Fits(bytes) == MaxSize = 0 \/ Len(bytes) <= MaxSize \/ OneOwner(bytes)

(* A file is larger than MaxSize only when it holds a single message.  The *)
(* bytes in the buffer already belong to the file.                         *)
SizeBounded ==
  /\ \A i \in Present : Fits(files[i])
  /\ open => Fits(files[0] \o buf)

(* m_currentSize is the size of the file, after partial writes too.        *)
SizeTracked == open => currentSize = Len(files[0])

-----------------------------------------------------------------------------
(* The inductive strengthening of SizeBounded and of the bound on buf: the *)
(* message in sink_it_ fits in the place it is about to go to, and there   *)
(* is nothing in the buffer while the file is closed for the rotation.     *)
Sinking == {"store", "append", "direct"}

SizeInv ==
  /\ SizeTracked /\ SizeBounded
  /\ pc = "rotate" => open
  /\ pc \in {"none", "shift", "open"} => ~open
  /\ pc \in {"shift", "open"} \union Sinking /\ ~open => buf = <<>>
  /\ OneOwner(msg)
  /\ pc \in Sinking /\ open => Fits((files[0] \o buf) \o msg)
  /\ pc = "append" => Len(buf) + Len(msg) <= BufSize

-----------------------------------------------------------------------------
(* The inductive strengthening of FilesInOrder: every file, the buffer and *)
(* the message are in order, and so are any two of them; no byte is of a   *)
(* message to come.                                                        *)
Precedes(q, r) == \A i \in 1..Len(q), j \in 1..Len(r) : Before(q[i], r[j])

UpTo(q, n) == \A i \in 1..Len(q) : q[i].of <= n

FilesOrdered(fs) ==
  /\ \A i \in Suffixes : Increasing(Content(fs, i))
  /\ \A i, j \in Suffixes : i < j => Precedes(Content(fs, j), Content(fs, i))

FilesPrecede(fs, q) == \A i \in Suffixes : Precedes(Content(fs, i), q)

FilesUpTo(fs, n) == \A i \in Suffixes : UpTo(Content(fs, i), n)

OrderInv ==
  /\ FilesOrdered(files) /\ Increasing(buf) /\ Increasing(msg)
  /\ FilesPrecede(files, buf) /\ FilesPrecede(files, msg) /\ Precedes(buf, msg)
  /\ FilesUpTo(files, count) /\ UpTo(buf, count) /\ UpTo(msg, count)
  /\ pc = "direct" => buf = <<>>

(* The strengthening of NothingSkipped: as long as nothing fails the file  *)
(* is open but in a rotation, which moves every file to a free place.      *)
SkipInv ==
  /\ NothingSkipped /\ accepted \in Seq(ByteSet)
  /\ intact /\ pc \in {"idle", "rotate"} \union Sinking => open
  /\ intact /\ pc = "shift" /\ slot < MaxFiles - 1 => files[slot + 1] = None
  /\ intact /\ pc = "open" => files[0] = None
  /\ pc \in {"none", "idle"} => msg = <<>>

(* The strengthening of ForgetsOnlyOldest: the suffixes in use have no gap *)
(* but the place a rotation has just moved a file from.                    *)
Moved(i) == (pc = "shift" /\ i = slot + 1) \/ (pc = "open" /\ i = 0)

ForgetInv ==
  faults = 0 =>
    /\ pc # "none" => intact
    /\ pc # "none" /\ Len(History) < Len(accepted) => MaxFiles \in Present
    /\ \A i, j \in Suffixes : i < j /\ j \in Present => i \in Present \/ Moved(i)

=============================================================================
