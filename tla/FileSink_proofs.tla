-------------------------- MODULE FileSink_proofs ---------------------------
(***************************************************************************)
(* Proofs about the file sink, for any sizes of files, buffer and messages,*)
(* any number of rotated files, and any failures: the sizes it keeps to,   *)
(* then what the files tell of the log.                                    *)
(***************************************************************************)
EXTENDS FileSinkProperties, SequenceTheorems, WellFoundedInduction, TLAPS

LEMMA Bounds ==
  /\ MaxSize \in Nat /\ MaxFiles \in Nat \ {0} /\ BufSize \in Nat \ {0}
  /\ MaxMessages \in Nat /\ Sizes \subseteq Nat /\ 0 \in Suffixes
BY FileSinkAssumption DEF Suffixes

(* The owners of the bytes of a sequence, and whether it fits in a file.   *)
LEMMA OwnersOfConcat ==
  ASSUME NEW f \in Seq(ByteSet), NEW g \in Seq(ByteSet)
  PROVE  /\ f \o g \in Seq(ByteSet)
         /\ Len(f \o g) = Len(f) + Len(g)
         /\ Owners(f \o g) = Owners(f) \union Owners(g)
<1>1. f \o g \in Seq(ByteSet) /\ Len(f \o g) = Len(f) + Len(g)
  OBVIOUS
<1>2. \A j \in 1..Len(f) : j \in 1..Len(f \o g) /\ (f \o g)[j] = f[j]
  OBVIOUS
<1>3. \A j \in 1..Len(g) : Len(f) + j \in 1..Len(f \o g) /\ (f \o g)[Len(f) + j] = g[j]
  OBVIOUS
<1>4. \A j \in 1..Len(f \o g) :
        \/ j \in 1..Len(f) /\ (f \o g)[j] = f[j]
        \/ j - Len(f) \in 1..Len(g) /\ (f \o g)[j] = g[j - Len(f)]
  OBVIOUS
<1>5. Owners(f \o g) \subseteq Owners(f) \union Owners(g)
  BY <1>4 DEF Owners
<1>6. Owners(f) \subseteq Owners(f \o g)
  BY <1>2 DEF Owners
<1>7. Owners(g) \subseteq Owners(f \o g)
  BY <1>3 DEF Owners
<1> QED
  BY <1>1, <1>5, <1>6, <1>7

LEMMA ConcatOfThree ==
  ASSUME NEW f \in Seq(ByteSet), NEW g \in Seq(ByteSet), NEW h \in Seq(ByteSet)
  PROVE  (f \o g) \o h = f \o (g \o h)
OBVIOUS

LEMMA OwnersOfPrefix ==
  ASSUME NEW f \in Seq(ByteSet), NEW k \in 0..Len(f)
  PROVE  /\ SubSeq(f, 1, k) \in Seq(ByteSet)
         /\ Len(SubSeq(f, 1, k)) = k
         /\ Owners(SubSeq(f, 1, k)) \subseteq Owners(f)
<1>1. SubSeq(f, 1, k) \in Seq(ByteSet) /\ Len(SubSeq(f, 1, k)) = k
  OBVIOUS
<1>2. \A j \in 1..k : j \in 1..Len(f) /\ SubSeq(f, 1, k)[j] = f[j]
  OBVIOUS
<1> QED
  BY <1>1, <1>2 DEF Owners

LEMMA OwnersOfEmpty == <<>> \in Seq(ByteSet) /\ Len(<<>>) = 0 /\ Owners(<<>>) = {}
BY DEF Owners

LEMMA FitsMonotone ==
  ASSUME NEW f \in Seq(ByteSet), NEW g \in Seq(ByteSet), Fits(g),
         Len(f) <= Len(g), Owners(f) \subseteq Owners(g)
  PROVE  Fits(f)
<1>1. Len(f) \in Nat /\ Len(g) \in Nat
  OBVIOUS
<1> QED
  BY <1>1, Bounds DEF Fits, OneOwner

LEMMA OneOwnerFits ==
  ASSUME NEW f, OneOwner(f) PROVE Fits(f)
BY DEF Fits

LEMMA BytesOfOne ==
  ASSUME NEW n \in 0..MaxMessages, NEW size \in Nat
  PROVE  /\ Bytes(n, size) \in Seq(ByteSet)
         /\ Len(Bytes(n, size)) = size
         /\ OneOwner(Bytes(n, size))
<1>1. \A i \in 1..size : [of |-> n, at |-> i] \in ByteSet
  BY DEF ByteSet
<1>2. Bytes(n, size) \in Seq(ByteSet) /\ Len(Bytes(n, size)) = size
  BY <1>1 DEF Bytes
<1>3. Owners(Bytes(n, size)) \subseteq {n}
  BY <1>2 DEF Owners, Bytes
<1> QED
  BY <1>2, <1>3 DEF OneOwner

(***************************************************************************)
(* write(2), whether it succeeds or stops half-way.                        *)
(***************************************************************************)
LEMMA WriteAdds ==
  ASSUME SinkOK, open, NEW bytes \in Seq(ByteSet), Write(bytes)
  PROVE  /\ files' \in [Suffixes -> Seq(ByteSet) \union {None}]
         /\ files'[0] \in Seq(ByteSet)
         /\ \A i \in Suffixes \ {0} : files'[i] = files[i]
         /\ Len(files'[0]) <= Len(files[0]) + Len(bytes)
         /\ Owners(files'[0]) \subseteq Owners(files[0]) \union Owners(bytes)
         /\ currentSize' \in Nat
         /\ currentSize = Len(files[0]) => currentSize' = Len(files'[0])
<1>1. PICK k \in 0..Len(bytes) :
        /\ files' = [files EXCEPT ![0] = @ \o SubSeq(bytes, 1, k)]
        /\ currentSize' = currentSize + k
  BY DEF Write
<1>2. /\ SubSeq(bytes, 1, k) \in Seq(ByteSet) /\ Len(SubSeq(bytes, 1, k)) = k
      /\ Owners(SubSeq(bytes, 1, k)) \subseteq Owners(bytes)
  BY OwnersOfPrefix
<1>3. files[0] \in Seq(ByteSet)
  BY DEF SinkOK
<1> DEFINE g == SubSeq(bytes, 1, k)
<1>4. /\ files[0] \o g \in Seq(ByteSet) /\ Len(files[0] \o g) = Len(files[0]) + k
      /\ Owners(files[0] \o g) = Owners(files[0]) \union Owners(g)
  BY <1>2, <1>3, OwnersOfConcat
<1>5. /\ files'[0] = files[0] \o g
      /\ \A i \in Suffixes \ {0} : files'[i] = files[i]
  BY <1>1, Bounds DEF SinkOK
<1>6. files' \in [Suffixes -> Seq(ByteSet) \union {None}]
  BY <1>1, <1>4, Bounds DEF SinkOK
<1>7. Len(files[0]) \in Nat /\ Len(bytes) \in Nat /\ k \in Nat /\ k <= Len(bytes)
  BY <1>3
<1> HIDE DEF g
<1>8. currentSize \in Nat
  BY DEF SinkOK
<1>9. Owners(files'[0]) \subseteq Owners(files[0]) \union Owners(bytes)
  BY <1>2, <1>4, <1>5 DEF g
<1> QED
  BY <1>1, <1>4, <1>5, <1>6, <1>7, <1>8, <1>9

(***************************************************************************)
(* What fits goes on fitting when there are fewer bytes, of no new owner.  *)
(***************************************************************************)
LEMMA FitsTwo ==
  ASSUME NEW f \in Seq(ByteSet), NEW b \in Seq(ByteSet), Fits(f \o b),
         NEW g \in Seq(ByteSet), NEW c \in Seq(ByteSet),
         Len(g) + Len(c) <= Len(f) + Len(b),
         Owners(g) \union Owners(c) \subseteq Owners(f) \union Owners(b)
  PROVE  Fits(g \o c)
<1>1. /\ f \o b \in Seq(ByteSet) /\ Len(f \o b) = Len(f) + Len(b)
      /\ Owners(f \o b) = Owners(f) \union Owners(b)
  BY OwnersOfConcat
<1>2. /\ g \o c \in Seq(ByteSet) /\ Len(g \o c) = Len(g) + Len(c)
      /\ Owners(g \o c) = Owners(g) \union Owners(c)
  BY OwnersOfConcat
<1> QED
  BY <1>1, <1>2, FitsMonotone

LEMMA FitsThree ==
  ASSUME NEW f \in Seq(ByteSet), NEW b \in Seq(ByteSet), NEW m \in Seq(ByteSet),
         Fits((f \o b) \o m),
         NEW g \in Seq(ByteSet), NEW c \in Seq(ByteSet), NEW n \in Seq(ByteSet),
         Len(g) + Len(c) + Len(n) <= Len(f) + Len(b) + Len(m),
         Owners(g) \union Owners(c) \union Owners(n)
           \subseteq Owners(f) \union Owners(b) \union Owners(m)
  PROVE  Fits((g \o c) \o n)
<1>1. /\ f \o b \in Seq(ByteSet) /\ Len(f \o b) = Len(f) + Len(b)
      /\ Owners(f \o b) = Owners(f) \union Owners(b)
  BY OwnersOfConcat
<1>2. /\ g \o c \in Seq(ByteSet) /\ Len(g \o c) = Len(g) + Len(c)
      /\ Owners(g \o c) = Owners(g) \union Owners(c)
  BY OwnersOfConcat
<1>3. Len(g \o c) + Len(n) <= Len(f \o b) + Len(m)
  BY <1>1, <1>2
<1>4. Owners(g \o c) \union Owners(n) \subseteq Owners(f \o b) \union Owners(m)
  BY <1>1, <1>2
<1> QED
  BY <1>1, <1>2, <1>3, <1>4, FitsTwo

LEMMA FitsInBase ==
  ASSUME SinkOK, SizeInv, open PROVE Fits(files[0])
<1>1. files[0] \in Seq(ByteSet) /\ buf \in Seq(ByteSet) /\ Fits(files[0] \o buf)
  BY DEF SinkOK, SizeInv, SizeBounded
<1>2. /\ files[0] \o buf \in Seq(ByteSet)
      /\ Len(files[0] \o buf) = Len(files[0]) + Len(buf)
      /\ Owners(files[0] \o buf) = Owners(files[0]) \union Owners(buf)
  BY <1>1, OwnersOfConcat
<1>3. Len(files[0]) <= Len(files[0] \o buf)
  BY <1>1, <1>2
<1>4. Owners(files[0]) \subseteq Owners(files[0] \o buf)
  BY <1>2
<1> QED
  BY <1>1, <1>2, <1>3, <1>4, FitsMonotone

(***************************************************************************)
(* FlushBuffer, whether the write succeeds or stops half-way.              *)
(***************************************************************************)
LEMMA FlushBufferStep ==
  ASSUME SinkOK, FlushBuffer
  PROVE  /\ files' \in [Suffixes -> Seq(ByteSet) \union {None}]
         /\ \A i \in Suffixes \ {0} : files'[i] = files[i]
         /\ buf' \in Seq(ByteSet) /\ Len(buf') <= BufSize
         /\ currentSize' \in Nat
         /\ open => /\ buf' = <<>>
                    /\ files'[0] \in Seq(ByteSet)
                    /\ Len(files'[0]) <= Len(files[0]) + Len(buf)
                    /\ Owners(files'[0]) \subseteq Owners(files[0]) \union Owners(buf)
                    /\ currentSize = Len(files[0]) => currentSize' = Len(files'[0])
         /\ ~open => UNCHANGED <<files, buf, currentSize>>
<1>1. CASE open
  <2>1. Write(buf) /\ buf' = <<>> /\ buf \in Seq(ByteSet)
    BY <1>1 DEF FlushBuffer, SinkOK
  <2> HIDE DEF Write
  <2> QED
    BY <1>1, <2>1, WriteAdds, OwnersOfEmpty, Bounds
<1>2. CASE ~open
  BY <1>2 DEF FlushBuffer, SinkOK
<1> QED
  BY <1>1, <1>2

(***************************************************************************)
(* What follows when the buffer is flushed, or not, and nothing else is    *)
(* added: the files fit, and the message fits where it fitted before.      *)
(***************************************************************************)
LEMMA FlushKeepsSizes ==
  ASSUME SinkOK, SizeInv, FlushBuffer
  PROVE  /\ open => currentSize' = Len(files'[0])
         /\ \A i \in Present' : Fits(files'[i])
         /\ open => Fits(files'[0] \o buf')
         /\ \A m \in Seq(ByteSet) :
              open /\ Fits((files[0] \o buf) \o m) => Fits((files'[0] \o buf') \o m)
<1>0. /\ files' \in [Suffixes -> Seq(ByteSet) \union {None}]
      /\ \A i \in Suffixes \ {0} : files'[i] = files[i]
      /\ buf' \in Seq(ByteSet)
      /\ open => /\ buf' = <<>>
                 /\ files'[0] \in Seq(ByteSet)
                 /\ Len(files'[0]) <= Len(files[0]) + Len(buf)
                 /\ Owners(files'[0]) \subseteq Owners(files[0]) \union Owners(buf)
                 /\ currentSize = Len(files[0]) => currentSize' = Len(files'[0])
      /\ ~open => UNCHANGED <<files, buf, currentSize>>
  BY FlushBufferStep
<1>1. CASE open
  <2>1. /\ files[0] \in Seq(ByteSet) /\ buf \in Seq(ByteSet)
        /\ Fits(files[0] \o buf) /\ currentSize = Len(files[0])
    BY <1>1 DEF SinkOK, SizeInv, SizeBounded, SizeTracked
  <2>2. Len(buf') = 0 /\ Owners(buf') = {}
    BY <1>0, <1>1, OwnersOfEmpty
  <2>3. Len(files[0]) \in Nat /\ Len(buf) \in Nat /\ Len(files'[0]) \in Nat
    BY <1>0, <1>1, <2>1
  <2>4. Fits(files'[0] \o buf')
    <3>1. Len(files'[0]) + Len(buf') <= Len(files[0]) + Len(buf)
      BY <1>0, <1>1, <2>2, <2>3
    <3>2. Owners(files'[0]) \union Owners(buf') \subseteq Owners(files[0]) \union Owners(buf)
      BY <1>0, <1>1, <2>2
    <3> QED
      BY <1>0, <1>1, <2>1, <3>1, <3>2, FitsTwo
  <2>5. Fits(files'[0])
    <3>1. /\ files'[0] \o buf' \in Seq(ByteSet)
          /\ Len(files'[0] \o buf') = Len(files'[0])
          /\ Owners(files'[0] \o buf') = Owners(files'[0])
      BY <1>0, <1>1, <2>2, <2>3, OwnersOfConcat
    <3> QED
      BY <1>0, <1>1, <2>3, <2>4, <3>1, FitsMonotone
  <2>6. ASSUME NEW m \in Seq(ByteSet), Fits((files[0] \o buf) \o m)
        PROVE  Fits((files'[0] \o buf') \o m)
    <3>1. Len(m) \in Nat
      OBVIOUS
    <3>2. Len(files'[0]) + Len(buf') + Len(m) <= Len(files[0]) + Len(buf) + Len(m)
      BY <1>0, <1>1, <2>2, <2>3, <3>1
    <3>3. Owners(files'[0]) \union Owners(buf') \union Owners(m)
            \subseteq Owners(files[0]) \union Owners(buf) \union Owners(m)
      BY <1>0, <1>1, <2>2
    <3> QED
      BY <1>0, <1>1, <2>1, <2>6, <3>2, <3>3, FitsThree
  <2>7. \A i \in Present' : Fits(files'[i])
    <3>1. \A i \in Present : Fits(files[i])
      BY DEF SizeInv, SizeBounded
    <3> QED
      BY <1>0, <2>5, <3>1 DEF Present
  <2> QED
    BY <1>0, <1>1, <2>1, <2>4, <2>6, <2>7
<1>2. CASE ~open
  BY <1>0, <1>2 DEF SizeInv, SizeBounded, Present
<1> QED
  BY <1>1, <1>2

(***************************************************************************)
(* The life of a sink.                                                     *)
(***************************************************************************)
SinkInv == SinkOK /\ SizeInv

LEMMA InitSink ==
  ASSUME Init PROVE SinkInv
<1>1. PICK size \in Sizes :
        files \in {[i \in Suffixes |-> None],
                   [i \in Suffixes |-> IF i = 0 THEN Bytes(0, size) ELSE None]}
  BY DEF Init
<1>2. size \in Nat /\ 0 \in 0..MaxMessages
  BY Bounds
<1>3. Bytes(0, size) \in Seq(ByteSet) /\ Fits(Bytes(0, size))
  BY <1>2, BytesOfOne, OneOwnerFits
<1>4. /\ files \in [Suffixes -> Seq(ByteSet) \union {None}]
      /\ \A i \in Suffixes : files[i] # None => Fits(files[i])
  BY <1>1, <1>3, Bounds
<1>5. SinkOK
  BY <1>4, OwnersOfEmpty, Bounds DEF Init, SinkOK
<1>6. OneOwner(msg)
  BY <1>2, OwnersOfEmpty DEF Init, OneOwner
<1>7. SizeInv
  BY <1>4, <1>6 DEF Init, SizeInv, SizeTracked, SizeBounded, Present, Sinking
<1> QED
  BY <1>5, <1>7 DEF SinkInv

(* OpenFile gives an empty file or the one that was there.                 *)
LEMMA OpenFileStep ==
  ASSUME SinkInv, NEW truncate \in BOOLEAN, OpenFile(truncate)
  PROVE  /\ files' \in [Suffixes -> Seq(ByteSet) \union {None}]
         /\ \A i \in Present' : Fits(files'[i])
         /\ open' \in BOOLEAN
         /\ currentSize' \in Nat
         /\ open' => files'[0] \in Seq(ByteSet) /\ Fits(files'[0])
         /\ open' => currentSize' = Len(files'[0])
         /\ open' /\ truncate => files'[0] = <<>>
<1>1. /\ files \in [Suffixes -> Seq(ByteSet) \union {None}]
      /\ \A i \in Present : Fits(files[i])
  BY DEF SinkInv, SinkOK, SizeInv, SizeBounded
<1>2. <<>> \in Seq(ByteSet) /\ Len(<<>>) = 0 /\ Fits(<<>>)
  BY OwnersOfEmpty, Bounds DEF Fits
<1>3. files[0] # None => files[0] \in Seq(ByteSet) /\ Fits(files[0]) /\ Len(files[0]) \in Nat
  BY <1>1, Bounds DEF Present
<1>4. CASE open' = TRUE /\ files' = [files EXCEPT ![0] = IF truncate \/ @ = None THEN <<>> ELSE @]
  <2>1. files'[0] = IF truncate \/ files[0] = None THEN <<>> ELSE files[0]
    BY <1>1, <1>4, Bounds
  <2>2. \A i \in Suffixes \ {0} : files'[i] = files[i]
    BY <1>1, <1>4
  <2>3. files'[0] \in Seq(ByteSet) /\ Fits(files'[0])
    BY <1>2, <1>3, <2>1
  <2>4. files' \in [Suffixes -> Seq(ByteSet) \union {None}]
    BY <1>1, <1>2, <1>3, <1>4
  <2>5. \A i \in Present' : Fits(files'[i])
    BY <1>1, <2>2, <2>3 DEF Present
  <2>6. currentSize' = Len(files'[0]) /\ currentSize' \in Nat
    BY <1>2, <1>3, <2>1 DEF OpenFile
  <2> QED
    BY <1>4, <2>1, <2>3, <2>4, <2>5, <2>6
<1>5. CASE open' = FALSE /\ UNCHANGED files
  <2>1. currentSize' \in Nat
    BY <1>3 DEF OpenFile
  <2> QED
    BY <1>1, <1>5, <2>1 DEF Present
<1> QED
  BY <1>4, <1>5 DEF OpenFile

LEMMA ConstructSizes ==
  ASSUME SinkInv, NEW truncate \in BOOLEAN, Construct(truncate)
  PROVE  SinkInv'
<1>1. OpenFile(truncate) /\ buf' = <<>> /\ pc' = "idle" /\ msg' = msg /\ slot' = slot
  BY DEF Construct
<1>2. /\ files' \in [Suffixes -> Seq(ByteSet) \union {None}]
      /\ \A i \in Present' : Fits(files'[i])
      /\ open' \in BOOLEAN
      /\ currentSize' \in Nat
      /\ open' => files'[0] \in Seq(ByteSet) /\ Fits(files'[0])
      /\ open' => currentSize' = Len(files'[0])
  BY <1>1, OpenFileStep
<1>3. open' => Fits(files'[0] \o buf')
  <2>1. ASSUME open' PROVE files'[0] \o buf' = files'[0]
    <3>1. files'[0] \in Seq(ByteSet)
      BY <1>2, <2>1
    <3> QED
      BY <1>1, <3>1
  <2> QED
    BY <1>2, <2>1
<1>4. SinkOK'
  BY <1>1, <1>2, OwnersOfEmpty, Bounds DEF SinkInv, SinkOK
<1>5. SizeInv'
  BY <1>1, <1>2, <1>3 DEF SinkInv, SizeInv, SizeTracked, SizeBounded, Sinking
<1> QED
  BY <1>4, <1>5 DEF SinkInv

LEMMA FlushingSizes ==
  ASSUME SinkInv, Destroy \/ FlushSink \/ RotateFiles
  PROVE  SinkInv'
<1>1. /\ FlushBuffer
      /\ msg' = msg
      /\ open' = FALSE \/ open' = open
      /\ pc' \in {"none", "idle", "shift"}
      /\ pc' # "idle" => open' = FALSE
      /\ pc' = "shift" => pc = "rotate"
      /\ slot' \in 0..(MaxFiles - 1)
  BY Bounds DEF Destroy, FlushSink, RotateFiles, SinkInv, SinkOK
<1>2. /\ files' \in [Suffixes -> Seq(ByteSet) \union {None}]
      /\ buf' \in Seq(ByteSet) /\ Len(buf') <= BufSize
      /\ currentSize' \in Nat
      /\ open => buf' = <<>> /\ files'[0] \in Seq(ByteSet)
  BY <1>1, FlushBufferStep DEF SinkInv
<1>3. /\ open => currentSize' = Len(files'[0])
      /\ \A i \in Present' : Fits(files'[i])
      /\ open => Fits(files'[0] \o buf')
  BY <1>1, FlushKeepsSizes DEF SinkInv
<1>4. /\ open' \in BOOLEAN /\ msg' \in Seq(ByteSet)
      /\ open' => open
  <2>1. open \in BOOLEAN /\ msg \in Seq(ByteSet)
    BY DEF SinkInv, SinkOK
  <2>2. CASE open' = FALSE
    BY <1>1, <2>1, <2>2
  <2>3. CASE open' = open
    BY <1>1, <2>1, <2>3
  <2> QED
    BY <1>1, <2>2, <2>3
<1>5. SinkOK'
  BY <1>1, <1>2, <1>4 DEF SinkOK
<1>6. SizeInv'
  BY <1>1, <1>2, <1>3, <1>4 DEF SinkInv, SizeInv, SizeTracked, SizeBounded, Sinking
<1> QED
  BY <1>5, <1>6 DEF SinkInv

LEMMA CrashSizes ==
  ASSUME SinkInv, Crash PROVE SinkInv'
<1>1. OneOwner(<<>>)
  BY OwnersOfEmpty, Bounds DEF OneOwner
<1>2. SinkOK'
  BY OwnersOfEmpty, Bounds DEF Crash, SinkInv, SinkOK
<1>3. SizeInv'
  BY <1>1 DEF Crash, SinkInv, SizeInv, SizeTracked, SizeBounded, Present, Sinking
<1> QED
  BY <1>2, <1>3 DEF SinkInv

(***************************************************************************)
(* sink_it_.                                                               *)
(***************************************************************************)
LEMMA SinkItSizes ==
  ASSUME SinkInv, CountsOK, NEW size \in Sizes, SinkIt(size)
  PROVE  SinkInv'
<1>1. /\ open /\ files' = files /\ open' = open /\ currentSize' = currentSize
      /\ buf' = buf /\ slot' = slot /\ msg' = Bytes(count + 1, size)
      /\ pc' = IF MaxSize > 0 /\ currentSize + Len(buf) + size > MaxSize
               THEN "rotate" ELSE "store"
  BY DEF SinkIt, fileVars
<1>2. count + 1 \in 0..MaxMessages /\ size \in Nat
  BY Bounds DEF SinkIt, Receive, CountsOK
<1>3. /\ msg' \in Seq(ByteSet) /\ Len(msg') = size /\ OneOwner(msg')
  BY <1>1, <1>2, BytesOfOne
<1>4. /\ files[0] \in Seq(ByteSet) /\ buf \in Seq(ByteSet)
      /\ currentSize = Len(files[0])
  BY <1>1 DEF SinkInv, SinkOK, SizeInv, SizeTracked
<1>5. /\ files[0] \o buf \in Seq(ByteSet)
      /\ Len(files[0] \o buf) = currentSize + Len(buf)
  BY <1>4, OwnersOfConcat
<1>6. Len((files[0] \o buf) \o msg') = currentSize + Len(buf) + size
  BY <1>3, <1>5, OwnersOfConcat
<1>7. currentSize \in Nat /\ Len(buf) \in Nat
  BY <1>4 DEF SinkInv, SinkOK
<1>8. ASSUME pc' = "store" PROVE Fits((files[0] \o buf) \o msg')
  <2>1. MaxSize = 0 \/ currentSize + Len(buf) + size <= MaxSize
    BY <1>1, <1>2, <1>7, <1>8, Bounds
  <2> QED
    BY <1>6, <2>1 DEF Fits
<1>9. SinkOK'
  BY <1>1, <1>3 DEF SinkInv, SinkOK
<1>10. pc' \in {"rotate", "store"}
  BY <1>1
<1>11. SizeInv'
  BY <1>1, <1>3, <1>8, <1>10 DEF SinkInv, SizeInv, SizeTracked, SizeBounded, Present, Sinking
<1> QED
  BY <1>9, <1>11 DEF SinkInv

LEMMA SinkItClosedSizes ==
  ASSUME SinkInv, NEW size \in Sizes, SinkItClosed(size)
  PROVE  SinkInv'
BY DEF SinkItClosed, fileVars, SinkInv, SinkOK, SizeInv, SizeTracked, SizeBounded, Present

(* Moving the files keeps what fits.                                       *)
LEMMA RenamedFits ==
  ASSUME NEW fs \in [Suffixes -> Seq(ByteSet) \union {None}],
         \A i \in Suffixes : fs[i] # None => Fits(fs[i]),
         NEW from \in Suffixes, NEW to \in Suffixes
  PROVE  /\ Renamed(fs, from, to) \in [Suffixes -> Seq(ByteSet) \union {None}]
         /\ \A i \in Suffixes : Renamed(fs, from, to)[i] # None => Fits(Renamed(fs, from, to)[i])
<1>1. CASE fs[from] = None
  BY <1>1 DEF Renamed
<1>2. CASE fs[from] # None
  <2>1. Renamed(fs, from, to) = [fs EXCEPT ![to] = fs[from], ![from] = None]
    BY <1>2 DEF Renamed
  <2>2. \A i \in Suffixes : Renamed(fs, from, to)[i] \in {None, fs[from], fs[i]}
    BY <2>1
  <2>3. Renamed(fs, from, to) \in [Suffixes -> Seq(ByteSet) \union {None}]
    BY <2>1
  <2> QED
    BY <1>2, <2>2, <2>3
<1> QED
  BY <1>1, <1>2

LEMMA ShiftFileSizes ==
  ASSUME SinkInv, ShiftFile PROVE SinkInv'
<1> DEFINE FilesOK(fs) == /\ fs \in [Suffixes -> Seq(ByteSet) \union {None}]
                          /\ \A i \in Suffixes : fs[i] # None => Fits(fs[i])
           unlinked == IF slot > 0 /\ slot = MaxFiles - 1
                       THEN [files EXCEPT ![slot + 1] = None] ELSE files
<1>1. FilesOK(files)
  BY DEF SinkInv, SinkOK, SizeInv, SizeBounded, Present
<1>2. slot \in Suffixes /\ slot + 1 \in Suffixes
  BY Bounds DEF SinkInv, SinkOK, Suffixes
<1>3. FilesOK(unlinked)
  BY <1>1, <1>2
<1>4. FilesOK(Renamed(unlinked, slot, slot + 1)) /\ FilesOK(Renamed(files, slot, slot + 1))
  <2> HIDE DEF unlinked
  <2> QED
    BY <1>1, <1>2, <1>3, RenamedFits
<1>5. files' \in {files, unlinked, Renamed(files, slot, slot + 1), Renamed(unlinked, slot, slot + 1)}
  BY DEF ShiftFile
<1>6. FilesOK(files')
  <2> HIDE DEF FilesOK, unlinked
  <2> QED
    BY <1>1, <1>3, <1>4, <1>5
<1>7. /\ pc = "shift" /\ pc' \in {"shift", "open"}
      /\ slot' \in 0..(MaxFiles - 1)
      /\ open' = open /\ currentSize' = currentSize /\ buf' = buf /\ msg' = msg
  BY Bounds DEF ShiftFile, SinkInv, SinkOK
<1>8. open = FALSE /\ buf = <<>>
  BY <1>7 DEF SinkInv, SinkOK, SizeInv
<1>9. SinkOK'
  BY <1>6, <1>7, <1>8 DEF SinkInv, SinkOK
<1>10. SizeInv'
  BY <1>6, <1>7, <1>8 DEF SinkInv, SizeInv, SizeTracked, SizeBounded, Present, Sinking
<1> QED
  BY <1>9, <1>10 DEF SinkInv

LEMMA ShiftThrowsSizes ==
  ASSUME SinkInv, ShiftThrows PROVE SinkInv'
BY DEF ShiftThrows, fileVars, SinkInv, SinkOK, SizeInv, SizeTracked, SizeBounded, Present, Sinking

LEMMA ReopenSizes ==
  ASSUME SinkInv, Reopen PROVE SinkInv'
<1>1. /\ pc = "open" /\ OpenFile(TRUE) /\ pc' = "store"
      /\ buf' = buf /\ msg' = msg /\ slot' = slot
  BY DEF Reopen
<1>2. /\ files' \in [Suffixes -> Seq(ByteSet) \union {None}]
      /\ \A i \in Present' : Fits(files'[i])
      /\ open' \in BOOLEAN
      /\ currentSize' \in Nat
      /\ open' => files'[0] \in Seq(ByteSet)
      /\ open' => currentSize' = Len(files'[0])
      /\ open' => files'[0] = <<>>
  BY <1>1, OpenFileStep
<1>3. buf = <<>> /\ OneOwner(msg) /\ msg \in Seq(ByteSet)
  BY <1>1 DEF SinkInv, SinkOK, SizeInv
<1>4. Fits(<<>> \o <<>>) /\ Fits((<<>> \o <<>>) \o msg)
  <2>1. <<>> \o <<>> = <<>> /\ <<>> \o msg = msg
    BY <1>3
  <2>2. Fits(<<>>)
    BY OwnersOfEmpty, Bounds DEF Fits
  <2> QED
    BY <1>3, <2>1, <2>2, OneOwnerFits
<1>5. SinkOK'
  BY <1>1, <1>2, <1>3 DEF SinkInv, SinkOK
<1>6. SizeInv'
  BY <1>1, <1>2, <1>3, <1>4 DEF SizeInv, SizeTracked, SizeBounded, Sinking
<1> QED
  BY <1>5, <1>6 DEF SinkInv

LEMMA StoreSizes ==
  ASSUME SinkInv, Store PROVE SinkInv'
<1>1. /\ pc = "store" /\ pc' = IF Len(msg) > BufSize THEN "direct" ELSE "append"
      /\ open' = open /\ msg' = msg /\ slot' = slot
  BY DEF Store
<1>2. /\ Len(buf) \in Nat /\ Len(msg) \in Nat /\ BufSize \in Nat
      /\ open \in BOOLEAN /\ msg \in Seq(ByteSet) /\ slot \in 0..(MaxFiles - 1)
  BY Bounds DEF SinkInv, SinkOK
<1>3. /\ OneOwner(msg)
      /\ open => Fits((files[0] \o buf) \o msg)
      /\ ~open => buf = <<>>
  BY <1>1 DEF SinkInv, SizeInv, Sinking
<1>4. /\ files' \in [Suffixes -> Seq(ByteSet) \union {None}]
      /\ open => files'[0] \in Seq(ByteSet)
      /\ buf' \in Seq(ByteSet) /\ Len(buf') <= BufSize
      /\ currentSize' \in Nat
      /\ ~open => buf' = <<>>
      /\ \/ Len(buf') + Len(msg) <= BufSize
         \/ buf' = <<>>
      /\ open => currentSize' = Len(files'[0])
      /\ \A i \in Present' : Fits(files'[i])
      /\ open => Fits(files'[0] \o buf') /\ Fits((files'[0] \o buf') \o msg)
  <2>1. CASE Len(buf) + Len(msg) > BufSize
    <3>1. FlushBuffer
      BY <2>1 DEF Store
    <3>2. open => buf' = <<>>
      BY <3>1, FlushBufferStep DEF SinkInv
    <3>3. ~open => buf' = <<>>
      BY <1>3, <3>1, FlushBufferStep DEF SinkInv
    <3> QED
      BY <1>2, <1>3, <3>1, <3>2, <3>3, FlushBufferStep, FlushKeepsSizes DEF SinkInv
  <2>2. CASE ~(Len(buf) + Len(msg) > BufSize)
    <3>1. files' = files /\ currentSize' = currentSize /\ buf' = buf
      BY <2>2 DEF Store
    <3>2. Len(buf) + Len(msg) <= BufSize
      BY <1>2, <2>2
    <3> QED
      BY <1>2, <1>3, <3>1, <3>2 DEF SinkInv, SinkOK, SizeInv, SizeTracked, SizeBounded, Present
  <2> QED
    BY <2>1, <2>2
<1>5. pc' \in {"direct", "append"} /\ (pc' = "append" => Len(buf') + Len(msg') <= BufSize)
  <2>1. CASE Len(msg) > BufSize
    BY <1>1, <2>1
  <2>2. CASE ~(Len(msg) > BufSize)
    <3>1. Len(<<>>) = 0
      BY OwnersOfEmpty
    <3> QED
      BY <1>1, <1>2, <1>4, <2>2, <3>1
  <2> QED
    BY <2>1, <2>2
<1>6. SinkOK'
  BY <1>1, <1>2, <1>4, <1>5 DEF SinkOK
<1>7. SizeInv'
  BY <1>1, <1>2, <1>3, <1>4, <1>5 DEF SizeInv, SizeTracked, SizeBounded, Sinking
<1> QED
  BY <1>6, <1>7 DEF SinkInv

LEMMA AppendToBufferSizes ==
  ASSUME SinkInv, AppendToBuffer PROVE SinkInv'
<1>1. /\ pc = "append" /\ pc' = "idle" /\ buf' = buf \o msg /\ msg' = <<>>
      /\ files' = files /\ open' = open /\ currentSize' = currentSize /\ slot' = slot
  BY DEF AppendToBuffer, fileVars
<1>2. /\ buf \in Seq(ByteSet) /\ msg \in Seq(ByteSet)
      /\ open => files[0] \in Seq(ByteSet) /\ Fits((files[0] \o buf) \o msg)
      /\ Len(buf) + Len(msg) <= BufSize
  BY <1>1 DEF SinkInv, SinkOK, SizeInv, Sinking
<1>3. buf \o msg \in Seq(ByteSet) /\ Len(buf \o msg) = Len(buf) + Len(msg)
  BY <1>2
<1>4. ASSUME open PROVE Fits(files[0] \o (buf \o msg))
  <2>1. files[0] \in Seq(ByteSet)
    BY <1>2, <1>4
  <2>2. Fits((files[0] \o buf) \o msg)
    BY <1>2, <1>4
  <2>3. (files[0] \o buf) \o msg = files[0] \o (buf \o msg)
    <3>1. buf \in Seq(ByteSet) /\ msg \in Seq(ByteSet)
      BY <1>2
    <3> QED
      BY <2>1, <3>1, ConcatOfThree
  <2> QED
    BY <2>2, <2>3, Zenon
<1>5. OneOwner(<<>>)
  BY OwnersOfEmpty, Bounds DEF OneOwner
<1>6. SinkOK'
  BY <1>1, <1>2, <1>3, OwnersOfEmpty DEF SinkInv, SinkOK
<1>7. SizeInv'
  BY <1>1, <1>4, <1>5 DEF SinkInv, SizeInv, SizeTracked, SizeBounded, Present, Sinking
<1> QED
  BY <1>6, <1>7 DEF SinkInv

LEMMA WriteDirectSizes ==
  ASSUME SinkInv, WriteDirect PROVE SinkInv'
<1>1. /\ pc = "direct" /\ pc' = "idle" /\ msg' = <<>>
      /\ open' = open /\ buf' = buf /\ slot' = slot
  BY DEF WriteDirect
<1>2. OneOwner(<<>>)
  BY OwnersOfEmpty, Bounds DEF OneOwner
<1>3. CASE open
  <2>1. Write(msg) /\ msg \in Seq(ByteSet) /\ buf \in Seq(ByteSet) /\ files[0] \in Seq(ByteSet)
    BY <1>3 DEF WriteDirect, SinkInv, SinkOK
  <2>2. /\ files' \in [Suffixes -> Seq(ByteSet) \union {None}]
        /\ files'[0] \in Seq(ByteSet)
        /\ \A i \in Suffixes \ {0} : files'[i] = files[i]
        /\ Len(files'[0]) <= Len(files[0]) + Len(msg)
        /\ Owners(files'[0]) \subseteq Owners(files[0]) \union Owners(msg)
        /\ currentSize' \in Nat
        /\ currentSize = Len(files[0]) => currentSize' = Len(files'[0])
    <3> HIDE DEF Write
    <3> QED
      BY <1>3, <2>1, WriteAdds DEF SinkInv
  <2>3. Fits((files[0] \o buf) \o msg) /\ currentSize = Len(files[0])
    BY <1>1, <1>3 DEF SinkInv, SizeInv, SizeTracked, Sinking
  <2>4. /\ Len(files[0]) \in Nat /\ Len(buf) \in Nat /\ Len(msg) \in Nat
        /\ Len(files'[0]) \in Nat /\ Len(<<>>) = 0
    BY <2>1, <2>2
  <2>5. Fits((files'[0] \o buf) \o <<>>)
    <3>1. Len(files'[0]) + Len(buf) + Len(<<>>) <= Len(files[0]) + Len(buf) + Len(msg)
      BY <2>2, <2>4
    <3>2. Owners(files'[0]) \union Owners(buf) \union Owners(<<>>)
            \subseteq Owners(files[0]) \union Owners(buf) \union Owners(msg)
      BY <2>2, OwnersOfEmpty
    <3>3. <<>> \in Seq(ByteSet) /\ files'[0] \in Seq(ByteSet)
      BY <2>2, OwnersOfEmpty
    <3> QED
      BY <2>1, <2>3, <3>1, <3>2, <3>3, FitsThree
  <2>6. Fits(files'[0] \o buf)
    <3>1. (files'[0] \o buf) \o <<>> = files'[0] \o buf
      BY <2>1, <2>2
    <3> QED
      BY <2>5, <3>1
  <2>7. Fits(files'[0])
    <3>1. /\ files'[0] \o buf \in Seq(ByteSet)
          /\ Len(files'[0] \o buf) = Len(files'[0]) + Len(buf)
          /\ Owners(files'[0] \o buf) = Owners(files'[0]) \union Owners(buf)
      BY <2>1, <2>2, OwnersOfConcat
    <3>2. Len(files'[0]) <= Len(files'[0] \o buf)
      BY <2>4, <3>1
    <3>3. Owners(files'[0]) \subseteq Owners(files'[0] \o buf)
      BY <3>1
    <3> QED
      BY <2>2, <2>6, <3>1, <3>2, <3>3, FitsMonotone
  <2>8. \A i \in Present' : Fits(files'[i])
    <3>1. \A i \in Present : Fits(files[i])
      BY DEF SinkInv, SizeInv, SizeBounded
    <3> QED
      BY <2>2, <2>7, <3>1 DEF Present
  <2>9. SinkOK'
    BY <1>1, <2>2, OwnersOfEmpty DEF SinkInv, SinkOK
  <2>10. SizeInv'
    BY <1>1, <1>2, <1>3, <2>2, <2>3, <2>6, <2>8
    DEF SizeInv, SizeTracked, SizeBounded, Sinking
  <2> QED
    BY <2>9, <2>10 DEF SinkInv
<1>4. CASE ~open
  <2>1. files' = files /\ currentSize' = currentSize
    BY <1>4 DEF WriteDirect
  <2>2. SinkOK'
    BY <1>1, <2>1, OwnersOfEmpty DEF SinkInv, SinkOK
  <2>3. SizeInv'
    BY <1>1, <1>2, <1>4, <2>1 DEF SinkInv, SizeInv, SizeTracked, SizeBounded, Present, Sinking
  <2> QED
    BY <2>2, <2>3 DEF SinkInv
<1> QED
  BY <1>3, <1>4

-----------------------------------------------------------------------------
(* The counters stay within their bounds.                                  *)
THEOREM CountsInvariant == Spec => []CountsOK
<1>1. Init => CountsOK
  BY FileSinkAssumption DEF Init, CountsOK
<1>2. ASSUME CountsOK, [Next]_vars PROVE CountsOK'
  <2>1. ASSUME Fault PROVE faults' \in 0..MaxFaults
    BY <1>2, <2>1, FileSinkAssumption DEF Fault, CountsOK
  <2>2. ASSUME Write(buf) \/ Write(msg) PROVE faults' \in 0..MaxFaults
    BY <1>2, <2>1, <2>2 DEF Write, NoFault, faultVars, CountsOK
  <2>3. ASSUME FlushBuffer PROVE faults' \in 0..MaxFaults
    BY <1>2, <2>2, <2>3 DEF FlushBuffer, faultVars, CountsOK
  <2>4. ASSUME NEW truncate \in BOOLEAN, Construct(truncate) PROVE CountsOK'
    BY <1>2, <2>4, FileSinkAssumption DEF Construct, CountsOK
  <2>5. ASSUME NEW size \in Sizes, SinkIt(size) \/ SinkItClosed(size) PROVE CountsOK'
    BY <1>2, <2>5, FileSinkAssumption DEF SinkIt, SinkItClosed, Receive, faultVars, CountsOK
  <2>6. CASE Destroy \/ FlushSink \/ RotateFiles
    BY <1>2, <2>3, <2>6 DEF Destroy, FlushSink, RotateFiles, boundVars, CountsOK
  <2>7. CASE ShiftFile
    BY <1>2, <2>1, <2>7 DEF ShiftFile, NoFault, faultVars, boundVars, CountsOK
  <2>8. CASE ShiftThrows
    BY <1>2, <2>1, <2>8 DEF ShiftThrows, boundVars, CountsOK
  <2>9. CASE Reopen
    BY <1>2, <2>1, <2>9 DEF Reopen, NoFault, faultVars, boundVars, CountsOK
  <2>10. CASE Store
    BY <1>2, <2>3, <2>10 DEF Store, faultVars, boundVars, CountsOK
  <2>11. CASE AppendToBuffer
    BY <1>2, <2>11 DEF AppendToBuffer, faultVars, boundVars, CountsOK
  <2>12. CASE WriteDirect
    BY <1>2, <2>2, <2>12 DEF WriteDirect, faultVars, boundVars, CountsOK
  <2>13. CASE Crash
    BY <1>2, <2>1, <2>13 DEF Crash, boundVars, CountsOK
  <2>14. CASE UNCHANGED vars
    BY <1>2, <2>14 DEF vars, faultVars, boundVars, CountsOK
  <2> QED
    BY <1>2, <2>4, <2>5, <2>6, <2>7, <2>8, <2>9, <2>10, <2>11, <2>12, <2>13, <2>14
    DEF Next, Rotation
<1> QED
  BY <1>1, <1>2, PTL DEF Spec

(* The state of the sink keeps its types and the inductive invariant of    *)
(* the sizes, whatever write, open and rename do.                          *)
THEOREM SinkInvariant == Spec => []SinkInv
<1>1. Init => SinkInv
  BY InitSink
<1>2. ASSUME SinkInv, CountsOK, [Next]_vars PROVE SinkInv'
  <2>1. ASSUME NEW truncate \in BOOLEAN, Construct(truncate) PROVE SinkInv'
    BY <1>2, <2>1, ConstructSizes
  <2>2. ASSUME NEW size \in Sizes, SinkIt(size) \/ SinkItClosed(size) PROVE SinkInv'
    BY <1>2, <2>2, SinkItSizes, SinkItClosedSizes
  <2>3. CASE Rotation
    BY <1>2, <2>3, FlushingSizes, ShiftFileSizes, ShiftThrowsSizes, ReopenSizes DEF Rotation
  <2>4. CASE Store \/ AppendToBuffer \/ WriteDirect
    BY <1>2, <2>4, StoreSizes, AppendToBufferSizes, WriteDirectSizes
  <2>5. CASE FlushSink \/ Destroy \/ Crash
    BY <1>2, <2>5, FlushingSizes, CrashSizes
  <2>6. CASE UNCHANGED vars
    BY <1>2, <2>6 DEF vars, fileVars, SinkInv, SinkOK, SizeInv, SizeTracked, SizeBounded, Present
  <2> QED
    BY <1>2, <2>1, <2>2, <2>3, <2>4, <2>5, <2>6 DEF Next
<1> QED
  BY <1>1, <1>2, CountsInvariant, PTL DEF Spec

(* No file grows beyond MaxSize but for a single message larger than that, *)
(* the bytes that wait in the buffer included.                             *)
THEOREM SizesBounded == Spec => []SizeBounded
<1>1. SinkInv => SizeBounded
  BY DEF SinkInv, SizeInv
<1> QED
  BY <1>1, SinkInvariant, PTL

(* m_currentSize is the size of the open file, also after a write that     *)
(* stopped half-way.                                                       *)
THEOREM CurrentSizeExact == Spec => []SizeTracked
<1>1. SinkInv => SizeTracked
  BY DEF SinkInv, SizeInv
<1> QED
  BY <1>1, SinkInvariant, PTL

-----------------------------------------------------------------------------
(* Induction over the natural numbers, for sets: a smallest number that is *)
(* not in the set would have a predecessor that is.                        *)
LEMMA NatSetInduction ==
  ASSUME NEW S, 0 \in S, \A n \in Nat : n \in S => n + 1 \in S
  PROVE  \A n \in Nat : n \in S
<1> DEFINE R == OpToRel(<, Nat)
           T == {n \in Nat : n \notin S}
<1>1. IsWellFoundedOn(R, Nat)
  BY NatLessThanWellFounded, PTL
<1>2. \A x, y \in Nat : x < y => <<x, y>> \in R
  BY DEF OpToRel
<1>3. SUFFICES ASSUME T # {} PROVE FALSE
  OBVIOUS
<1>4. T \subseteq Nat
  OBVIOUS
<1>5. PICK x \in T : \A y \in T : ~(<<y, x>> \in R)
  <2> HIDE DEF R, T
  <2> QED
    BY <1>1, <1>3, <1>4, WFMin
<1>6. x \in Nat /\ x # 0
  OBVIOUS
<1>7. x - 1 \in T /\ x - 1 \in Nat /\ x - 1 < x
  BY <1>6
<1> QED
  BY <1>2, <1>5, <1>6, <1>7

LEMMA SuffixInduction ==
  ASSUME NEW S, 0 \in S, \A i \in 0..(MaxFiles - 1) : i \in S => i + 1 \in S
  PROVE  \A i \in Suffixes : i \in S
<1> DEFINE T == {n \in Nat : n \in Suffixes => n \in S}
<1>1. 0 \in T
  OBVIOUS
<1>2. \A n \in Nat : n \in T => n + 1 \in T
  BY Bounds DEF Suffixes
<1> HIDE DEF T
<1>3. \A n \in Nat : n \in T
  BY <1>1, <1>2, NatSetInduction
<1> QED
  BY <1>3, Bounds DEF T, Suffixes

-----------------------------------------------------------------------------
(* What the files hold together.                                           *)

Files == [Suffixes -> Seq(ByteSet) \union {None}]

StoredStep(fs, g, i) == IF i = 0 THEN Content(fs, 0) ELSE Content(fs, i) \o g[i - 1]

(* The function that StoredUpTo chooses exists.                            *)
LEMMA StoredExists ==
  ASSUME NEW fs
  PROVE  \A n \in Nat : \E g : g = [i \in 0..n |-> StoredStep(fs, g, i)]
<1> DEFINE S == {n \in Nat : \E g : g = [i \in 0..n |-> StoredStep(fs, g, i)]}
<1>1. 0 \in S
  <2> DEFINE g == [i \in 0..0 |-> Content(fs, 0)]
  <2>1. g = [i \in 0..0 |-> StoredStep(fs, g, i)]
    BY DEF StoredStep
  <2> QED
    BY <2>1
<1>2. ASSUME NEW n \in Nat, n \in S PROVE n + 1 \in S
  <2>1. PICK g : g = [i \in 0..n |-> StoredStep(fs, g, i)]
    BY <1>2
  <2> DEFINE h == [i \in 0..(n + 1) |-> IF i = n + 1 THEN Content(fs, n + 1) \o g[n] ELSE g[i]]
  <2>2. \A i \in 0..(n + 1) : h[i] = StoredStep(fs, h, i)
    <3> SUFFICES ASSUME NEW i \in 0..(n + 1) PROVE h[i] = StoredStep(fs, h, i)
      OBVIOUS
    <3>1. CASE i = n + 1
      <4>1. i # 0 /\ i - 1 = n /\ n \in 0..(n + 1) /\ n # n + 1
        BY <3>1
      <4>2. h[i] = Content(fs, i) \o g[n] /\ h[n] = g[n]
        BY <3>1, <4>1
      <4> QED
        BY <4>1, <4>2 DEF StoredStep
    <3>2. CASE i # n + 1
      <4>1. i \in 0..n /\ h[i] = g[i]
        BY <3>2
      <4>2. g[i] = StoredStep(fs, g, i)
        BY <2>1, <4>1
      <4>3. i # 0 => i - 1 \in 0..n /\ h[i - 1] = g[i - 1]
        BY <4>1
      <4> QED
        BY <4>1, <4>2, <4>3 DEF StoredStep
    <3> QED
      BY <3>1, <3>2
  <2>3. h = [i \in 0..(n + 1) |-> StoredStep(fs, h, i)]
    <3>1. h = [i \in 0..(n + 1) |-> h[i]]
      OBVIOUS
    <3> QED
      BY <2>2, <3>1
  <2> HIDE DEF h
  <2>4. \E f : f = [i \in 0..(n + 1) |-> StoredStep(fs, f, i)]
    BY <2>3
  <2> QED
    BY <2>4
<1> HIDE DEF S
<1>3. \A n \in Nat : n \in S
  BY <1>1, <1>2, NatSetInduction
<1> QED
  BY <1>3 DEF S

LEMMA StoredValue ==
  ASSUME NEW fs, NEW i \in Suffixes
  PROVE  StoredUpTo(fs)[i] =
           IF i = 0 THEN Content(fs, 0) ELSE Content(fs, i) \o StoredUpTo(fs)[i - 1]
<1>1. \E g : g = [j \in Suffixes |-> StoredStep(fs, g, j)]
  BY StoredExists, Bounds DEF Suffixes
<1>2. StoredUpTo(fs) = CHOOSE g : g = [j \in Suffixes |-> StoredStep(fs, g, j)]
  BY DEF StoredUpTo, StoredStep
<1>3. StoredUpTo(fs) = [j \in Suffixes |-> StoredStep(fs, StoredUpTo(fs), j)]
  BY <1>1, <1>2
<1> QED
  BY <1>3 DEF StoredStep

LEMMA ContentType ==
  ASSUME NEW fs \in Files, NEW i \in Suffixes
  PROVE  Content(fs, i) \in Seq(ByteSet)
<1>1. <<>> \in Seq(ByteSet)
  OBVIOUS
<1> QED
  BY <1>1 DEF Files, Content

LEMMA StoredType ==
  ASSUME NEW fs \in Files
  PROVE  \A i \in Suffixes : StoredUpTo(fs)[i] \in Seq(ByteSet)
<1> DEFINE S == {i \in Suffixes : StoredUpTo(fs)[i] \in Seq(ByteSet)}
<1>1. 0 \in S
  BY StoredValue, ContentType, Bounds
<1>2. ASSUME NEW i \in 0..(MaxFiles - 1), i \in S PROVE i + 1 \in S
  <2>1. i + 1 \in Suffixes /\ i + 1 # 0 /\ (i + 1) - 1 = i
    BY Bounds DEF Suffixes
  <2>2. StoredUpTo(fs)[i + 1] = Content(fs, i + 1) \o StoredUpTo(fs)[i]
    BY <2>1, StoredValue
  <2>3. Content(fs, i + 1) \in Seq(ByteSet) /\ StoredUpTo(fs)[i] \in Seq(ByteSet)
    BY <1>2, <2>1, ContentType
  <2>4. Content(fs, i + 1) \o StoredUpTo(fs)[i] \in Seq(ByteSet)
    BY <2>3
  <2> QED
    BY <2>1, <2>2, <2>4
<1> HIDE DEF S
<1>3. \A i \in Suffixes : i \in S
  BY <1>1, <1>2, SuffixInduction
<1> QED
  BY <1>3 DEF S

(* Files whose contents agree up to a suffix are stored alike up to it.    *)
LEMMA StoredSame ==
  ASSUME NEW fs, NEW gs, NEW n \in Suffixes,
         \A i \in 0..n : Content(gs, i) = Content(fs, i)
  PROVE  StoredUpTo(gs)[n] = StoredUpTo(fs)[n]
<1> DEFINE S == {i \in Suffixes : i <= n => StoredUpTo(gs)[i] = StoredUpTo(fs)[i]}
<1>0. n \in Nat /\ n \in 0..n
  BY Bounds DEF Suffixes
<1>1. 0 \in S
  BY <1>0, StoredValue, Bounds
<1>2. ASSUME NEW i \in 0..(MaxFiles - 1), i \in S PROVE i + 1 \in S
  <2>1. i + 1 \in Suffixes /\ i + 1 # 0 /\ (i + 1) - 1 = i /\ (i + 1 <= n => i <= n /\ i + 1 \in 0..n)
    BY <1>0, Bounds DEF Suffixes
  <2>2. /\ StoredUpTo(fs)[i + 1] = Content(fs, i + 1) \o StoredUpTo(fs)[i]
        /\ StoredUpTo(gs)[i + 1] = Content(gs, i + 1) \o StoredUpTo(gs)[i]
    BY <2>1, StoredValue
  <2> QED
    BY <1>2, <2>1, <2>2
<1> HIDE DEF S
<1>3. \A i \in Suffixes : i \in S
  BY <1>1, <1>2, SuffixInduction
<1> QED
  BY <1>0, <1>3 DEF S

(* What is appended to the base file comes last.                           *)
LEMMA StoredAppend ==
  ASSUME NEW fs \in Files, NEW gs, NEW x \in Seq(ByteSet),
         Content(gs, 0) = Content(fs, 0) \o x,
         \A i \in Suffixes \ {0} : Content(gs, i) = Content(fs, i)
  PROVE  Stored(gs) = Stored(fs) \o x
<1> DEFINE S == {i \in Suffixes : StoredUpTo(gs)[i] = StoredUpTo(fs)[i] \o x}
<1>1. 0 \in S
  BY StoredValue, Bounds
<1>2. ASSUME NEW i \in 0..(MaxFiles - 1), i \in S PROVE i + 1 \in S
  <2>1. i \in Suffixes /\ i + 1 \in Suffixes \ {0} /\ i + 1 # 0 /\ (i + 1) - 1 = i
    BY Bounds DEF Suffixes
  <2>2. /\ StoredUpTo(fs)[i + 1] = Content(fs, i + 1) \o StoredUpTo(fs)[i]
        /\ StoredUpTo(gs)[i + 1] = Content(fs, i + 1) \o StoredUpTo(gs)[i]
    BY <2>1, StoredValue
  <2>3. Content(fs, i + 1) \in Seq(ByteSet) /\ StoredUpTo(fs)[i] \in Seq(ByteSet)
    BY <2>1, ContentType, StoredType
  <2>4. Content(fs, i + 1) \o (StoredUpTo(fs)[i] \o x) = (Content(fs, i + 1) \o StoredUpTo(fs)[i]) \o x
    BY <2>3, ConcatOfThree
  <2>5. StoredUpTo(gs)[i] = StoredUpTo(fs)[i] \o x
    BY <1>2
  <2> QED
    BY <2>1, <2>2, <2>4, <2>5, Zenon
<1> HIDE DEF S
<1>3. \A i \in Suffixes : i \in S
  BY <1>1, <1>2, SuffixInduction
<1> QED
  BY <1>3, Bounds DEF S, Stored, Suffixes

(* When a file has moved to the next place the same is stored up to there, *)
(* and altogether, if that place was free.                                 *)
LEMMA StoredShift ==
  ASSUME NEW fs \in Files, NEW gs \in Files, NEW s \in 0..(MaxFiles - 1),
         Content(gs, s) = <<>>, Content(gs, s + 1) = Content(fs, s),
         \A i \in Suffixes \ {s, s + 1} : Content(gs, i) = Content(fs, i)
  PROVE  StoredUpTo(gs)[s + 1] = StoredUpTo(fs)[s]
<1>1. s \in Nat /\ s \in Suffixes /\ s + 1 \in Suffixes \ {0} /\ (s + 1) - 1 = s
  BY Bounds DEF Suffixes
<1>2. StoredUpTo(gs)[s + 1] = Content(fs, s) \o StoredUpTo(gs)[s]
  BY <1>1, StoredValue
<1>3. Content(fs, s) \in Seq(ByteSet)
  BY <1>1, ContentType
<1>4. CASE s = 0
  <2>1. StoredUpTo(gs)[s] = <<>> /\ StoredUpTo(fs)[s] = Content(fs, s)
    BY <1>1, <1>4, StoredValue
  <2> QED
    BY <1>2, <1>3, <2>1
<1>5. CASE s # 0
  <2>1. s - 1 \in Suffixes /\ \A i \in 0..(s - 1) : i \in Suffixes \ {s, s + 1}
    BY <1>1, <1>5, Bounds DEF Suffixes
  <2>2. StoredUpTo(gs)[s - 1] = StoredUpTo(fs)[s - 1] /\ StoredUpTo(gs)[s - 1] \in Seq(ByteSet)
    BY <2>1, StoredSame, StoredType
  <2>3. /\ StoredUpTo(gs)[s] = <<>> \o StoredUpTo(gs)[s - 1]
        /\ StoredUpTo(fs)[s] = Content(fs, s) \o StoredUpTo(fs)[s - 1]
    BY <1>1, <1>5, StoredValue
  <2>4. StoredUpTo(gs)[s] = StoredUpTo(gs)[s - 1]
    BY <2>2, <2>3
  <2> QED
    BY <1>2, <2>2, <2>3, <2>4
<1> QED
  BY <1>4, <1>5

LEMMA StoredShiftToFree ==
  ASSUME NEW fs \in Files, NEW gs \in Files, NEW s \in 0..(MaxFiles - 1),
         Content(gs, s) = <<>>, Content(gs, s + 1) = Content(fs, s),
         \A i \in Suffixes \ {s, s + 1} : Content(gs, i) = Content(fs, i),
         Content(fs, s + 1) = <<>>
  PROVE  Stored(gs) = Stored(fs)
<1> DEFINE S == {i \in Suffixes : i >= s + 1 => StoredUpTo(gs)[i] = StoredUpTo(fs)[i]}
<1>0. /\ s \in Nat /\ s \in Suffixes /\ s + 1 \in Suffixes \ {0} /\ (s + 1) - 1 = s
      /\ ~(0 >= s + 1) /\ MaxFiles >= s + 1 /\ MaxFiles \in Suffixes
  BY Bounds DEF Suffixes
<1>1. 0 \in S
  BY <1>0, Bounds
<1>2. ASSUME NEW i \in 0..(MaxFiles - 1), i \in S PROVE i + 1 \in S
  <2>1. i + 1 \in Suffixes /\ i + 1 # 0 /\ (i + 1) - 1 = i /\ i \in Suffixes
    BY Bounds DEF Suffixes
  <2>2. CASE i = s
    <3>1. StoredUpTo(gs)[i + 1] = StoredUpTo(fs)[i]
      BY <2>2, StoredShift
    <3>2. StoredUpTo(fs)[i + 1] = <<>> \o StoredUpTo(fs)[i]
      BY <2>1, <2>2, StoredValue
    <3>3. StoredUpTo(fs)[i] \in Seq(ByteSet)
      BY <2>1, StoredType
    <3>4. StoredUpTo(fs)[i + 1] = StoredUpTo(fs)[i]
      BY <3>2, <3>3
    <3> QED
      BY <2>1, <3>1, <3>4
  <2>3. CASE i > s
    <3>1. i >= s + 1 /\ i + 1 \in Suffixes \ {s, s + 1}
      BY <1>0, <2>1, <2>3
    <3>2. /\ StoredUpTo(fs)[i + 1] = Content(fs, i + 1) \o StoredUpTo(fs)[i]
          /\ StoredUpTo(gs)[i + 1] = Content(gs, i + 1) \o StoredUpTo(gs)[i]
      BY <2>1, StoredValue
    <3> QED
      BY <1>2, <2>1, <3>1, <3>2
  <2>4. CASE i < s
    BY <1>0, <2>1, <2>4
  <2> QED
    BY <1>0, <2>2, <2>3, <2>4
<1> HIDE DEF S
<1>3. \A i \in Suffixes : i \in S
  BY <1>1, <1>2, SuffixInduction
<1> QED
  BY <1>0, <1>3 DEF S, Stored

(* When the next place is the last one, what was there is forgotten.       *)
LEMMA StoredShiftOut ==
  ASSUME NEW fs \in Files, NEW gs \in Files, NEW s \in 0..(MaxFiles - 1), s + 1 = MaxFiles,
         Content(gs, s) = <<>>, Content(gs, s + 1) = Content(fs, s),
         \A i \in Suffixes \ {s, s + 1} : Content(gs, i) = Content(fs, i)
  PROVE  Stored(fs) = Content(fs, s + 1) \o Stored(gs)
<1>1. s \in Nat /\ s + 1 \in Suffixes /\ s + 1 # 0 /\ (s + 1) - 1 = s
  BY Bounds DEF Suffixes
<1>2. StoredUpTo(fs)[s + 1] = Content(fs, s + 1) \o StoredUpTo(fs)[s]
  BY <1>1, StoredValue
<1> QED
  BY <1>2, StoredShift DEF Stored

(* In the order of the suffixes, what is stored is in order.               *)
LEMMA ConcatIncreasing ==
  ASSUME NEW f \in Seq(ByteSet), NEW g \in Seq(ByteSet),
         Increasing(f), Increasing(g), Precedes(f, g)
  PROVE  Increasing(f \o g)
<1> SUFFICES ASSUME NEW i \in 1..Len(f \o g), NEW j \in 1..Len(f \o g), i < j
             PROVE  Before((f \o g)[i], (f \o g)[j])
  BY DEF Increasing
<1>1. Len(f) \in Nat /\ Len(g) \in Nat /\ Len(f \o g) = Len(f) + Len(g)
  OBVIOUS
<1>2. \A k \in 1..Len(f \o g) :
        \/ k \in 1..Len(f) /\ (f \o g)[k] = f[k]
        \/ k > Len(f) /\ k - Len(f) \in 1..Len(g) /\ (f \o g)[k] = g[k - Len(f)]
  OBVIOUS
<1>3. CASE i \in 1..Len(f) /\ j \in 1..Len(f)
  BY <1>1, <1>2, <1>3 DEF Increasing
<1>4. CASE i \in 1..Len(f) /\ j > Len(f)
  BY <1>1, <1>2, <1>4 DEF Precedes
<1>5. CASE i > Len(f) /\ j > Len(f)
  <2>1. i - Len(f) \in 1..Len(g) /\ j - Len(f) \in 1..Len(g) /\ i - Len(f) < j - Len(f)
    BY <1>1, <1>5
  <2>2. (f \o g)[i] = g[i - Len(f)] /\ (f \o g)[j] = g[j - Len(f)]
    BY <1>1, <1>2, <1>5
  <2> QED
    BY <2>1, <2>2 DEF Increasing
<1> QED
  BY <1>1, <1>3, <1>4, <1>5

(* Every byte that is stored is a byte of a file.                          *)
Among(fs, b, n) == \E i \in 0..n : \E k \in 1..Len(Content(fs, i)) : b = Content(fs, i)[k]

LEMMA StoredAmong ==
  ASSUME NEW fs \in Files
  PROVE  \A n \in Suffixes : \A k \in 1..Len(StoredUpTo(fs)[n]) : Among(fs, StoredUpTo(fs)[n][k], n)
<1> DEFINE S == {n \in Suffixes :
                   \A k \in 1..Len(StoredUpTo(fs)[n]) : Among(fs, StoredUpTo(fs)[n][k], n)}
<1>1. 0 \in S
  BY StoredValue, Bounds DEF Among
<1>2. ASSUME NEW n \in 0..(MaxFiles - 1), n \in S PROVE n + 1 \in S
  <2>1. n + 1 \in Suffixes /\ n + 1 # 0 /\ (n + 1) - 1 = n /\ n \in Suffixes /\ n + 1 \in 0..(n + 1)
    BY Bounds DEF Suffixes
  <2> DEFINE f == Content(fs, n + 1)
             g == StoredUpTo(fs)[n]
  <2>2. StoredUpTo(fs)[n + 1] = f \o g
    BY <2>1, StoredValue
  <2>3. f \in Seq(ByteSet) /\ g \in Seq(ByteSet)
    BY <2>1, ContentType, StoredType
  <2>4. \A k \in 1..Len(f) : Among(fs, f[k], n + 1)
    BY <2>1 DEF Among
  <2>5. \A k \in 1..Len(g) : Among(fs, g[k], n + 1)
    <3>1. \A k \in 1..Len(g) : Among(fs, g[k], n)
      BY <1>2
    <3>2. \A b : Among(fs, b, n) => Among(fs, b, n + 1)
      BY DEF Among
    <3> QED
      BY <3>1, <3>2
  <2>6. ASSUME NEW k \in 1..Len(f \o g) PROVE Among(fs, (f \o g)[k], n + 1)
    <3> HIDE DEF f, g
    <3>1. \/ k \in 1..Len(f) /\ (f \o g)[k] = f[k]
          \/ k - Len(f) \in 1..Len(g) /\ (f \o g)[k] = g[k - Len(f)]
      BY <2>3
    <3> QED
      BY <2>4, <2>5, <3>1
  <2> HIDE DEF f, g
  <2> QED
    BY <2>1, <2>2, <2>6
<1> HIDE DEF S
<1>3. \A i \in Suffixes : i \in S
  BY <1>1, <1>2, SuffixInduction
<1> QED
  BY <1>3 DEF S

LEMMA StoredOrdered ==
  ASSUME NEW fs \in Files, FilesOrdered(fs)
  PROVE  \A n \in Suffixes : Increasing(StoredUpTo(fs)[n])
<1> DEFINE S == {n \in Suffixes : Increasing(StoredUpTo(fs)[n])}
<1>1. 0 \in S
  BY StoredValue, Bounds DEF FilesOrdered
<1>2. ASSUME NEW n \in 0..(MaxFiles - 1), n \in S PROVE n + 1 \in S
  <2>1. n + 1 \in Suffixes /\ n + 1 # 0 /\ (n + 1) - 1 = n /\ n \in Suffixes
    BY Bounds DEF Suffixes
  <2> DEFINE f == Content(fs, n + 1)
             g == StoredUpTo(fs)[n]
  <2>2. StoredUpTo(fs)[n + 1] = f \o g
    BY <2>1, StoredValue
  <2>3. f \in Seq(ByteSet) /\ g \in Seq(ByteSet)
    BY <2>1, ContentType, StoredType
  <2>4. Precedes(f, g)
    <3>1. SUFFICES ASSUME NEW j \in 1..Len(f), NEW k \in 1..Len(g) PROVE Before(f[j], g[k])
      BY DEF Precedes
    <3>2. Among(fs, g[k], n)
      BY <2>1, StoredAmong
    <3>3. PICK i \in 0..n : \E m \in 1..Len(Content(fs, i)) : g[k] = Content(fs, i)[m]
      BY <3>2 DEF Among
    <3>4. i \in Suffixes /\ i < n + 1
      BY <2>1, Bounds DEF Suffixes
    <3>5. Precedes(f, Content(fs, i))
      BY <2>1, <3>4 DEF FilesOrdered
    <3> QED
      BY <3>3, <3>5 DEF Precedes
  <2>5. Increasing(f) /\ Increasing(g)
    BY <1>2, <2>1 DEF FilesOrdered
  <2>6. Increasing(f \o g)
    <3> HIDE DEF f, g
    <3> QED
      BY <2>3, <2>4, <2>5, ConcatIncreasing
  <2> QED
    BY <2>1, <2>2, <2>6
<1> HIDE DEF S
<1>3. \A i \in Suffixes : i \in S
  BY <1>1, <1>2, SuffixInduction
<1> QED
  BY <1>3 DEF S

-----------------------------------------------------------------------------
(* The order of the bytes.                                                 *)

LEMMA OrderOfEmpty ==
  /\ Increasing(<<>>)
  /\ \A q : Precedes(<<>>, q) /\ Precedes(q, <<>>)
  /\ \A n : UpTo(<<>>, n)
<1>1. 1..Len(<<>>) = {}
  OBVIOUS
<1> QED
  BY <1>1 DEF Increasing, Precedes, UpTo

LEMMA OrderOfConcat ==
  ASSUME NEW f \in Seq(ByteSet), NEW g \in Seq(ByteSet)
  PROVE  /\ \A q : Precedes(f, q) /\ Precedes(g, q) => Precedes(f \o g, q)
         /\ \A q : Precedes(q, f) /\ Precedes(q, g) => Precedes(q, f \o g)
         /\ \A n : UpTo(f, n) /\ UpTo(g, n) => UpTo(f \o g, n)
<1>1. \A k \in 1..Len(f \o g) :
        \/ k \in 1..Len(f) /\ (f \o g)[k] = f[k]
        \/ k - Len(f) \in 1..Len(g) /\ (f \o g)[k] = g[k - Len(f)]
  OBVIOUS
<1> QED
  BY <1>1 DEF Precedes, UpTo

LEMMA OrderOfPrefix ==
  ASSUME NEW f \in Seq(ByteSet), NEW k \in 0..Len(f)
  PROVE  /\ Increasing(f) => Increasing(SubSeq(f, 1, k))
         /\ \A q : Precedes(f, q) => Precedes(SubSeq(f, 1, k), q)
         /\ \A q : Precedes(q, f) => Precedes(q, SubSeq(f, 1, k))
         /\ \A n : UpTo(f, n) => UpTo(SubSeq(f, 1, k), n)
<1>1. Len(SubSeq(f, 1, k)) = k /\ \A j \in 1..k : j \in 1..Len(f) /\ SubSeq(f, 1, k)[j] = f[j]
  OBVIOUS
<1> QED
  BY <1>1 DEF Increasing, Precedes, UpTo

LEMMA NewBytes ==
  ASSUME NEW n \in 0..MaxMessages, NEW size \in Nat
  PROVE  /\ Increasing(Bytes(n, size)) /\ UpTo(Bytes(n, size), n)
         /\ \A q \in Seq(ByteSet) : \A m \in Nat : m < n /\ UpTo(q, m) => Precedes(q, Bytes(n, size))
<1>1. /\ Len(Bytes(n, size)) = size
      /\ \A i \in 1..size : Bytes(n, size)[i] = [of |-> n, at |-> i]
  BY DEF Bytes
<1>2. Increasing(Bytes(n, size)) /\ UpTo(Bytes(n, size), n)
  BY <1>1, Bounds DEF Increasing, UpTo, Before
<1>3. ASSUME NEW q \in Seq(ByteSet), NEW m \in Nat, m < n, UpTo(q, m)
      PROVE  Precedes(q, Bytes(n, size))
  <2>1. \A i \in 1..Len(q) : q[i] \in ByteSet /\ q[i].of <= m
    BY <1>3 DEF UpTo
  <2>2. \A i \in 1..Len(q) : q[i].of \in Nat /\ q[i].of < n
    BY <1>3, <2>1, Bounds DEF ByteSet
  <2> QED
    BY <1>1, <2>2 DEF Precedes, Before
<1> QED
  BY <1>2, <1>3

(* The files after a write, ...                                            *)
LEMMA FilesWritten ==
  ASSUME NEW fs \in Files, NEW gs, NEW p \in Seq(ByteSet),
         Content(gs, 0) = Content(fs, 0) \o p,
         \A i \in Suffixes \ {0} : Content(gs, i) = Content(fs, i),
         FilesOrdered(fs), FilesPrecede(fs, p), Increasing(p)
  PROVE  /\ FilesOrdered(gs)
         /\ \A q : FilesPrecede(fs, q) /\ Precedes(p, q) => FilesPrecede(gs, q)
         /\ \A n : FilesUpTo(fs, n) /\ UpTo(p, n) => FilesUpTo(gs, n)
<1> DEFINE f == Content(fs, 0)
<1>1. f \in Seq(ByteSet) /\ Increasing(f) /\ Precedes(f, p)
  BY ContentType, Bounds DEF FilesOrdered, FilesPrecede
<1>2. Increasing(f \o p)
  <2> HIDE DEF f
  <2> QED
    BY <1>1, ConcatIncreasing
<1>3. /\ \A q : Precedes(f, q) /\ Precedes(p, q) => Precedes(f \o p, q)
      /\ \A q : Precedes(q, f) /\ Precedes(q, p) => Precedes(q, f \o p)
      /\ \A n : UpTo(f, n) /\ UpTo(p, n) => UpTo(f \o p, n)
  <2> HIDE DEF f
  <2> QED
    BY <1>1, OrderOfConcat
<1>4. ASSUME NEW i \in Suffixes, NEW j \in Suffixes, i < j
      PROVE  Precedes(Content(gs, j), Content(gs, i))
  <2>1. j # 0 /\ Content(gs, j) = Content(fs, j)
    BY <1>4, Bounds DEF Suffixes
  <2>2. Precedes(Content(fs, j), Content(fs, i)) /\ Precedes(Content(fs, j), p)
    BY <1>4 DEF FilesOrdered, FilesPrecede
  <2> QED
    BY <1>3, <2>1, <2>2
<1>5. \A i \in Suffixes : Increasing(Content(gs, i))
  BY <1>2 DEF FilesOrdered
<1>6. FilesOrdered(gs)
  BY <1>4, <1>5 DEF FilesOrdered
<1>7. ASSUME NEW q, FilesPrecede(fs, q), Precedes(p, q) PROVE FilesPrecede(gs, q)
  BY <1>3, <1>7, Bounds DEF FilesPrecede
<1>8. ASSUME NEW n, FilesUpTo(fs, n), UpTo(p, n) PROVE FilesUpTo(gs, n)
  BY <1>3, <1>8, Bounds DEF FilesUpTo
<1> QED
  BY <1>6, <1>7, <1>8

(* ... after some have been emptied or removed, ...                        *)
LEMMA FilesForgotten ==
  ASSUME NEW fs, NEW gs, \A i \in Suffixes : Content(gs, i) \in {<<>>, Content(fs, i)},
         FilesOrdered(fs)
  PROVE  /\ FilesOrdered(gs)
         /\ \A q : FilesPrecede(fs, q) => FilesPrecede(gs, q)
         /\ \A n : FilesUpTo(fs, n) => FilesUpTo(gs, n)
<1>1. FilesOrdered(gs)
  <2>1. \A i \in Suffixes : Increasing(Content(gs, i))
    BY OrderOfEmpty DEF FilesOrdered
  <2>2. \A i, j \in Suffixes : i < j => Precedes(Content(gs, j), Content(gs, i))
    BY OrderOfEmpty DEF FilesOrdered
  <2> QED
    BY <2>1, <2>2 DEF FilesOrdered
<1>2. ASSUME NEW q, FilesPrecede(fs, q) PROVE FilesPrecede(gs, q)
  BY <1>2, OrderOfEmpty DEF FilesPrecede
<1>3. ASSUME NEW n, FilesUpTo(fs, n) PROVE FilesUpTo(gs, n)
  BY <1>3, OrderOfEmpty DEF FilesUpTo
<1> QED
  BY <1>1, <1>2, <1>3

(* ... and after one has been renamed.                                     *)
LEMMA RenamedContents ==
  ASSUME NEW fs \in Files, NEW s \in 0..(MaxFiles - 1)
  PROVE  /\ s \in Suffixes /\ s + 1 \in Suffixes /\ s # s + 1
         /\ Renamed(fs, s, s + 1) \in Files
         /\ fs[s] = None => Renamed(fs, s, s + 1) = fs
         /\ fs[s] # None =>
              /\ Renamed(fs, s, s + 1)[s] = None /\ Renamed(fs, s, s + 1)[s + 1] = fs[s]
              /\ Content(Renamed(fs, s, s + 1), s) = <<>>
              /\ Content(Renamed(fs, s, s + 1), s + 1) = Content(fs, s)
         /\ \A i \in Suffixes \ {s, s + 1} :
              /\ Renamed(fs, s, s + 1)[i] = fs[i]
              /\ Content(Renamed(fs, s, s + 1), i) = Content(fs, i)
<1>1. s \in Suffixes /\ s + 1 \in Suffixes /\ s # s + 1
  BY Bounds DEF Suffixes
<1>2. CASE fs[s] = None
  BY <1>1, <1>2 DEF Renamed
<1>3. CASE fs[s] # None
  <2> DEFINE gs == Renamed(fs, s, s + 1)
  <2>1. gs = [fs EXCEPT ![s + 1] = fs[s], ![s] = None]
    BY <1>3 DEF Renamed
  <2>2. gs[s] = None /\ gs[s + 1] = fs[s] /\ \A i \in Suffixes \ {s, s + 1} : gs[i] = fs[i]
    BY <1>1, <2>1 DEF Files
  <2>3. gs \in Files
    BY <1>1, <2>1 DEF Files
  <2> QED
    BY <1>1, <1>3, <2>2, <2>3 DEF Content
<1> QED
  BY <1>2, <1>3

LEMMA FilesRenamed ==
  ASSUME NEW fs \in Files, NEW s \in 0..(MaxFiles - 1), FilesOrdered(fs)
  PROVE  /\ FilesOrdered(Renamed(fs, s, s + 1))
         /\ \A q : FilesPrecede(fs, q) => FilesPrecede(Renamed(fs, s, s + 1), q)
         /\ \A n : FilesUpTo(fs, n) => FilesUpTo(Renamed(fs, s, s + 1), n)
<1> DEFINE gs == Renamed(fs, s, s + 1)
<1>1. CASE fs[s] = None
  BY <1>1, RenamedContents
<1>2. CASE fs[s] # None
  <2>1. /\ s \in Suffixes /\ s + 1 \in Suffixes /\ s \in Nat
        /\ Content(gs, s) = <<>> /\ Content(gs, s + 1) = Content(fs, s)
        /\ \A i \in Suffixes \ {s, s + 1} : Content(gs, i) = Content(fs, i)
    BY <1>2, RenamedContents
  <2> HIDE DEF gs
  <2>2. \A i \in Suffixes : Increasing(Content(gs, i))
    BY <2>1, OrderOfEmpty DEF FilesOrdered
  <2>3. ASSUME NEW i \in Suffixes, NEW j \in Suffixes, i < j
        PROVE  Precedes(Content(gs, j), Content(gs, i))
    <3>0. i \in Nat /\ j \in Nat
      BY Bounds DEF Suffixes
    <3>1. CASE i = s \/ j = s
      BY <2>1, <3>1, OrderOfEmpty
    <3>2. CASE i # s /\ j # s /\ i = s + 1
      <4>1. s < j /\ j # s + 1
        BY <2>1, <2>3, <3>0, <3>2
      <4> QED
        BY <2>1, <3>2, <4>1 DEF FilesOrdered
    <3>3. CASE i # s /\ j # s /\ j = s + 1
      <4>1. i < s /\ i # s + 1
        BY <2>1, <2>3, <3>0, <3>3
      <4> QED
        BY <2>1, <3>3, <4>1 DEF FilesOrdered
    <3>4. CASE i \notin {s, s + 1} /\ j \notin {s, s + 1}
      BY <2>1, <2>3, <3>4 DEF FilesOrdered
    <3> QED
      BY <3>1, <3>2, <3>3, <3>4
  <2>4. ASSUME NEW q, FilesPrecede(fs, q) PROVE FilesPrecede(gs, q)
    BY <2>1, <2>4, OrderOfEmpty DEF FilesPrecede
  <2>5. ASSUME NEW n, FilesUpTo(fs, n) PROVE FilesUpTo(gs, n)
    BY <2>1, <2>5, OrderOfEmpty DEF FilesUpTo
  <2>6. FilesOrdered(gs)
    BY <2>2, <2>3 DEF FilesOrdered
  <2> QED
    BY <2>4, <2>5, <2>6 DEF gs
<1> QED
  BY <1>1, <1>2

-----------------------------------------------------------------------------
(* The system calls, as the contents of the files see them.                *)

LEMMA NoneIsNoFile == \A q \in Seq(ByteSet) : q # None
<1>1. ByteSet \subseteq [of : Nat, at : Nat]
  BY Bounds DEF ByteSet
<1>2. \A q \in Seq(ByteSet) : q \in Seq([of : Nat, at : Nat])
  BY <1>1, SeqMonotonic
<1> QED
  BY <1>2, FileSinkAssumption

LEMMA FileContents ==
  ASSUME SinkOK
  PROVE  /\ files \in Files
         /\ buf \in Seq(ByteSet) /\ msg \in Seq(ByteSet)
         /\ \A i \in Suffixes : files[i] \in Seq(ByteSet) => files[i] # None /\ Content(files, i) = files[i]
         /\ open => files[0] # None
<1> QED
  BY NoneIsNoFile DEF SinkOK, Files, Content

LEMMA WriteContents ==
  ASSUME SinkOK, open, NEW bytes \in Seq(ByteSet), Write(bytes)
  PROVE  /\ files' \in Files /\ files'[0] # None
         /\ \A i \in Suffixes \ {0} : files'[i] = files[i] /\ Content(files', i) = Content(files, i)
         /\ \E k \in 0..Len(bytes) :
              /\ Content(files', 0) = Content(files, 0) \o SubSeq(bytes, 1, k)
              /\ (k = Len(bytes) /\ NoFault) \/ Fault
<1>1. PICK k \in 0..Len(bytes) :
        /\ files' = [files EXCEPT ![0] = @ \o SubSeq(bytes, 1, k)]
        /\ IF k = Len(bytes) THEN NoFault ELSE Fault
  BY DEF Write
<1>2. SubSeq(bytes, 1, k) \in Seq(ByteSet)
  BY OwnersOfPrefix
<1>3. files[0] \in Seq(ByteSet) /\ files \in Files /\ Content(files, 0) = files[0]
  BY FileContents, Bounds DEF SinkOK
<1>4. files[0] \o SubSeq(bytes, 1, k) \in Seq(ByteSet)
  BY <1>2, <1>3, OwnersOfConcat
<1>5. /\ files'[0] = files[0] \o SubSeq(bytes, 1, k)
      /\ \A i \in Suffixes \ {0} : files'[i] = files[i]
      /\ files' \in Files
  BY <1>1, <1>3, <1>4, Bounds DEF Files
<1>6. files'[0] # None
  BY <1>4, <1>5, NoneIsNoFile
<1>7. Content(files', 0) = Content(files, 0) \o SubSeq(bytes, 1, k)
  BY <1>3, <1>5, <1>6 DEF Content
<1>8. \A i \in Suffixes \ {0} : Content(files', i) = Content(files, i)
  BY <1>5 DEF Content
<1>9. (k = Len(bytes) /\ NoFault) \/ Fault
  BY <1>1
<1> QED
  BY <1>5, <1>6, <1>7, <1>8, <1>9

LEMMA OpenContents ==
  ASSUME SinkOK, NEW truncate \in BOOLEAN, OpenFile(truncate)
  PROVE  /\ files' \in Files
         /\ \A i \in Suffixes \ {0} : files'[i] = files[i] /\ Content(files', i) = Content(files, i)
         /\ Content(files', 0) \in {<<>>, Content(files, 0)}
         /\ files[0] = None => Content(files', 0) = Content(files, 0)
         /\ open' => files'[0] # None
<1>0. <<>> \in Seq(ByteSet) /\ <<>> # None
  BY NoneIsNoFile, OwnersOfEmpty
<1>1. files \in Files
  BY FileContents
<1>2. CASE open' = TRUE /\ files' = [files EXCEPT ![0] = IF truncate \/ @ = None THEN <<>> ELSE @]
  <2>1. /\ files'[0] = IF truncate \/ files[0] = None THEN <<>> ELSE files[0]
        /\ \A i \in Suffixes \ {0} : files'[i] = files[i]
        /\ files' \in Files
    BY <1>0, <1>1, <1>2, Bounds DEF Files
  <2> QED
    BY <1>0, <2>1 DEF Content
<1>3. CASE open' = FALSE /\ files' = files
  BY <1>1, <1>3 DEF Content
<1> QED
  BY <1>2, <1>3 DEF OpenFile

LEMMA FlushContents ==
  ASSUME SinkOK, FlushBuffer
  PROVE  \/ /\ open /\ buf' = <<>>
            /\ files' \in Files /\ files'[0] # None
            /\ \A i \in Suffixes \ {0} : files'[i] = files[i] /\ Content(files', i) = Content(files, i)
            /\ \E k \in 0..Len(buf) :
                 /\ Content(files', 0) = Content(files, 0) \o SubSeq(buf, 1, k)
                 /\ (k = Len(buf) /\ NoFault) \/ Fault
         \/ ~open /\ files' = files /\ buf' = buf /\ NoFault
<1>1. CASE open
  <2>1. Write(buf) /\ buf' = <<>> /\ buf \in Seq(ByteSet)
    BY <1>1 DEF FlushBuffer, SinkOK
  <2> HIDE DEF Write
  <2> QED
    BY <1>1, <2>1, WriteContents
<1>2. CASE ~open
  BY <1>2 DEF FlushBuffer, NoFault
<1> QED
  BY <1>1, <1>2

-----------------------------------------------------------------------------
(* The bytes stay in order.                                                *)

LEMMA FlushOrder ==
  ASSUME SinkOK, OrderInv, FlushBuffer
  PROVE  /\ FilesOrdered(files') /\ Increasing(buf')
         /\ FilesPrecede(files', buf') /\ FilesPrecede(files', msg) /\ Precedes(buf', msg)
         /\ FilesUpTo(files', count) /\ UpTo(buf', count)
<1>1. CASE open /\ buf' = <<>>
  <2>1. PICK k \in 0..Len(buf) : Content(files', 0) = Content(files, 0) \o SubSeq(buf, 1, k)
    BY <1>1, FlushContents
  <2>2. \A i \in Suffixes \ {0} : Content(files', i) = Content(files, i)
    BY <1>1, FlushContents
  <2> DEFINE p == SubSeq(buf, 1, k)
  <2>3. p \in Seq(ByteSet) /\ Increasing(p) /\ Precedes(p, msg) /\ UpTo(p, count)
    BY FileContents, OwnersOfPrefix, OrderOfPrefix DEF OrderInv
  <2>4. FilesPrecede(files, p)
    BY FileContents, OrderOfPrefix DEF OrderInv, FilesPrecede
  <2>5. FilesOrdered(files) /\ FilesPrecede(files, msg) /\ FilesUpTo(files, count) /\ files \in Files
    BY FileContents DEF OrderInv
  <2> HIDE DEF p
  <2>6. FilesOrdered(files') /\ FilesPrecede(files', msg) /\ FilesUpTo(files', count)
    BY <2>1, <2>2, <2>3, <2>4, <2>5, FilesWritten DEF p
  <2> QED
    BY <1>1, <2>6, OrderOfEmpty DEF FilesPrecede
<1>2. CASE ~open /\ files' = files /\ buf' = buf
  BY <1>2 DEF OrderInv
<1> QED
  BY <1>1, <1>2, FlushContents

LEMMA ConstructOrder ==
  ASSUME SinkOK, OrderInv, NEW truncate \in BOOLEAN, Construct(truncate)
  PROVE  OrderInv'
<1>1. OpenFile(truncate) /\ buf' = <<>> /\ pc' = "idle" /\ msg' = msg /\ count' = count
  BY DEF Construct
<1>2. \A i \in Suffixes : Content(files', i) \in {<<>>, Content(files, i)}
  BY <1>1, OpenContents
<1>3. FilesOrdered(files') /\ FilesPrecede(files', msg) /\ FilesUpTo(files', count)
  BY <1>2, FilesForgotten DEF OrderInv
<1> QED
  BY <1>1, <1>3, OrderOfEmpty DEF OrderInv, FilesPrecede

LEMMA FlushingOrder ==
  ASSUME SinkOK, OrderInv, Destroy \/ FlushSink \/ RotateFiles
  PROVE  OrderInv'
<1>1. FlushBuffer /\ msg' = msg /\ count' = count /\ pc' # "direct"
  BY DEF Destroy, FlushSink, RotateFiles, boundVars
<1> QED
  BY <1>1, FlushOrder DEF OrderInv

LEMMA CrashOrder ==
  ASSUME SinkOK, OrderInv, Crash PROVE OrderInv'
BY OrderOfEmpty DEF Crash, boundVars, OrderInv, FilesPrecede

LEMMA UpToMonotone ==
  ASSUME NEW q \in Seq(ByteSet), NEW m \in Nat, NEW n \in Nat, m <= n, UpTo(q, m)
  PROVE  UpTo(q, n)
<1>1. \A i \in 1..Len(q) : q[i] \in ByteSet /\ q[i].of <= m
  BY DEF UpTo
<1>2. \A i \in 1..Len(q) : q[i].of \in Nat
  BY <1>1, Bounds DEF ByteSet
<1> QED
  BY <1>1, <1>2 DEF UpTo

LEMMA CountGrows ==
  ASSUME SinkOK, CountsOK, OrderInv, count' = count + 1
  PROVE  FilesUpTo(files, count') /\ UpTo(buf, count') /\ UpTo(msg, count')
<1>1. count \in Nat /\ count' \in Nat /\ count <= count'
  BY Bounds DEF CountsOK
<1>2. files \in Files /\ buf \in Seq(ByteSet) /\ msg \in Seq(ByteSet)
  BY FileContents
<1>3. \A i \in Suffixes : UpTo(Content(files, i), count')
  BY <1>1, <1>2, ContentType, UpToMonotone DEF OrderInv, FilesUpTo
<1>4. UpTo(buf, count') /\ UpTo(msg, count')
  BY <1>1, <1>2, UpToMonotone DEF OrderInv
<1> QED
  BY <1>3, <1>4 DEF FilesUpTo

LEMMA SinkItOrder ==
  ASSUME SinkOK, CountsOK, OrderInv, NEW size \in Sizes, SinkIt(size)
  PROVE  OrderInv'
<1>1. /\ files' = files /\ buf' = buf /\ msg' = Bytes(count + 1, size)
      /\ count' = count + 1 /\ pc' \in {"rotate", "store"}
  BY DEF SinkIt, Receive, fileVars
<1>2. count + 1 \in 0..MaxMessages /\ count \in Nat /\ count < count + 1 /\ size \in Nat
  BY Bounds DEF SinkIt, Receive, CountsOK
<1>3. /\ Increasing(msg') /\ UpTo(msg', count')
      /\ \A q \in Seq(ByteSet) : UpTo(q, count) => Precedes(q, msg')
  BY <1>1, <1>2, NewBytes
<1>4. FilesPrecede(files, msg')
  BY <1>3, FileContents, ContentType DEF OrderInv, FilesUpTo, FilesPrecede
<1>5. Precedes(buf, msg')
  BY <1>3, FileContents DEF OrderInv
<1>6. FilesUpTo(files, count') /\ UpTo(buf, count')
  BY <1>1, CountGrows
<1> QED
  BY <1>1, <1>3, <1>4, <1>5, <1>6 DEF OrderInv

LEMMA SinkItClosedOrder ==
  ASSUME SinkOK, CountsOK, OrderInv, NEW size \in Sizes, SinkItClosed(size)
  PROVE  OrderInv'
<1>1. /\ files' = files /\ buf' = buf /\ msg' = msg /\ pc' = pc /\ count' = count + 1
  BY DEF SinkItClosed, Receive, fileVars
<1> QED
  BY <1>1, CountGrows DEF OrderInv

LEMMA ShiftFileOrder ==
  ASSUME SinkOK, OrderInv, ShiftFile PROVE OrderInv'
<1> DEFINE unlinked == IF slot > 0 /\ slot = MaxFiles - 1
                       THEN [files EXCEPT ![slot + 1] = None] ELSE files
           InOrder(fs) == /\ FilesOrdered(fs) /\ FilesPrecede(fs, buf) /\ FilesPrecede(fs, msg)
                          /\ FilesUpTo(fs, count)
<1>1. files' \in {files, unlinked, Renamed(files, slot, slot + 1), Renamed(unlinked, slot, slot + 1)}
  BY DEF ShiftFile
<1>2. buf' = buf /\ msg' = msg /\ count' = count /\ pc' # "direct"
  BY DEF ShiftFile, boundVars
<1>3. slot \in 0..(MaxFiles - 1) /\ slot + 1 \in Suffixes /\ files \in Files
  BY FileContents, Bounds DEF SinkOK, Suffixes
<1>4. unlinked \in Files /\ \A i \in Suffixes : Content(unlinked, i) \in {<<>>, Content(files, i)}
  BY <1>3 DEF Files, Content
<1>5. InOrder(files)
  BY DEF OrderInv
<1> HIDE DEF unlinked
<1>6. InOrder(unlinked)
  BY <1>4, <1>5, FilesForgotten
<1>7. InOrder(Renamed(files, slot, slot + 1)) /\ InOrder(Renamed(unlinked, slot, slot + 1))
  BY <1>3, <1>4, <1>5, <1>6, FilesRenamed
<1>8. InOrder(files')
  <2> HIDE DEF InOrder
  <2> QED
    BY <1>1, <1>5, <1>6, <1>7
<1> QED
  BY <1>2, <1>8 DEF OrderInv

LEMMA ShiftThrowsOrder ==
  ASSUME SinkOK, OrderInv, ShiftThrows PROVE OrderInv'
BY DEF ShiftThrows, fileVars, boundVars, OrderInv

LEMMA ReopenOrder ==
  ASSUME SinkOK, OrderInv, Reopen PROVE OrderInv'
<1>1. OpenFile(TRUE) /\ buf' = buf /\ pc' = "store" /\ msg' = msg /\ count' = count
  BY DEF Reopen, boundVars
<1>2. \A i \in Suffixes : Content(files', i) \in {<<>>, Content(files, i)}
  BY <1>1, OpenContents
<1>3. /\ FilesOrdered(files') /\ FilesPrecede(files', buf) /\ FilesPrecede(files', msg)
      /\ FilesUpTo(files', count)
  BY <1>2, FilesForgotten DEF OrderInv
<1> QED
  BY <1>1, <1>3 DEF OrderInv

LEMMA StoreOrder ==
  ASSUME SinkInv, OrderInv, Store PROVE OrderInv'
<1>1. /\ pc = "store" /\ msg' = msg /\ count' = count
      /\ pc' = IF Len(msg) > BufSize THEN "direct" ELSE "append"
  BY DEF Store, boundVars
<1>2. SinkOK /\ Len(buf) \in Nat /\ Len(msg) \in Nat /\ (~open => buf = <<>>)
  BY <1>1 DEF SinkInv, SinkOK, SizeInv, Sinking
<1>3. CASE Len(buf) + Len(msg) > BufSize
  <2>1. FlushBuffer
    BY <1>3 DEF Store
  <2>2. buf' = <<>>
    BY <1>2, <2>1, FlushContents
  <2> QED
    BY <1>1, <1>2, <2>1, <2>2, FlushOrder DEF OrderInv
<1>4. CASE ~(Len(buf) + Len(msg) > BufSize)
  <2>1. files' = files /\ buf' = buf
    BY <1>4 DEF Store
  <2>2. pc' # "direct"
    BY <1>1, <1>2, <1>4, Bounds
  <2> QED
    BY <1>1, <2>1, <2>2 DEF OrderInv
<1> QED
  BY <1>3, <1>4

LEMMA AppendToBufferOrder ==
  ASSUME SinkOK, OrderInv, AppendToBuffer PROVE OrderInv'
<1>1. /\ buf' = buf \o msg /\ msg' = <<>> /\ files' = files /\ count' = count /\ pc' = "idle"
  BY DEF AppendToBuffer, fileVars, boundVars
<1>2. buf \in Seq(ByteSet) /\ msg \in Seq(ByteSet)
  BY FileContents
<1>3. Increasing(buf \o msg) /\ UpTo(buf \o msg, count)
  BY <1>2, ConcatIncreasing, OrderOfConcat DEF OrderInv
<1>4. FilesPrecede(files, buf \o msg)
  BY <1>2, OrderOfConcat DEF OrderInv, FilesPrecede
<1> QED
  BY <1>1, <1>3, <1>4, OrderOfEmpty DEF OrderInv, FilesPrecede

LEMMA WriteDirectOrder ==
  ASSUME SinkOK, OrderInv, WriteDirect PROVE OrderInv'
<1>1. /\ pc = "direct" /\ buf = <<>> /\ buf' = buf /\ msg' = <<>> /\ count' = count /\ pc' = "idle"
  BY DEF WriteDirect, boundVars, OrderInv
<1>2. CASE open
  <2>1. Write(msg) /\ msg \in Seq(ByteSet)
    BY <1>2, FileContents DEF WriteDirect
  <2>2. /\ \A i \in Suffixes \ {0} : Content(files', i) = Content(files, i)
        /\ \E k \in 0..Len(msg) : Content(files', 0) = Content(files, 0) \o SubSeq(msg, 1, k)
    <3> HIDE DEF Write
    <3> QED
      BY <1>2, <2>1, WriteContents
  <2>3. PICK k \in 0..Len(msg) : Content(files', 0) = Content(files, 0) \o SubSeq(msg, 1, k)
    BY <2>2
  <2> DEFINE p == SubSeq(msg, 1, k)
  <2>4. p \in Seq(ByteSet) /\ Increasing(p) /\ UpTo(p, count)
    BY <2>1, OwnersOfPrefix, OrderOfPrefix DEF OrderInv
  <2>5. FilesPrecede(files, p)
    BY <2>1, OrderOfPrefix DEF OrderInv, FilesPrecede
  <2>6. FilesOrdered(files) /\ FilesUpTo(files, count) /\ files \in Files
    BY FileContents DEF OrderInv
  <2> HIDE DEF p
  <2>7. FilesOrdered(files') /\ FilesUpTo(files', count)
    BY <2>2, <2>3, <2>4, <2>5, <2>6, FilesWritten DEF p
  <2> QED
    BY <1>1, <2>7, OrderOfEmpty DEF OrderInv, FilesPrecede
<1>3. CASE ~open
  <2>1. files' = files
    BY <1>3 DEF WriteDirect
  <2> QED
    BY <1>1, <2>1, OrderOfEmpty DEF OrderInv, FilesPrecede
<1> QED
  BY <1>2, <1>3

LEMMA InitOrder ==
  ASSUME Init PROVE OrderInv
<1>1. PICK size \in Sizes :
        files \in {[i \in Suffixes |-> None],
                   [i \in Suffixes |-> IF i = 0 THEN Bytes(0, size) ELSE None]}
  BY DEF Init
<1>2. size \in Nat /\ 0 \in 0..MaxMessages
  BY Bounds
<1>3. Increasing(Bytes(0, size)) /\ UpTo(Bytes(0, size), 0)
  BY <1>2, NewBytes
<1>4. /\ \A i \in Suffixes \ {0} : Content(files, i) = <<>>
      /\ Content(files, 0) \in {<<>>, Bytes(0, size)}
  BY <1>1, Bounds DEF Content
<1>5. \A i, j \in Suffixes : i < j => j # 0
  BY Bounds DEF Suffixes
<1>6. FilesOrdered(files)
  BY <1>3, <1>4, <1>5, OrderOfEmpty DEF FilesOrdered
<1>7. FilesUpTo(files, 0)
  BY <1>3, <1>4, OrderOfEmpty DEF FilesUpTo
<1> QED
  BY <1>6, <1>7, OrderOfEmpty DEF Init, OrderInv, FilesPrecede

LEMMA OrderStep ==
  ASSUME SinkInv, CountsOK, OrderInv, [Next]_vars PROVE OrderInv'
<1>0. SinkOK
  BY DEF SinkInv
<1>1. ASSUME NEW truncate \in BOOLEAN, Construct(truncate) PROVE OrderInv'
  BY <1>0, <1>1, ConstructOrder
<1>2. ASSUME NEW size \in Sizes, SinkIt(size) \/ SinkItClosed(size) PROVE OrderInv'
  BY <1>0, <1>2, SinkItOrder, SinkItClosedOrder
<1>3. CASE Rotation
  BY <1>0, <1>3, FlushingOrder, ShiftFileOrder, ShiftThrowsOrder, ReopenOrder DEF Rotation
<1>4. CASE Store \/ AppendToBuffer \/ WriteDirect
  BY <1>0, <1>4, StoreOrder, AppendToBufferOrder, WriteDirectOrder
<1>5. CASE FlushSink \/ Destroy \/ Crash
  BY <1>0, <1>5, FlushingOrder, CrashOrder
<1>6. CASE UNCHANGED vars
  BY <1>6 DEF vars, fileVars, boundVars, OrderInv
<1> QED
  BY <1>1, <1>2, <1>3, <1>4, <1>5, <1>6 DEF Next

LEMMA OrderGivesHistory ==
  ASSUME SinkOK, OrderInv PROVE FilesInOrder
<1> DEFINE st == Stored(files)
<1>1. files \in Files /\ buf \in Seq(ByteSet) /\ msg \in Seq(ByteSet) /\ MaxFiles \in Suffixes
  BY FileContents, Bounds DEF Suffixes
<1>2. st \in Seq(ByteSet) /\ Increasing(st)
  BY <1>1, StoredType, StoredOrdered DEF OrderInv, Stored
<1>3. ASSUME NEW q, FilesPrecede(files, q) PROVE Precedes(st, q)
  <2>1. SUFFICES ASSUME NEW k \in 1..Len(st), NEW j \in 1..Len(q) PROVE Before(st[k], q[j])
    BY DEF Precedes
  <2>2. PICK i \in 0..MaxFiles : \E m \in 1..Len(Content(files, i)) : st[k] = Content(files, i)[m]
    BY <1>1, StoredAmong DEF Stored, Among
  <2> QED
    BY <1>3, <2>2 DEF FilesPrecede, Precedes, Suffixes
<1>4. Precedes(st, buf) /\ Precedes(st, msg)
  BY <1>3 DEF OrderInv
<1> HIDE DEF st
<1>5. Increasing(st \o buf) /\ st \o buf \in Seq(ByteSet) /\ Precedes(st \o buf, msg)
  BY <1>1, <1>2, <1>4, ConcatIncreasing, OrderOfConcat, OwnersOfConcat DEF OrderInv
<1>6. Increasing((st \o buf) \o msg)
  BY <1>1, <1>5, ConcatIncreasing DEF OrderInv
<1> QED
  BY <1>6 DEF FilesInOrder, History, st

-----------------------------------------------------------------------------
(* What is kept of what was accepted.                                      *)

LEMMA EndsWithConcat ==
  ASSUME NEW q \in Seq(ByteSet), NEW h \in Seq(ByteSet)
  PROVE  EndsWith(q, h) <=> \E p \in Seq(ByteSet) : q = p \o h
<1>1. ASSUME EndsWith(q, h) PROVE \E p \in Seq(ByteSet) : q = p \o h
  <2> DEFINE n == Len(q) - Len(h)
             p == SubSeq(q, 1, n)
  <2>1. n \in 0..Len(q) /\ Len(h) = Len(q) - n /\ h = SubSeq(q, n + 1, Len(q))
    BY <1>1 DEF EndsWith
  <2>2. p \in Seq(ByteSet) /\ Len(p) = n /\ \A i \in 1..n : p[i] = q[i]
    BY <2>1
  <2>3. \A i \in 1..Len(h) : h[i] = q[n + i]
    BY <2>1
  <2> HIDE DEF p, n
  <2>4. p \o h \in Seq(ByteSet) /\ Len(p \o h) = Len(q)
    BY SMTT(30), <2>1, <2>2
  <2>5. \A i \in 1..Len(q) : (p \o h)[i] = q[i]
    BY <2>1, <2>2, <2>3
  <2>6. p \o h = q
    BY <2>4, <2>5, SeqEqual
  <2> QED
    BY <2>2, <2>6
<1>2. ASSUME NEW p \in Seq(ByteSet), q = p \o h PROVE EndsWith(q, h)
  <2>1. Len(q) = Len(p) + Len(h) /\ Len(p) \in Nat /\ Len(h) \in Nat
    BY <1>2
  <2> DEFINE t == SubSeq(p \o h, Len(p) + 1, Len(p) + Len(h))
  <2>2. t \in Seq(ByteSet) /\ Len(t) = Len(h) /\ \A i \in 1..Len(h) : t[i] = h[i]
    BY <2>1
  <2>3. t = h
    <3> HIDE DEF t
    <3> QED
      BY <2>2, SeqEqual
  <2>4. Len(q) - Len(h) + 1 = Len(p) + 1
    BY <2>1
  <2> QED
    BY <1>2, <2>1, <2>3, <2>4 DEF EndsWith
<1> QED
  BY <1>1, <1>2

LEMMA HistoryType ==
  ASSUME SinkOK
  PROVE  /\ Stored(files) \in Seq(ByteSet) /\ buf \in Seq(ByteSet) /\ msg \in Seq(ByteSet)
         /\ Stored(files) \o buf \in Seq(ByteSet) /\ History \in Seq(ByteSet)
<1>1. Stored(files) \in Seq(ByteSet)
  BY FileContents, StoredType, Bounds DEF Stored, Suffixes
<1>2. buf \in Seq(ByteSet) /\ msg \in Seq(ByteSet)
  BY FileContents
<1> DEFINE st == Stored(files)
<1> HIDE DEF st
<1>3. st \o buf \in Seq(ByteSet) /\ (st \o buf) \o msg \in Seq(ByteSet)
  BY <1>1, <1>2, OwnersOfConcat DEF st
<1> QED
  BY <1>1, <1>2, <1>3 DEF History, st

LEMMA EmptyConcat ==
  ASSUME NEW q \in Seq(ByteSet) PROVE q \o <<>> = q /\ <<>> \o q = q
OBVIOUS

(* A write that succeeds moves all the bytes behind the base file.         *)
LEMMA WriteHistory ==
  ASSUME SinkOK, open, NEW bytes \in Seq(ByteSet), Write(bytes), intact'
  PROVE  /\ Stored(files') = Stored(files) \o bytes
         /\ \A i \in Suffixes : files'[i] = None <=> files[i] = None
         /\ NoFault
<1>1. /\ files'[0] # None
      /\ \A i \in Suffixes \ {0} : files'[i] = files[i] /\ Content(files', i) = Content(files, i)
      /\ \E k \in 0..Len(bytes) :
           /\ Content(files', 0) = Content(files, 0) \o SubSeq(bytes, 1, k)
           /\ (k = Len(bytes) /\ NoFault) \/ Fault
  <2> HIDE DEF Write
  <2> QED
    BY WriteContents
<1>2. ~Fault
  BY DEF Fault
<1>3. SubSeq(bytes, 1, Len(bytes)) = bytes
  BY SubSeqFull
<1>4. Content(files', 0) = Content(files, 0) \o bytes /\ NoFault
  BY <1>1, <1>2, <1>3
<1>5. files \in Files /\ files[0] # None
  BY FileContents
<1> QED
  BY <1>1, <1>4, <1>5, StoredAppend

LEMMA FlushHistory ==
  ASSUME SinkOK, FlushBuffer, intact'
  PROVE  /\ (Stored(files') \o buf') \o msg = History
         /\ \A i \in Suffixes : files'[i] = None <=> files[i] = None
         /\ NoFault
<1>1. Stored(files) \in Seq(ByteSet) /\ buf \in Seq(ByteSet) /\ Stored(files) \o buf \in Seq(ByteSet)
  BY HistoryType
<1>2. CASE open
  <2>1. Write(buf) /\ buf' = <<>>
    BY <1>2 DEF FlushBuffer
  <2>2. /\ Stored(files') = Stored(files) \o buf
        /\ \A i \in Suffixes : files'[i] = None <=> files[i] = None
        /\ NoFault
    <3> HIDE DEF Write
    <3> QED
      BY <1>1, <1>2, <2>1, WriteHistory
  <2>3. Stored(files') \o buf' = Stored(files) \o buf
    BY <1>1, <2>1, <2>2, EmptyConcat
  <2> QED
    BY <2>2, <2>3 DEF History
<1>3. CASE ~open
  BY <1>3 DEF FlushBuffer, NoFault, History
<1> QED
  BY <1>2, <1>3

(* A shift that succeeds moves a file to a free place, or to the last one. *)
LEMMA ShiftHistory ==
  ASSUME SinkOK, SkipInv, intact, ShiftFile, intact'
  PROVE  /\ files' \in Files /\ files'[slot] = None /\ NoFault
         /\ files[slot] # None => files'[slot + 1] # None
         /\ files'[slot + 1] # None => files[slot] # None \/ files[slot + 1] # None
         /\ \A i \in Suffixes \ {slot, slot + 1} : files'[i] = files[i]
         /\ \/ Stored(files') = Stored(files)
            \/ /\ slot + 1 = MaxFiles /\ files[MaxFiles] # None
               /\ Stored(files) = Content(files, MaxFiles) \o Stored(files')
         /\ slot + 1 = MaxFiles => (files[MaxFiles] = None => Stored(files') = Stored(files))
<1> DEFINE unlinked == IF slot > 0 /\ slot = MaxFiles - 1
                       THEN [files EXCEPT ![slot + 1] = None] ELSE files
<1>1. files' = Renamed(unlinked, slot, slot + 1) /\ NoFault
  BY DEF ShiftFile, Fault
<1>2. slot \in 0..(MaxFiles - 1) /\ slot \in Suffixes /\ slot + 1 \in Suffixes /\ slot # slot + 1
  BY Bounds DEF SinkOK, Suffixes
<1>3. files \in Files
  BY FileContents
<1>4. /\ unlinked \in Files /\ unlinked[slot] = files[slot]
      /\ \A i \in Suffixes \ {slot, slot + 1} : unlinked[i] = files[i]
      /\ unlinked[slot + 1] \in {None, files[slot + 1]}
      /\ slot + 1 # MaxFiles => unlinked = files
  BY <1>2, <1>3, Bounds DEF Files
<1> HIDE DEF unlinked
<1>5. /\ files' \in Files
      /\ unlinked[slot] = None => files' = unlinked
      /\ unlinked[slot] # None => files'[slot] = None /\ files'[slot + 1] = unlinked[slot]
      /\ \A i \in Suffixes \ {slot, slot + 1} : files'[i] = unlinked[i]
  BY <1>1, <1>2, <1>4, RenamedContents
<1>6. /\ files'[slot] = None
      /\ files[slot] # None => files'[slot + 1] # None
      /\ files'[slot + 1] # None => files[slot] # None \/ files[slot + 1] # None
      /\ \A i \in Suffixes \ {slot, slot + 1} : files'[i] = files[i]
  BY <1>4, <1>5
<1>7. /\ Content(files', slot) = <<>>
      /\ \A i \in Suffixes \ {slot, slot + 1} : Content(files', i) = Content(files, i)
  BY <1>2, <1>6 DEF Content
<1>8. CASE files[slot] # None \/ files'[slot + 1] = None
  <2>1. Content(files', slot + 1) = Content(files, slot)
    BY <1>2, <1>4, <1>5, <1>8 DEF Content
  <2>2. files[slot + 1] = None => Stored(files') = Stored(files)
    <3>1. ASSUME files[slot + 1] = None PROVE Content(files, slot + 1) = <<>>
      BY <3>1 DEF Content
    <3> QED
      BY <1>2, <1>3, <1>5, <1>7, <2>1, <3>1, StoredShiftToFree
  <2>3. files[slot + 1] # None => slot + 1 = MaxFiles
    <3>1. pc = "shift"
      BY DEF ShiftFile
    <3> QED
      BY <1>2, <3>1, Bounds DEF SkipInv
  <2>4. slot + 1 = MaxFiles => Stored(files) = Content(files, MaxFiles) \o Stored(files')
    BY <1>2, <1>3, <1>5, <1>7, <2>1, StoredShiftOut
  <2> QED
    BY <1>1, <1>5, <1>6, <2>2, <2>3, <2>4
<1>9. CASE files[slot] = None /\ files'[slot + 1] # None
  <2>1. files' = unlinked /\ unlinked[slot + 1] = files[slot + 1]
    BY <1>4, <1>5, <1>9
  <2>2. files' = files
    <3>1. \A i \in Suffixes : files'[i] = files[i]
      BY <1>4, <2>1
    <3> QED
      BY <1>3, <1>5, <3>1 DEF Files
  <2> QED
    BY <1>1, <1>5, <1>6, <2>2
<1> QED
  BY <1>8, <1>9

(* What a step does to the history when nothing fails: the sink is new, a  *)
(* message is accepted, nothing changes, or the last file is forgotten.    *)
Starts == History' = Stored(files') /\ accepted' = History' /\ pc' = "idle"

Accepts(x) == /\ History' = History \o x /\ accepted' = accepted \o x
              /\ files' = files

Keeps == /\ History' = History /\ accepted' = accepted
         /\ \A i \in Suffixes : files[i] # None => files'[i] # None
         /\ \A i \in Suffixes \ {0} : files'[i] # None => files[i] # None

Shifts == /\ accepted' = accepted /\ ShiftFile
          /\ \/ History' = History
             \/ /\ slot + 1 = MaxFiles /\ files[MaxFiles] # None
                /\ History = Content(files, MaxFiles) \o History'
          /\ slot + 1 = MaxFiles => (files[MaxFiles] = None => History' = History)

LEMMA ShiftsHistory ==
  ASSUME SinkOK, SkipInv, intact, ShiftFile, intact', SinkOK'
  PROVE  Shifts
<1>1. buf' = buf /\ msg' = msg /\ accepted' = accepted
  BY DEF ShiftFile
<1>2. /\ \/ Stored(files') = Stored(files)
         \/ /\ slot + 1 = MaxFiles /\ files[MaxFiles] # None
            /\ Stored(files) = Content(files, MaxFiles) \o Stored(files')
      /\ slot + 1 = MaxFiles => (files[MaxFiles] = None => Stored(files') = Stored(files))
  BY ShiftHistory
<1>3. /\ Content(files, MaxFiles) \in Seq(ByteSet) /\ Stored(files') \in Seq(ByteSet)
      /\ buf \in Seq(ByteSet) /\ msg \in Seq(ByteSet)
  <2>1. files' \in Files
    BY ShiftHistory
  <2> QED
    BY <2>1, HistoryType, FileContents, ContentType, StoredType, Bounds DEF Suffixes, Stored
<1> DEFINE c == Content(files, MaxFiles)
           st == Stored(files')
<1>4. ((c \o st) \o buf) \o msg = c \o ((st \o buf) \o msg)
  <2> HIDE DEF c, st
  <2>1. c \in Seq(ByteSet) /\ st \in Seq(ByteSet) /\ buf \in Seq(ByteSet) /\ msg \in Seq(ByteSet)
    BY <1>3 DEF c, st
  <2>2. (c \o st) \o buf = c \o (st \o buf) /\ st \o buf \in Seq(ByteSet)
    BY <2>1, ConcatOfThree
  <2>3. (c \o (st \o buf)) \o msg = c \o ((st \o buf) \o msg)
    BY <2>1, <2>2, ConcatOfThree
  <2> QED
    BY <2>2, <2>3
<1>5. History' = (st \o buf) \o msg /\ History = (Stored(files) \o buf) \o msg
  BY <1>1 DEF History
<1> HIDE DEF c, st
<1>6. Stored(files) = c \o st => History = c \o History'
  BY <1>4, <1>5
<1>7. Stored(files) = st => History' = History
  BY <1>5
<1> QED
  BY <1>1, <1>2, <1>6, <1>7 DEF Shifts, c, st

LEMMA SinkItHistory ==
  ASSUME SinkOK, SkipInv, CountsOK, NEW size \in Sizes, SinkIt(size)
  PROVE  \E x \in Seq(ByteSet) : Accepts(x)
<1> DEFINE x == Bytes(count + 1, size)
<1>1. files' = files /\ buf' = buf /\ msg' = x /\ accepted' = accepted \o x /\ msg = <<>>
  BY DEF SinkIt, Receive, fileVars, SkipInv
<1>2. x \in Seq(ByteSet)
  <2>1. count + 1 \in 0..MaxMessages /\ size \in Nat
    BY Bounds DEF SinkIt, Receive, CountsOK
  <2> QED
    BY <2>1, BytesOfOne
<1>3. History = Stored(files) \o buf
  BY <1>1, HistoryType, EmptyConcat DEF History
<1> QED
  BY <1>1, <1>2, <1>3 DEF Accepts, History

LEMMA HistoryStep ==
  ASSUME SinkInv, SinkInv', CountsOK, OrderInv, SkipInv, [Next]_vars, intact'
  PROVE  \/ Starts /\ \E truncate \in BOOLEAN : Construct(truncate)
         \/ intact /\ \E x \in Seq(ByteSet) : Accepts(x)
         \/ intact /\ Keeps
         \/ intact /\ Shifts
<1>0. SinkOK /\ SinkOK'
  BY DEF SinkInv
<1>1. ASSUME NEW truncate \in BOOLEAN, Construct(truncate)
      PROVE  Starts
  <2>1. buf' = <<>> /\ msg' = <<>> /\ accepted' = Stored(files') /\ pc' = "idle"
    BY <1>1 DEF Construct, SkipInv
  <2>2. Stored(files') \in Seq(ByteSet)
    <3>1. files' \in Files
      BY <1>0 DEF SinkOK, Files
    <3> QED
      BY <3>1, StoredType, Bounds DEF Suffixes, Stored
  <2> DEFINE st == Stored(files')
  <2>3. (st \o <<>>) \o <<>> = st
    <3> HIDE DEF st
    <3> QED
      BY <2>2, EmptyConcat DEF st
  <2> QED
    BY <2>1, <2>3 DEF Starts, History
<1>2. ASSUME NEW size \in Sizes, SinkIt(size)
      PROVE  intact /\ \E x \in Seq(ByteSet) : Accepts(x)
  <2>1. intact
    BY <1>2 DEF SinkIt, faultVars
  <2> QED
    BY <1>0, <1>2, <2>1, SinkItHistory
<1>3. ASSUME NEW size \in Sizes, SinkItClosed(size)
      PROVE  FALSE
  BY <1>3 DEF SinkItClosed, Receive, faultVars, SkipInv
<1>4. CASE RotateFiles \/ FlushSink \/ Destroy
  <2>1. FlushBuffer /\ msg' = msg /\ accepted' = accepted
    BY <1>4 DEF RotateFiles, FlushSink, Destroy
  <2>2. /\ (Stored(files') \o buf') \o msg = History /\ NoFault
        /\ \A i \in Suffixes : files'[i] = None <=> files[i] = None
    BY <1>0, <2>1, FlushHistory
  <2> QED
    BY <2>1, <2>2 DEF Keeps, History, NoFault, faultVars
<1>5. CASE ShiftFile
  <2>1. intact
    BY <1>5 DEF ShiftFile, NoFault, faultVars, Fault
  <2> QED
    BY <1>0, <1>5, <2>1, ShiftsHistory
<1>6. CASE ShiftThrows \/ Crash
  BY <1>6 DEF ShiftThrows, Crash, Fault
<1>7. CASE Reopen
  <2>1. OpenFile(TRUE) /\ buf' = buf /\ msg' = msg /\ accepted' = accepted /\ open' /\ NoFault
    BY <1>7 DEF Reopen, Fault
  <2>2. intact
    BY <2>1 DEF NoFault, faultVars
  <2>3. files[0] = None
    BY <1>7, <2>2 DEF Reopen, SkipInv
  <2>4. /\ \A i \in Suffixes : Content(files', i) = Content(files, i)
        /\ \A i \in Suffixes \ {0} : files'[i] = files[i]
    BY <1>0, <2>1, <2>3, OpenContents
  <2>5. Stored(files') = Stored(files)
    BY <2>4, StoredSame, Bounds DEF Suffixes, Stored
  <2>6. History' = History
    BY <2>1, <2>5 DEF History
  <2> QED
    <3>1. \A i \in Suffixes : files[i] # None => files'[i] # None
      BY <2>3, <2>4
    <3> QED
      BY <2>1, <2>2, <2>4, <2>6, <3>1 DEF Keeps
<1>8. CASE Store
  <2>1. msg' = msg /\ accepted' = accepted
    BY <1>8 DEF Store
  <2>2. CASE FlushBuffer
    BY <1>0, <2>1, <2>2, FlushHistory DEF Keeps, History, NoFault, faultVars
  <2>3. CASE UNCHANGED <<files, currentSize, buf, faultVars>>
    BY <2>1, <2>3 DEF Keeps, History, faultVars
  <2> QED
    BY <1>8, <2>2, <2>3 DEF Store
<1>9. CASE AppendToBuffer
  <2>1. /\ buf' = buf \o msg /\ msg' = <<>> /\ files' = files /\ accepted' = accepted
        /\ intact' = intact
    BY <1>9 DEF AppendToBuffer, fileVars, faultVars
  <2> DEFINE st == Stored(files)
  <2>2. (st \o (buf \o msg)) \o <<>> = (st \o buf) \o msg
    <3>1. st \in Seq(ByteSet) /\ buf \in Seq(ByteSet) /\ msg \in Seq(ByteSet)
      BY <1>0, HistoryType
    <3> HIDE DEF st
    <3>2. (st \o buf) \o msg = st \o (buf \o msg) /\ st \o (buf \o msg) \in Seq(ByteSet)
      BY <3>1, ConcatOfThree, OwnersOfConcat
    <3> QED
      BY <3>2, EmptyConcat
  <2>3. History' = History
    BY <2>1, <2>2 DEF History
  <2> QED
    BY <2>1, <2>3 DEF Keeps
<1>10. CASE WriteDirect
  <2>1. /\ buf = <<>> /\ buf' = <<>> /\ msg' = <<>> /\ accepted' = accepted /\ pc = "direct"
    BY <1>10 DEF WriteDirect, OrderInv
  <2>2. CASE open
    <3>1. Write(msg) /\ msg \in Seq(ByteSet)
      BY <1>0, <1>10, <2>2, FileContents DEF WriteDirect
    <3>2. /\ Stored(files') = Stored(files) \o msg /\ NoFault
          /\ \A i \in Suffixes : files'[i] = None <=> files[i] = None
      <4> HIDE DEF Write
      <4> QED
        BY <1>0, <2>2, <3>1, WriteHistory
    <3> DEFINE st == Stored(files)
    <3>3. ((st \o msg) \o <<>>) \o <<>> = (st \o <<>>) \o msg
      <4>1. st \in Seq(ByteSet) /\ msg \in Seq(ByteSet)
        BY <1>0, HistoryType
      <4> HIDE DEF st
      <4>2. st \o msg \in Seq(ByteSet)
        BY <4>1
      <4> QED
        BY <4>1, <4>2, EmptyConcat
    <3>4. History' = History
      BY <2>1, <3>2, <3>3 DEF History
    <3> QED
      BY <2>1, <3>2, <3>4 DEF Keeps, NoFault, faultVars
  <2>3. CASE ~open
    <3>1. intact
      BY <1>10, <2>3 DEF WriteDirect, faultVars
    <3> QED
      BY <2>1, <2>3, <3>1 DEF SkipInv, Sinking
  <2> QED
    BY <2>2, <2>3
<1>11. CASE UNCHANGED vars
  BY <1>11 DEF vars, fileVars, faultVars, Keeps, History
<1> QED
  BY <1>1, <1>2, <1>3, <1>4, <1>5, <1>6, <1>7, <1>8, <1>9, <1>10, <1>11 DEF Next, Rotation

-----------------------------------------------------------------------------
(* NothingSkipped and its strengthening.                                   *)

LEMMA AcceptedType ==
  ASSUME SinkInv, SinkInv', CountsOK, SkipInv, [Next]_vars
  PROVE  accepted' \in Seq(ByteSet)
<1>0. accepted \in Seq(ByteSet)
  BY DEF SkipInv
<1>1. ASSUME NEW truncate \in BOOLEAN, Construct(truncate)
      PROVE  accepted' \in Seq(ByteSet)
  <2>1. files' \in Files
    BY DEF SinkInv, SinkOK, Files
  <2> QED
    BY <1>1, <2>1, StoredType, Bounds DEF Construct, Suffixes, Stored
<1>2. ASSUME NEW size \in Sizes, Receive(size) PROVE accepted' \in Seq(ByteSet)
  <2>1. count + 1 \in 0..MaxMessages /\ size \in Nat
    BY <1>2, Bounds DEF Receive, CountsOK
  <2>2. Bytes(count + 1, size) \in Seq(ByteSet)
    BY <2>1, BytesOfOne
  <2> QED
    BY <1>0, <1>2, <2>2, OwnersOfConcat DEF Receive
<1>3. CASE \/ Rotation \/ Store \/ AppendToBuffer \/ WriteDirect
           \/ FlushSink \/ Destroy \/ Crash \/ UNCHANGED vars
  BY <1>0, <1>3 DEF Rotation, RotateFiles, ShiftFile, ShiftThrows, Reopen, Store, AppendToBuffer,
     WriteDirect, FlushSink, Destroy, Crash, vars
<1> QED
  BY <1>1, <1>2, <1>3 DEF Next, SinkIt, SinkItClosed

(* The same of the next state.                                             *)
LEMMA HistoryTypeNext ==
  ASSUME SinkOK' PROVE History' \in Seq(ByteSet)
<1>1. files' \in Files /\ buf' \in Seq(ByteSet) /\ msg' \in Seq(ByteSet)
  BY DEF SinkOK, Files
<1> DEFINE st == Stored(files')
<1>2. st \in Seq(ByteSet)
  BY <1>1, StoredType, Bounds DEF Suffixes, Stored
<1> HIDE DEF st
<1>3. st \o buf' \in Seq(ByteSet) /\ (st \o buf') \o msg' \in Seq(ByteSet)
  BY <1>1, <1>2, OwnersOfConcat
<1> QED
  BY <1>3 DEF History, st

LEMMA NothingSkippedStep ==
  ASSUME SinkInv, SinkInv', CountsOK, OrderInv, SkipInv, [Next]_vars
  PROVE  NothingSkipped'
<1>1. SUFFICES ASSUME intact' PROVE EndsWith(accepted', History')
  BY DEF NothingSkipped
<1>2. accepted' \in Seq(ByteSet) /\ accepted \in Seq(ByteSet)
  BY AcceptedType DEF SkipInv
<1>3. History \in Seq(ByteSet) /\ History' \in Seq(ByteSet)
  BY HistoryType, HistoryTypeNext DEF SinkInv
<1>4. ASSUME intact PROVE \E p \in Seq(ByteSet) : accepted = p \o History
  BY <1>2, <1>3, <1>4, EndsWithConcat DEF SkipInv, NothingSkipped
<1>5. SUFFICES \E p \in Seq(ByteSet) : accepted' = p \o History'
  BY <1>2, <1>3, EndsWithConcat
<1> HIDE DEF History
<1>6. CASE Starts
  BY <1>3, <1>6, EmptyConcat, OwnersOfEmpty DEF Starts
<1>7. ASSUME intact, NEW x \in Seq(ByteSet), Accepts(x)
      PROVE  \E p \in Seq(ByteSet) : accepted' = p \o History'
  <2>1. PICK p \in Seq(ByteSet) : accepted = p \o History
    BY <1>4, <1>7
  <2>2. (p \o History) \o x = p \o (History \o x)
    BY <1>3, ConcatOfThree
  <2> QED
    BY <1>7, <2>1, <2>2 DEF Accepts
<1>8. CASE intact /\ Keeps
  BY <1>4, <1>8 DEF Keeps
<1>9. CASE intact /\ Shifts
  <2>1. PICK p \in Seq(ByteSet) : accepted = p \o History
    BY <1>4, <1>9
  <2>2. CASE History' = History
    BY <1>9, <2>1, <2>2 DEF Shifts
  <2>3. CASE History = Content(files, MaxFiles) \o History'
    <3> DEFINE c == Content(files, MaxFiles)
    <3>1. c \in Seq(ByteSet)
      BY FileContents, ContentType, Bounds DEF SinkInv, Suffixes
    <3> HIDE DEF c
    <3>2. p \o (c \o History') = (p \o c) \o History' /\ p \o c \in Seq(ByteSet)
      BY <1>3, <3>1, ConcatOfThree, OwnersOfConcat
    <3> QED
      BY <1>9, <2>1, <2>3, <3>2 DEF Shifts, c
  <2> QED
    BY <1>9, <2>2, <2>3 DEF Shifts
<1> QED
  BY <1>1, <1>6, <1>7, <1>8, <1>9, HistoryStep

LEMMA SkipStep ==
  ASSUME SinkInv, SinkInv', CountsOK, OrderInv, SkipInv, [Next]_vars
  PROVE  SkipInv'
<1>1. NothingSkipped' /\ accepted' \in Seq(ByteSet)
  BY NothingSkippedStep, AcceptedType
<1>2. ASSUME intact' PROVE intact \/ \E truncate \in BOOLEAN : Construct(truncate)
  BY <1>2, HistoryStep
<1>3. ASSUME intact', pc' \in {"idle", "rotate"} \union Sinking PROVE open'
  <2>1. ASSUME NEW truncate \in BOOLEAN, Construct(truncate) PROVE open'
    BY <1>3, <2>1 DEF Construct
  <2>2. CASE intact
    <3>1. ASSUME NEW size \in Sizes, SinkIt(size) \/ SinkItClosed(size) PROVE open'
      BY <2>2, <3>1 DEF SinkIt, SinkItClosed, Receive, fileVars, SkipInv
    <3>2. CASE Rotation
      BY <1>3, <3>2 DEF Rotation, RotateFiles, ShiftFile, ShiftThrows, Reopen, Fault, Sinking
    <3>3. CASE Store \/ AppendToBuffer \/ WriteDirect
      BY <2>2, <3>3 DEF Store, AppendToBuffer, WriteDirect, fileVars, SkipInv, Sinking
    <3>4. CASE FlushSink \/ Destroy \/ Crash
      BY <1>3, <2>2, <3>4 DEF FlushSink, Destroy, Crash, SkipInv, Sinking
    <3>5. CASE UNCHANGED vars
      BY <1>3, <2>2, <3>5 DEF vars, fileVars, SkipInv, Sinking
    <3> QED
      BY <2>1, <3>1, <3>2, <3>3, <3>4, <3>5 DEF Next
  <2> QED
    BY <1>2, <1>3, <2>1, <2>2
<1>4. ASSUME intact'
      PROVE  /\ pc' = "shift" /\ slot' < MaxFiles - 1 => files'[slot' + 1] = None
             /\ pc' = "open" => files'[0] = None
  <2>1. CASE ShiftFile
    <3>1. intact /\ SinkOK
      BY <1>4, <2>1 DEF ShiftFile, NoFault, faultVars, Fault, SinkInv
    <3>2. files'[slot] = None
      BY <1>4, <2>1, <3>1, ShiftHistory
    <3>3. /\ slot' = IF slot = 0 THEN 0 ELSE slot - 1
          /\ pc' = IF slot = 0 THEN "open" ELSE "shift"
      BY <2>1 DEF ShiftFile
    <3>4. slot \in Nat
      BY <3>1, Bounds DEF SinkOK
    <3> QED
      BY <3>2, <3>3, <3>4
  <2>2. CASE RotateFiles
    BY <2>2, Bounds DEF RotateFiles
  <2>3. CASE ShiftThrows
    BY <1>4, <2>3 DEF ShiftThrows, Fault
  <2>4. CASE Reopen \/ Store \/ AppendToBuffer \/ WriteDirect \/ FlushSink \/ Destroy \/ Crash
    BY <2>4 DEF Reopen, Store, AppendToBuffer, WriteDirect, FlushSink, Destroy, Crash
  <2>5. ASSUME NEW size \in Sizes, SinkIt(size) \/ SinkItClosed(size) PROVE pc' \notin {"shift", "open"}
    BY <2>5 DEF SinkIt, SinkItClosed, Receive
  <2>6. ASSUME NEW truncate \in BOOLEAN, Construct(truncate) PROVE pc' \notin {"shift", "open"}
    BY <2>6 DEF Construct
  <2>7. CASE UNCHANGED vars
    BY <1>4, <2>7 DEF vars, fileVars, faultVars, SkipInv
  <2> QED
    BY <2>1, <2>2, <2>3, <2>4, <2>5, <2>6, <2>7 DEF Next, Rotation
<1>5. pc' \in {"none", "idle"} => msg' = <<>>
  BY DEF Next, Rotation, Construct, SinkIt, SinkItClosed, Receive, RotateFiles, ShiftFile, ShiftThrows,
     Reopen, Store, AppendToBuffer, WriteDirect, FlushSink, Destroy, Crash, vars, SkipInv
<1> QED
  BY <1>1, <1>3, <1>4, <1>5 DEF SkipInv, Sinking

LEMMA InitSkip ==
  ASSUME Init PROVE SkipInv
BY OwnersOfEmpty DEF Init, SkipInv, NothingSkipped

-----------------------------------------------------------------------------
(* ForgetsOnlyOldest and its strengthening.                                *)

(* A step counts its fault, and leaves intact alone when there is none.    *)
LEMMA FaultsStep ==
  ASSUME CountsOK, [Next]_vars, faults' = 0
  PROVE  /\ faults = 0
         /\ \/ intact' = intact
            \/ \E truncate \in BOOLEAN : Construct(truncate) /\ intact' = open' /\ open' = TRUE
<1>0. faults \in Nat /\ faults + 1 # 0
  BY Bounds DEF CountsOK
<1>1. ~Fault
  BY <1>0 DEF Fault
<1>2. ASSUME Write(buf) \/ Write(msg) PROVE NoFault
  BY <1>1, <1>2 DEF Write
<1>3. ASSUME FlushBuffer PROVE UNCHANGED faultVars
  BY <1>2, <1>3 DEF FlushBuffer, NoFault
<1>4. ASSUME NEW truncate \in BOOLEAN, Construct(truncate) PROVE faults = 0 /\ intact' = open' /\ open' = TRUE
  <2>1. open' \in BOOLEAN
    BY <1>4 DEF Construct, OpenFile
  <2>2. open' = TRUE
    BY <1>0, <1>4, <2>1 DEF Construct
  <2> QED
    BY <1>0, <1>4, <2>2 DEF Construct
<1>5. ASSUME NEW size \in Sizes, SinkIt(size) \/ SinkItClosed(size) PROVE UNCHANGED faultVars
  BY <1>5 DEF SinkIt, SinkItClosed
<1>6. CASE Rotation
  BY <1>1, <1>3, <1>6 DEF Rotation, RotateFiles, ShiftFile, ShiftThrows, Reopen, NoFault, faultVars
<1>7. CASE Store \/ AppendToBuffer \/ WriteDirect
  BY <1>1, <1>2, <1>3, <1>7 DEF Store, AppendToBuffer, WriteDirect, NoFault, faultVars
<1>8. CASE FlushSink \/ Destroy \/ Crash
  BY <1>1, <1>3, <1>8 DEF FlushSink, Destroy, Crash, faultVars
<1>9. CASE UNCHANGED vars
  BY <1>9 DEF vars, faultVars
<1> QED
  BY <1>4, <1>5, <1>6, <1>7, <1>8, <1>9 DEF Next, faultVars

(* The files a shift leaves, when it does not fail.                        *)
LEMMA ShiftForgets ==
  ASSUME SinkOK, SkipInv, ForgetInv, faults = 0, intact, ShiftFile, intact',
         NEW i \in Suffixes, NEW j \in Suffixes, i < j, files'[j] # None
  PROVE  files'[i] # None \/ Moved(i)'
<1>1. /\ files'[slot] = None
      /\ files[slot] # None => files'[slot + 1] # None
      /\ files'[slot + 1] # None => files[slot] # None \/ files[slot + 1] # None
      /\ \A k \in Suffixes \ {slot, slot + 1} : files'[k] = files[k]
  BY ShiftHistory
<1>2. /\ pc = "shift"
      /\ slot' = IF slot = 0 THEN 0 ELSE slot - 1
      /\ pc' = IF slot = 0 THEN "open" ELSE "shift"
  BY DEF ShiftFile
<1>3. slot \in 0..(MaxFiles - 1) /\ slot \in Suffixes /\ slot + 1 \in Suffixes /\ MaxFiles \in Nat
  BY Bounds DEF SinkOK, Suffixes
<1>4. i = slot => Moved(i)'
  BY <1>2, <1>3 DEF Moved
<1>5. ASSUME NEW k \in Suffixes, NEW l \in Suffixes, k < l, files[l] # None
      PROVE  files[k] # None \/ k = slot + 1
  BY <1>2, <1>5 DEF ForgetInv, Present, Moved
<1>6. i \in Int /\ j \in Int /\ slot \in Int
  BY <1>3 DEF Suffixes
<1>7. CASE i # slot /\ i # slot + 1
  <2>1. files'[i] = files[i]
    BY <1>1, <1>7
  <2>2. \E l \in Suffixes : i < l /\ files[l] # None
    <3>1. CASE j = slot + 1
      BY <1>1, <1>3, <1>6, <1>7, <3>1
    <3>2. CASE j # slot + 1
      BY <1>1, <3>2
    <3> QED
      BY <3>1, <3>2
  <2> QED
    BY <1>5, <1>7, <2>1, <2>2
<1>8. CASE i = slot + 1
  <2>1. j # slot /\ j # slot + 1 /\ slot < j
    BY <1>6, <1>8
  <2>2. files[j] # None
    BY <1>1, <2>1
  <2>3. files[slot] # None
    BY <1>3, <1>5, <1>6, <2>1, <2>2
  <2> QED
    BY <1>1, <1>8, <2>3
<1> QED
  BY <1>4, <1>7, <1>8

LEMMA ForgetStep ==
  ASSUME SinkInv, SinkInv', CountsOK, OrderInv, SkipInv, ForgetInv, [Next]_vars
  PROVE  ForgetInv'
<1>1. SUFFICES ASSUME faults' = 0 PROVE ForgetInv'
  BY DEF ForgetInv
<1>2. /\ faults = 0
      /\ \/ intact' = intact
         \/ \E truncate \in BOOLEAN : Construct(truncate) /\ intact' = open' /\ open' = TRUE
  BY <1>1, FaultsStep
<1>3. pc' # "none" => pc # "none" \/ \E truncate \in BOOLEAN : Construct(truncate)
  BY DEF Next, Rotation, SinkIt, SinkItClosed, Receive, RotateFiles, ShiftFile, ShiftThrows, Reopen,
     Store, AppendToBuffer, WriteDirect, FlushSink, Destroy, Crash, vars
<1>4. /\ pc # "none" => intact
      /\ pc # "none" /\ Len(History) < Len(accepted) => MaxFiles \in Present
      /\ \A i, j \in Suffixes : i < j /\ j \in Present => i \in Present \/ Moved(i)
  BY <1>2 DEF ForgetInv
<1>5. pc' # "none" => intact'
  <2>1. CASE intact' = intact
    <3>1. ASSUME NEW truncate \in BOOLEAN, Construct(truncate) PROVE intact'
      BY <1>1, <2>1, <3>1, Bounds DEF Construct, OpenFile, CountsOK
    <3> QED
      BY <1>3, <1>4, <2>1, <3>1
  <2> QED
    BY <1>2, <2>1
<1>6. MaxFiles \in Suffixes /\ MaxFiles # 0 /\ 0 \in Suffixes /\ \A i \in Suffixes : i \in Nat
  BY Bounds DEF Suffixes
<1>7. SinkOK
  BY DEF SinkInv
<1>8. ASSUME NEW truncate \in BOOLEAN, Construct(truncate)
      PROVE  /\ intact' => files'[0] # None
             /\ \A i \in Suffixes \ {0} : files'[i] = files[i]
             /\ pc = "none"
  BY <1>7, <1>8, OpenContents DEF Construct
<1>9. ASSUME pc' # "none", Len(History') < Len(accepted') PROVE MaxFiles \in Present'
  <2>1. intact'
    BY <1>5, <1>9
  <2>2. /\ accepted \in Seq(ByteSet) /\ History \in Seq(ByteSet) /\ History' \in Seq(ByteSet)
        /\ accepted' \in Seq(ByteSet)
    BY HistoryType, HistoryTypeNext, AcceptedType DEF SkipInv, SinkInv
  <2> HIDE DEF History
  <2>3. ~Starts
    BY <1>9, <2>2 DEF Starts
  <2>4. ASSUME NEW truncate \in BOOLEAN, Construct(truncate) PROVE FALSE
    <3>1. pc = "none" /\ accepted' = Stored(files') /\ buf' = <<>> /\ msg' = <<>>
      BY <2>4 DEF Construct, SkipInv
    <3>2. History' = (Stored(files') \o <<>>) \o <<>>
      BY <3>1 DEF History
    <3>3. History' = accepted'
      BY <2>2, <3>1, <3>2, EmptyConcat
    <3> QED
      BY <1>9, <2>2, <3>3
  <2>5. pc # "none" /\ (Len(History) < Len(accepted) => MaxFiles \in Present)
    BY <1>3, <1>4, <1>9, <2>4
  <2>6. ASSUME NEW x \in Seq(ByteSet), Accepts(x) PROVE MaxFiles \in Present'
    <3>1. Len(History') = Len(History) + Len(x) /\ Len(accepted') = Len(accepted) + Len(x)
      BY <2>2, <2>6 DEF Accepts
    <3>2. Len(History) < Len(accepted)
      BY <1>9, <2>2, <3>1
    <3> QED
      BY <2>5, <2>6, <3>2 DEF Accepts, Present
  <2>7. CASE Keeps
    BY <1>6, <1>9, <2>5, <2>7 DEF Keeps, Present
  <2>8. CASE intact /\ Shifts
    <3>1. MaxFiles \in Present
      BY <1>6, <1>9, <2>5, <2>8 DEF Shifts, Present
    <3>2. /\ files[slot] # None => files'[slot + 1] # None
          /\ \A i \in Suffixes \ {slot, slot + 1} : files'[i] = files[i]
      BY <1>7, <2>1, <2>8, ShiftHistory DEF Shifts
    <3>3. slot \in 0..(MaxFiles - 1) /\ slot \in Suffixes /\ slot < MaxFiles /\ slot + 1 # slot
      BY <1>6, <1>7, Bounds DEF SinkOK, Suffixes
    <3>4. CASE slot + 1 = MaxFiles
      <4>1. pc = "shift"
        BY <2>8 DEF Shifts, ShiftFile
      <4>2. files[slot] # None
        BY <1>4, <1>6, <3>1, <3>3, <4>1 DEF Present, Moved
      <4> QED
        BY <1>6, <3>2, <3>4, <4>2 DEF Present
    <3>5. CASE slot + 1 # MaxFiles
      BY <1>6, <3>1, <3>2, <3>3, <3>5 DEF Present
    <3> QED
      BY <3>4, <3>5
  <2> QED
    BY <2>1, <2>3, <2>6, <2>7, <2>8, HistoryStep
<1>10. ASSUME NEW i \in Suffixes, NEW j \in Suffixes, i < j, files'[j] # None
       PROVE  files'[i] # None \/ Moved(i)'
  <2>1. j # 0
    BY <1>6, <1>10
  <2>2. ASSUME NEW truncate \in BOOLEAN, Construct(truncate) PROVE files'[i] # None
    <3>1. intact'
      BY <1>5, <2>2 DEF Construct
    <3>2. CASE i = 0
      BY <1>8, <2>2, <3>1, <3>2
    <3>3. CASE i # 0
      BY <1>4, <1>8, <1>10, <2>1, <2>2, <3>3 DEF Present, Moved
    <3> QED
      BY <3>2, <3>3
  <2>3. CASE UNCHANGED vars
    BY <1>4, <1>10, <2>3 DEF vars, fileVars, Present, Moved
  <2>4. CASE ShiftFile
    <3>1. pc # "none" /\ pc' # "none"
      BY <2>4 DEF ShiftFile
    <3> QED
      BY <1>2, <1>4, <1>5, <1>7, <1>10, <2>4, <3>1, ShiftForgets
  <2>5. CASE Crash \/ ShiftThrows
    BY <1>1, <2>5, Bounds DEF Crash, ShiftThrows, Fault, CountsOK
  <2>6. ASSUME NEW size \in Sizes, SinkIt(size) \/ SinkItClosed(size)
        PROVE  files'[i] # None
    BY <1>4, <1>10, <2>6 DEF SinkIt, SinkItClosed, Receive, fileVars, Present, Moved
  <2>7. CASE Reopen
    <3>1. pc = "open" /\ pc' # "none"
      BY <2>7 DEF Reopen
    <3>2. /\ \A k \in Suffixes \ {0} : files'[k] = files[k]
          /\ open' => files'[0] # None
      BY <1>7, <2>7, OpenContents DEF Reopen
    <3>3. open'
      BY <1>5, <2>7, <3>1 DEF Reopen, Fault
    <3> QED
      BY <1>4, <1>10, <2>1, <3>1, <3>2, <3>3 DEF Present, Moved
  <2>8. CASE AppendToBuffer
    BY <1>4, <1>10, <2>8 DEF AppendToBuffer, fileVars, Present, Moved
  <2>9. CASE RotateFiles \/ Store \/ FlushSink \/ Destroy \/ WriteDirect
    <3>1. pc \notin {"none", "shift", "open"} /\ intact'
      <4>1. pc \notin {"none", "shift", "open"}
        BY <2>9 DEF RotateFiles, Store, FlushSink, Destroy, WriteDirect
      <4>2. ~\E truncate \in BOOLEAN : Construct(truncate)
        BY <4>1 DEF Construct
      <4> QED
        BY <1>2, <1>4, <4>1, <4>2
    <3>2. \A k \in Suffixes : files'[k] = None <=> files[k] = None
      <4>1. CASE FlushBuffer
        BY <1>7, <3>1, <4>1, FlushHistory
      <4>2. CASE UNCHANGED files
        BY <4>2
      <4>3. CASE WriteDirect /\ open
        <5>1. Write(msg) /\ msg \in Seq(ByteSet)
          BY <1>7, <4>3, FileContents DEF WriteDirect
        <5> HIDE DEF Write
        <5> QED
          BY <1>7, <3>1, <4>3, <5>1, WriteHistory
      <4>4. CASE WriteDirect /\ ~open
        BY <4>4 DEF WriteDirect
      <4> QED
        BY <2>9, <4>1, <4>2, <4>3, <4>4 DEF RotateFiles, Store, FlushSink, Destroy
    <3> QED
      BY <1>4, <1>10, <3>1, <3>2 DEF Present, Moved
  <2> QED
    BY <2>2, <2>3, <2>4, <2>5, <2>6, <2>7, <2>8, <2>9 DEF Next, Rotation
<1> QED
  BY <1>5, <1>9, <1>10 DEF ForgetInv, Present

LEMMA InitForget ==
  ASSUME Init PROVE ForgetInv
<1>1. PICK size \in Sizes :
        files \in {[i \in Suffixes |-> None],
                   [i \in Suffixes |-> IF i = 0 THEN Bytes(0, size) ELSE None]}
  BY DEF Init
<1>2. \A j \in Suffixes : j # 0 => files[j] = None
  BY <1>1
<1>3. \A i, j \in Suffixes : i < j => j # 0
  BY Bounds DEF Suffixes
<1> QED
  BY <1>2, <1>3 DEF Init, ForgetInv, Present

-----------------------------------------------------------------------------
HistoryInv == OrderInv /\ SkipInv /\ ForgetInv

(* The files, the buffer and the message keep the three strengthenings,    *)
(* whatever write, open and rename do and wherever the process dies.       *)
THEOREM HistoryInvariant == Spec => []HistoryInv
<1>1. Init => HistoryInv
  BY InitOrder, InitSkip, InitForget DEF HistoryInv
<1>2. ASSUME SinkInv, SinkInv', CountsOK, HistoryInv, [Next]_vars PROVE HistoryInv'
  BY <1>2, OrderStep, SkipStep, ForgetStep DEF HistoryInv
<1> QED
  BY <1>1, <1>2, SinkInvariant, CountsInvariant, PTL DEF Spec

(* The files read from the oldest to the newest go forward in time, for    *)
(* any sizes, any number of files and after any failure or crash.          *)
THEOREM BytesInOrder == Spec => []FilesInOrder
<1>1. SinkInv /\ HistoryInv => FilesInOrder
  BY OrderGivesHistory DEF SinkInv, HistoryInv
<1> QED
  BY <1>1, SinkInvariant, HistoryInvariant, PTL

(* While nothing fails, the files and the buffer are an unbroken end of    *)
(* what the logger handed over.                                            *)
THEOREM NoByteSkipped == Spec => []NothingSkipped
<1>1. HistoryInv => NothingSkipped
  BY DEF HistoryInv, SkipInv
<1> QED
  BY <1>1, HistoryInvariant, PTL

(* When nothing has failed, bytes are gone only once MaxFiles rotated      *)
(* files stand beside the base file.                                       *)
THEOREM OldestForgotten == Spec => []ForgetsOnlyOldest
<1>1. SinkInv /\ HistoryInv => ForgetsOnlyOldest
  <2>1. SUFFICES ASSUME SinkInv, HistoryInv, faults = 0, pc = "idle", Len(History) < Len(accepted)
                 PROVE  \A i \in Suffixes : i \in Present
    BY DEF ForgetsOnlyOldest, Present
  <2>2. intact /\ MaxFiles \in Present
    BY <2>1 DEF HistoryInv, ForgetInv
  <2>3. TAKE i \in Suffixes
  <2>4. i = MaxFiles \/ i < MaxFiles
    BY Bounds DEF Suffixes
  <2>5. MaxFiles \in Suffixes
    BY Bounds DEF Suffixes
  <2> QED
    BY <2>1, <2>2, <2>4, <2>5 DEF HistoryInv, ForgetInv, Moved
<1> QED
  BY <1>1, SinkInvariant, HistoryInvariant, PTL

(* Every state of the specification has the types of TypeOK.               *)
THEOREM TypesCorrect == Spec => []TypeOK
<1>1. Spec => [](intact \in BOOLEAN)
  <2>1. Init => intact \in BOOLEAN
    BY DEF Init
  <2>2. intact \in BOOLEAN /\ [Next]_vars => (intact \in BOOLEAN)'
    BY DEF Next, Rotation, Construct, OpenFile, SinkIt, SinkItClosed, RotateFiles, ShiftFile, ShiftThrows,
       Reopen, Store, AppendToBuffer, WriteDirect, FlushSink, Destroy, Crash, FlushBuffer, Write, Fault,
       NoFault, faultVars, vars
  <2> QED
    BY <2>1, <2>2, PTL DEF Spec
<1>2. SinkInv /\ CountsOK /\ HistoryInv /\ intact \in BOOLEAN => TypeOK
  BY DEF TypeOK, SinkInv, HistoryInv, SkipInv
<1> QED
  BY <1>1, <1>2, SinkInvariant, CountsInvariant, HistoryInvariant, PTL

=============================================================================
