----------------------------- MODULE McapRotator -----------------------------
(***************************************************************************)
(* DataSinkPBMcapRotator: messages of a topic are written to an MCAP file, *)
(* and when the payload of the next one would exceed _max_file_size the    *)
(* files are renamed, file i - 1 to file i, and a new file 0 is created.   *)
(* The MCAP writer gathers messages in chunks.  A file may not open, a     *)
(* write or a renaming may fail, and the process may start anew.           *)
(*                                                                         *)
(* A message is its number and the size of its payload.  What MCAP puts    *)
(* around the payloads, headers, schemas and indexes, the rotator does not *)
(* count either: no file has a size here.                                  *)
(***************************************************************************)
EXTENDS Naturals, Sequences

CONSTANTS
  _max_file_size, _max_file_count,
  Sizes,             (* the sizes of the payloads                          *)
  MaxMessages,       (* bound on the messages                              *)
  MaxFaults          (* bound on the faults                                *)

McapRotatorAssumption ==
  /\ _max_file_size \in Nat /\ _max_file_count \in Nat \ {0}
  /\ Sizes \subseteq Nat /\ MaxMessages \in Nat /\ MaxFaults \in Nat

VARIABLES
  disk,              (* the files and the sink that writes file 0          *)
  _current_file_size,(* the payload that the rotator has counted           *)
  published,         (* history: the number of messages published          *)
  faults             (* history: the number of faults                      *)

vars == <<disk, _current_file_size, published, faults>>

Indexes == 0.._max_file_count
Exists(files, i) == i \in DOMAIN files

(* File 0 holds q; a sink that has the file open or not.                   *)
File0(files, q) == [i \in DOMAIN files \union {0} |-> IF i = 0 THEN q ELSE files[i]]
Disk(files, is_open, chunk, bad) ==
  [files |-> files, is_open |-> is_open, chunk |-> chunk, bad |-> bad]

(* FileWriterCustom::open truncates the file, or fails and leaves it.      *)
Opened(d) == {Disk(File0(d.files, <<>>), TRUE, <<>>, d.bad), Disk(d.files, FALSE, <<>>, d.bad + 1)}

(* The constructor of the sink of file 0.                                  *)
DataSinkPBMcap(d) == Opened(d)

(* handleWrite: when a write fails, after any part of the chunk, the error *)
(* is logged and the rest is lost; the writer is not told of it.  Messages *)
(* that are in the file as a whole are in it.                              *)
Written(d, n, errors) ==
  Disk(File0(d.files, d.files[0] \o SubSeq(d.chunk, 1, n)), d.is_open, <<>>, d.bad + errors)
HandleWrite(d) == {Written(d, Len(d.chunk), 0)} \union {Written(d, n, 1) : n \in 0..Len(d.chunk)}

(* Close writes the last chunk and ends the file.                          *)
Closed(d) == Disk(d.files, FALSE, d.chunk, d.bad)
Close(d) == IF d.is_open THEN {Closed(e) : e \in HandleWrite(d)} ELSE {d}

(* After an error of the writer the chunk is dropped, the file is closed.  *)
HandleWriteError(d) == Disk(d.files, FALSE, <<>>, d.bad + 1)

(* Publish and Write of the sink: the message waits in the chunk, completes *)
(* it or is refused by the writer; without a file it is dropped.           *)
PublishMcap(d, m) ==
  LET next == Disk(d.files, d.is_open, Append(d.chunk, m), d.bad)
  IN  IF d.is_open THEN {next, HandleWriteError(d)} \union HandleWrite(next) ELSE {d}

(* The files when those from index n on have been renamed, last one first. *)
Renamed(files, n) ==
  LET moved(i) == i > n /\ Exists(files, i - 1)
  IN  [i \in {j \in Indexes : moved(j) \/ (Exists(files, j) /\ (j < n \/ j = _max_file_count))} |->
         IF moved(i) THEN files[i - 1] ELSE files[i]]

(* Mutant: The files are renamed from the first on.                        *)
RotateFirstOn(d) ==
  UNION {DataSinkPBMcap(Disk([i \in Indexes |-> IF Exists(e.files, 0) THEN e.files[0] ELSE <<>>],
                             e.is_open, e.chunk, e.bad)) : e \in Close(d)}

(* rename_file removes the target before it fails, if it is there.         *)
rename_file(files, n) == {files, [i \in DOMAIN files \ {n} |-> files[i]]}

(* Rotate.  When file n - 1 cannot be renamed file 0 is truncated all the  *)
(* same, and Rotate throws: the message is not published.                  *)
Rotate(d) ==
  UNION {DataSinkPBMcap(Disk(Renamed(e.files, 0), e.is_open, e.chunk, e.bad)) : e \in Close(d)}

Failing(e)  == {n \in 1.._max_file_count : Exists(e.files, n - 1)}
Outcomes(e) == UNION {rename_file(Renamed(e.files, n), n) : n \in Failing(e)}
RenameFails(d) ==
  UNION {UNION {DataSinkPBMcap(Disk(fs, e.is_open, e.chunk, e.bad + 1)) : fs \in Outcomes(e)} : e \in Close(d)}

(* The constructor: file 0 is truncated, whatever `truncate` says.         *)
New(d) == DataSinkPBMcap(d)

Init ==
  /\ disk \in New(Disk(<<>>, FALSE, <<>>, 0))
  /\ _current_file_size = 0 /\ published = 0 /\ faults = 0 /\ disk.bad = 0

Becomes(d) ==
  /\ faults + d.bad <= MaxFaults
  /\ disk' = Disk(d.files, d.is_open, d.chunk, 0) /\ faults' = faults + d.bad

NewSize(n) == _current_file_size + n

(* Publish and Write of the rotator, with those of the sink.               *)
Put(n) ==
  /\ published < MaxMessages
  /\ published' = published + 1
  /\ LET m == [id |-> published + 1, size |-> n]
     IN  \/ /\ NewSize(n) <= _max_file_size
            /\ \E d \in PublishMcap(disk, m) : Becomes(d)
            /\ _current_file_size' = NewSize(n)
         \/ /\ NewSize(n) > _max_file_size
            /\ \E d \in Rotate(disk) : \E e \in PublishMcap(d, m) : Becomes(e)
            /\ _current_file_size' = n
         \/ /\ NewSize(n) > _max_file_size
            /\ \E d \in RenameFails(disk) : Becomes(d)
            /\ UNCHANGED _current_file_size

Publish == \E n \in Sizes : Put(n)
Write   == \E n \in Sizes : Put(n)

(* The process ends, in order or not, and another one uses the same name.  *)
Restart ==
  /\ \E d \in {disk} \union Close(disk) : \E e \in New(d) : Becomes(Disk(e.files, e.is_open, e.chunk, e.bad + 1))
  /\ _current_file_size' = 0
  /\ UNCHANGED published

Next == Publish \/ Write \/ Restart

Spec == Init /\ [][Next]_vars
-----------------------------------------------------------------------------
(* What file i holds, with what is to be written to it.                    *)
Content(i) == IF i = 0 THEN disk.files[0] \o disk.chunk ELSE disk.files[i]
Files == DOMAIN disk.files

(* Every variable has its type; a chunk belongs to an open file.           *)
McapTypeOK ==
  /\ Files \subseteq Indexes
  /\ \A i \in Files : Content(i) \in Seq([id : 1..published, size : Sizes])
  /\ disk.is_open \in BOOLEAN /\ (disk.is_open => Exists(disk.files, 0))
  /\ disk.chunk # <<>> => disk.is_open
  /\ published \in 0..MaxMessages /\ faults \in 0..MaxFaults

(* Read from the oldest file to the newest, the messages come in the order *)
(* of their publishing and none comes twice, whatever failed.              *)
MessagesInOrder ==
  \A i, j \in Files : \A k \in 1..Len(Content(i)), l \in 1..Len(Content(j)) :
    i > j \/ (i = j /\ k < l) => Content(i)[k].id < Content(j)[l].id

(* As long as nothing failed no message is skipped, and the oldest ones go *)
(* only when there are _max_file_count old files.                          *)
Ids == UNION {{Content(i)[k].id : k \in 1..Len(Content(i))} : i \in Files}
NewestMessagesKept ==
  faults = 0 =>
    \E n \in 1..(published + 1) :
      Ids = n..published /\ (n > 1 => Exists(disk.files, _max_file_count))

(* No file holds more payload than _max_file_size, unless it is that of    *)
(* one message: what is counted covers the payloads that are written.      *)
Size(q) ==
  LET upTo[n \in 0..Len(q)] == IF n = 0 THEN 0 ELSE upTo[n - 1] + q[n].size
  IN  upTo[Len(q)]
PayloadBounded == \A i \in Files : Size(Content(i)) <= _max_file_size \/ Len(Content(i)) = 1

(* The invariant that is inductive: the count covers file 0, which is open *)
(* as long as nothing failed.                                              *)
McapInv ==
  /\ McapTypeOK /\ MessagesInOrder /\ NewestMessagesKept /\ PayloadBounded
  /\ \A i \in Files : disk.files[i] \in Seq([id : 1..published, size : Sizes])
  /\ disk.chunk \in Seq([id : 1..published, size : Sizes])
  /\ disk.bad = 0 /\ _current_file_size \in Nat
  /\ disk.is_open => Size(Content(0)) <= _current_file_size
  /\ faults = 0 => disk.is_open
=============================================================================
