-------------------------- MODULE RtLogProperties --------------------------
(***************************************************************************)
(* What RtLog owes to the threads that log, whatever the interleaving of   *)
(* their calls with the drain thread, Sync, SetLogPattern and Terminate.   *)
(***************************************************************************)
EXTENDS RtLog

(* Everything the sinks were given, in order.                              *)
Printed == out \o sink

PrintedPlaces == {Printed[i].at : i \in 1..Len(Printed)}
WrittenPlaces == {out[i].at : i \in 1..Len(out)}
ContPlaces    == {contBuf[i] : i \in 1..Len(contBuf)}
HeldPlaces    == {cur[c] : c \in Consumers} \ {0}

LostPlaces    == skipped \union UNION failed

Places == 1..Len(delivered)

Working == {"pop", "lines", "cont", "read", "restore", "put"}

CallerPcs == {"idle", "push", "publish", "wait", "pattern", "install"}
MainPcs   == {"create", "created", "join", "drain", "close"}
Lines     == [at : Nat, pattern : Patterns \union {Raw}]

-----------------------------------------------------------------------------
(* Every variable has its type.  The parts are named for the proofs; that  *)
(* overcounted holds places is in DropsCounted.                            *)
QueueOK ==
  /\ log \in Seq(Messages)
  /\ visible \subseteq 1..Len(log)
  /\ delivered \in Seq(Messages)
  /\ refused \subseteq Messages

FlagsOK ==
  /\ initialized \in BOOLEAN /\ logThreadRun \in BOOLEAN
  /\ level \in {0, 1}
  /\ dropCount \in Nat
  /\ syncSeq \in Nat /\ syncAck \in Nat
  /\ patternStr \in Patterns
  /\ logger \in [live : BOOLEAN, level : {0, 1}, pattern : Patterns \union {Raw}]

DrainOK ==
  /\ contBuf \in Seq(Nat) /\ Len(contBuf) <= ContCapacity
  /\ sink \in Seq(Lines) /\ out \in Seq(Lines)
  /\ cpc \in [Consumers -> Working \union {"off", "poll", "ack", "flush", "exit"}]
  /\ cur \in [Consumers -> Nat]
  /\ force \in [Consumers -> BOOLEAN]
  /\ copy \in [Consumers -> Patterns]
  /\ skipped \subseteq Nat /\ failed \subseteq SUBSET Nat

CallersOK ==
  /\ apc \in [App -> CallerPcs \union MainPcs]
  /\ arg \in [App -> Messages \union Patterns \union {Keep}]
  /\ \A t \in App :
       /\ apc[t] \in {"push", "publish"} => arg[t] \in Messages
       /\ apc[t] = "wait" => arg[t] \in Patterns \union {Keep}
       /\ apc[t] \in {"pattern", "install"} => arg[t] \in Patterns
  /\ target \in [App -> Nat]
  /\ calls \in [App -> 0..MaxCalls]
  /\ session \in 0..MaxSessions
  /\ promised \subseteq Nat

TypeOK == QueueOK /\ FlagsOK /\ DrainOK /\ CallersOK

(* LogQueue has one consumer: DrainAll never runs in two threads at once,  *)
(* although the drain thread of each session and Terminate all run it.     *)
SingleConsumer ==
  \A c, d \in Consumers : cpc[c] \in Working /\ cpc[d] \in Working => c = d

(* Lines and chunks reach the sinks in the order the queue accepted them,  *)
(* each at most once, over all sessions: what waits in m_contBuf comes     *)
(* before the line that flushes it and after all that was printed.         *)
OutputOrder ==
  /\ \A i, j \in 1..Len(Printed) : i < j => Printed[i].at < Printed[j].at
  /\ \A i \in 1..Len(Printed), p \in ContPlaces \union HeldPlaces : Printed[i].at < p
  /\ \A p \in ContPlaces, q \in HeldPlaces : p < q
  /\ \A i, j \in 1..Len(contBuf) : i < j => contBuf[i] < contBuf[j]

(* No entry taken out of the queue disappears: it is printed, on its way,  *)
(* or lost in one of three ways.  m_dropCount is the number of entries the *)
(* full queue has refused, plus one for each exception that lost a line,   *)
(* plus one for each line that was printed before set_pattern threw.  The  *)
(* chunks that find m_contBuf full and the entries below the logger's      *)
(* level, skipped, are in no count.                                        *)
PlacesAccounted ==
  /\ Places = PrintedPlaces \union ContPlaces \union HeldPlaces \union LostPlaces
  /\ PrintedPlaces \intersect LostPlaces = {}

DropsCounted ==
  /\ dropCount = Cardinality(refused) + Cardinality(failed) + Cardinality(overcounted)
  /\ overcounted \subseteq PrintedPlaces

Accounted == PlacesAccounted /\ DropsCounted

(* When Terminate has returned, the entries that were published before it  *)
(* was called, up to the first one a preempted thread had not published,   *)
(* are in the output device or among the losses: none waits in the queue,  *)
(* in m_contBuf or in the buffer of a sink.                                *)
TerminateWritesAll ==
  apc[Main] = "idle" /\ ~initialized /\ ~logger.live
    => /\ promised \subseteq WrittenPlaces \union LostPlaces
       /\ sink = <<>> /\ contBuf = <<>>

(* As long as nothing throws, a regular line is never printed with the     *)
(* bare "%v" that FlushContLines installs around a chunk.                  *)
NoThrow == failed = {} /\ overcounted = {}
LinesHavePrefix ==
  NoThrow =>
    \A i \in 1..Len(Printed) :
      Printed[i].pattern = Raw => IsChunk(delivered[Printed[i].at])

-----------------------------------------------------------------------------
(* The inductive invariant.  LifeInv relates the stages of Initialize and  *)
(* Terminate with the flags and the consumers that exist.                  *)
LifeInv ==
  /\ \A t \in App : apc[t] \in MainPcs => t = Main
  /\ \A d \in Drainers :
       cpc[d] # "off" => d = session /\ (initialized \/ apc[Main] = "created")
  /\ cpc[Finisher] # "off" <=> apc[Main] = "drain"
  /\ cpc[Finisher] \notin {"poll", "ack", "flush"}
  /\ apc[Main] \in {"create", "drain", "close"} => \A d \in Drainers : cpc[d] = "off"
  /\ apc[Main] \in {"create", "created", "close"} => ~initialized
  /\ apc[Main] \in {"join", "drain"} => initialized
  /\ initialized \/ apc[Main] \in {"create", "created", "close"} => logger.live
  /\ apc[Main] = "create" => session \in Drainers

(* The local state of a consumer: where it holds an entry, and where the   *)
(* buffer of chunks is known to be empty.                                  *)
Flushing == {"lines", "cont", "read", "restore"}

ConsumerAt(c) ==
  /\ cur[c] \in {0, Len(delivered)}
  /\ cur[c] # 0 => cpc[c] \in Flushing \union {"put"}
  /\ cpc[c] = "put" => cur[c] # 0 /\ contBuf = <<>>
  /\ cur[c] # 0 /\ cpc[c] \in Flushing => force[c]
  /\ force[c] => cpc[c] \in Flushing
  /\ force[c] /\ cur[c] = 0 => c = Finisher
  /\ cpc[c] = "cont" => contBuf # <<>>
  /\ c = Finisher /\ cpc[c] = "exit" => contBuf = <<>>

ConsumerInv == \A c \in Consumers : ConsumerAt(c)

(* Printed and buffered entries have left the queue.                       *)
OrderInv ==
  /\ OutputOrder
  /\ \A i \in 1..Len(Printed) : Printed[i].at \in Places
  /\ ContPlaces \subseteq Places

(* An entry is lost at most once, and neither printed nor held; each       *)
(* exception has lost something of its own.                                *)
PlacesInv ==
  /\ PlacesAccounted
  /\ LostPlaces \intersect (ContPlaces \union HeldPlaces) = {}
  /\ {} \notin failed

(* A line that is about to be counted has not been counted before.         *)
LastPrinted == Printed[Len(Printed)].at
LineCountedOnce ==
  \A c \in Consumers : cpc[c] \in {"read", "restore"} =>
    Printed # <<>> /\ LastPrinted \notin overcounted

CountInv ==
  /\ DropsCounted /\ LineCountedOnce
  /\ IsFiniteSet(refused) /\ IsFiniteSet(failed) /\ IsFiniteSet(overcounted)

(* The bare pattern is there only while a consumer is printing chunks.     *)
PrefixInv ==
  /\ LinesHavePrefix
  /\ \A i \in 1..Len(contBuf) : IsChunk(delivered[contBuf[i]])
  /\ NoThrow /\ logger.pattern = Raw
       => \E c \in Consumers : cpc[c] \in {"cont", "read", "restore"}

(* What Terminate has promised goes through its last DrainAll.             *)
TerminateInv ==
  /\ apc[Main] \in {"join", "drain", "close"} => promised \subseteq PublishedAhead
  /\ (force[Finisher] /\ cur[Finisher] = 0) \/ cpc[Finisher] = "exit"
       => promised \subseteq Places
  /\ apc[Main] = "close" => promised \subseteq Places /\ contBuf = <<>>
  /\ ~logger.live => promised \subseteq Places /\ contBuf = <<>> /\ sink = <<>>

RtLogInv ==
  /\ TypeOK /\ LifeInv /\ ConsumerInv /\ OrderInv /\ PlacesInv
  /\ CountInv /\ PrefixInv /\ TerminateInv

-----------------------------------------------------------------------------
(* A Sync, alone or inside SetLogPattern, comes back: the drain thread     *)
(* acknowledges it, or Terminate stops the wait.                           *)
SyncReturns == \A t \in App : apc[t] = "wait" ~> apc[t] # "wait"

(* Terminate comes back: the drain thread sees m_logThreadRun and leaves,  *)
(* and the last DrainAll ends.                                             *)
TerminateReturns == apc[Main] = "join" ~> apc[Main] = "idle"

(* While the drain thread runs, an entry with no unpublished one before it *)
(* gets to the output device, or is lost in one of the ways above, or is a *)
(* chunk that waits for the end of its line.                               *)
EntriesGetOut ==
  \A i \in 1..(MaxCalls * Cardinality(App)) :
    i \in PublishedAhead /\ initialized
      ~> \/ i \in WrittenPlaces \union LostPlaces \union ContPlaces
         \/ ~logThreadRun

-----------------------------------------------------------------------------
(* "Wait until the drain thread has processed all messages currently in    *)
(* the queue", so that "already-queued messages" are not "output with the  *)
(* new pattern": when the drain thread has acknowledged the Sync of a      *)
(* thread, nothing that this thread has logged is left in the queue.       *)
SyncDrains ==
  [][\A t \in App :
       SyncDone(t) /\ syncAck >= target[t]
         => \A i \in 1..Len(log) : log[i].by = t => i <= Len(delivered)]_vars

=============================================================================
