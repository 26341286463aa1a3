------------------------------- MODULE RtLog -------------------------------
(***************************************************************************)
(* dt::Log::RtLog: real-time threads put entries in the log queue, one     *)
(* drain thread takes them out, formats them and hands them to the sinks.  *)
(* Application threads log, ask for a Sync or change the pattern or the    *)
(* level; one of them, Main, also calls Initialize and Terminate.          *)
(*                                                                         *)
(* The queue is the one of BoundedLog, which LogQueue implements.  An      *)
(* entry is known by its place in the order of deliveries, so that what    *)
(* happened to it can be told from the sequences it is in.                 *)
(*                                                                         *)
(* The lines that Initialize, Terminate and DeleteThread log themselves    *)
(* are those of any application thread; a call that returns early because  *)
(* the logger is not initialized or the level is not active changes        *)
(* nothing and is not an action.                                           *)
(***************************************************************************)
EXTENDS Integers, Sequences, FiniteSets

CONSTANTS
  App,          (* the application threads                                 *)
  Main,         (* the one that calls Initialize and Terminate             *)
  Kinds,        (* the kinds of entries: a subset of AllKinds              *)
  Patterns,     (* the patterns SetLogPattern may install                  *)
  Default,      (* the pattern Initialize installs                         *)
  Raw,          (* the pattern "%v", without prefix                        *)
  Keep,         (* a Sync that changes no pattern                          *)
  Capacity,     (* QUEUE_CAPACITY                                          *)
  ContCapacity, (* CONT_BUF_SIZE, counted in chunks                        *)
  MaxCalls,     (* bound on the calls of an application thread             *)
  MaxSessions,  (* bound on the calls of Initialize                        *)
  MaxFaults     (* bound on the exceptions of the calls to spdlog          *)

(* A full line, a full line of a level below info, and the two forms of a  *)
(* LOG_CONT chunk: without and with a final newline.                       *)
AllKinds == {"line", "debug", "part", "end"}

ASSUME RtLogAssumption ==
  /\ Main \in App
  /\ Kinds \subseteq AllKinds
  /\ Default \in Patterns
  /\ Raw \notin Patterns
  /\ Keep \notin Patterns
  /\ Capacity \in Nat \ {0}
  /\ ContCapacity \in Nat \ {0}
  /\ MaxCalls \in Nat
  /\ MaxSessions \in Nat
  /\ MaxFaults \in Nat

VARIABLES
  log, visible, delivered, refused,  (* m_queue, see BoundedLog            *)
  initialized,    (* m_initialized                                         *)
  logThreadRun,   (* m_logThreadRun                                        *)
  level,          (* m_level                                               *)
  dropCount,      (* m_dropCount                                           *)
  syncSeq,        (* m_syncSeq                                             *)
  syncAck,        (* m_syncAck                                             *)
  patternStr,     (* m_patternStr                                          *)
  contBuf,        (* m_contBuf: places of the chunks it holds              *)
  logger,         (* m_logger: whether it exists, its level and pattern    *)
  sink,           (* what the sinks have formatted and not written         *)
  out,            (* what the sinks have written                           *)
  cpc,            (* where each consumer is                                *)
  cur,            (* the entry in the hands of a consumer, 0 for none      *)
  force,          (* the argument of FlushContLines                        *)
  copy,           (* the copy of m_patternStr passed to set_pattern        *)
  apc,            (* where each application thread is                      *)
  arg,            (* the entry it pushes, the pattern it installs, or Keep  *)
  target,         (* the value of m_syncAck its Sync waits for             *)
  calls,          (* calls made                                            *)
  session,        (* calls of Initialize                                   *)
  skipped,        (* places of the entries thrown away and not counted     *)
  failed,         (* for each exception, the places of the entries it lost *)
  overcounted,    (* the last places of the lines that were printed and    *)
                  (* yet counted as dropped                                *)
  promised        (* PublishedAhead when Terminate was called              *)

queueVars  == <<log, visible, delivered, refused>>
flagVars   == <<initialized, logThreadRun>>
syncVars   == <<syncSeq, syncAck>>
sinkVars   == <<logger, sink, out>>
drainVars  == <<contBuf, cpc, cur, force, copy, skipped, failed, overcounted>>
callerVars == <<apc, arg, target, calls>>
mainVars   == <<session, promised>>
vars == <<queueVars, flagVars, level, dropCount, syncVars, patternStr,
          sinkVars, drainVars, callerVars, mainVars>>

Messages == [by : App, n : 1..MaxCalls, kind : Kinds]

Q == INSTANCE BoundedLog WITH Entries <- Messages

(* The consumers of the queue: the drain thread of each session, and the   *)
(* thread that calls DrainAll at the end of Terminate.                     *)
Finisher  == 0
Drainers  == 1..MaxSessions
Consumers == {Finisher} \union Drainers

(* LOG_CONT entries carry CONT_ENTRY_MARKER; "debug" is below info.        *)
IsChunk(m) == m.kind \in {"part", "end"}
LevelOf(m) == IF m.kind = "debug" THEN 0 ELSE 1

(* What a sink keeps of the lines it gets: one item for each entry.        *)
Formatted(places, pattern) ==
  [i \in 1..Len(places) |-> [at |-> places[i], pattern |-> pattern]]

(* The published entries with no unpublished one ahead of them.            *)
PublishedAhead == {i \in visible : 1..i \subseteq visible}

NoLogger == [live |-> FALSE, level |-> 1, pattern |-> Default]

Init ==
  /\ Q!Init
  /\ initialized = FALSE /\ logThreadRun = FALSE
  /\ level = 0
  /\ dropCount = 0
  /\ syncSeq = 0 /\ syncAck = 0
  /\ patternStr = Default
  /\ logger = NoLogger /\ sink = <<>> /\ out = <<>>
  /\ contBuf = <<>>
  /\ cpc = [c \in Consumers |-> "off"]
  /\ cur = [c \in Consumers |-> 0]
  /\ force = [c \in Consumers |-> FALSE]
  /\ copy = [c \in Consumers |-> Default]
  /\ skipped = {} /\ failed = {} /\ overcounted = {}
  /\ apc = [t \in App |-> "idle"]
  /\ arg = [t \in App |-> Keep]
  /\ target = [t \in App |-> 0]
  /\ calls = [t \in App |-> 0]
  /\ session = 0
  /\ promised = {}

(***************************************************************************)
(* The producers' side: LogRt, LogRtV, LogRtFmt, LogRtCont and Enqueue.    *)
(***************************************************************************)
Call(t) == apc[t] = "idle" /\ calls[t] < MaxCalls /\ calls' = [calls EXCEPT ![t] = @ + 1]

Goto(t, pc) == apc' = [apc EXCEPT ![t] = pc]

Return(t) == Goto(t, "idle") /\ arg' = [arg EXCEPT ![t] = Keep]

(* The checks of m_initialized and m_level, and the entry they let through. *)
LogRt(t, kind) ==
  LET m == [by |-> t, n |-> calls[t] + 1, kind |-> kind] IN
  /\ Call(t)
  /\ initialized
  /\ LevelOf(m) >= level
  /\ Goto(t, "push")
  /\ arg' = [arg EXCEPT ![t] = m]
  /\ UNCHANGED <<queueVars, flagVars, level, dropCount, syncVars, patternStr,
                 sinkVars, drainVars, target, mainVars>>

EnqueueReserve(t) ==
  /\ apc[t] = "push"
  /\ Q!Reserve(arg[t])
  /\ Goto(t, "publish")
  /\ UNCHANGED <<flagVars, level, dropCount, syncVars, patternStr, sinkVars,
                 drainVars, arg, target, calls, mainVars>>

EnqueuePublish(t) ==
  /\ apc[t] = "publish"
  /\ \E i \in 1..Len(log) : log[i] = arg[t] /\ Q!Publish(i)
  /\ Return(t)
  /\ UNCHANGED <<flagVars, level, dropCount, syncVars, patternStr, sinkVars,
                 drainVars, target, calls, mainVars>>

(* Mutant: the full queue is not counted.                                  *)
EnqueueRefusedUncounted(t) ==
  /\ apc[t] = "push"
  /\ Q!Refuse(arg[t])
  /\ Return(t)
  /\ UNCHANGED <<flagVars, level, dropCount, syncVars, patternStr, sinkVars, drainVars,
                 target, calls, mainVars>>

EnqueueRefused(t) ==
  /\ apc[t] = "push"
  /\ Q!Refuse(arg[t])
  /\ dropCount' = dropCount + 1
  /\ Return(t)
  /\ UNCHANGED <<flagVars, level, syncVars, patternStr, sinkVars, drainVars,
                 target, calls, mainVars>>

(***************************************************************************)
(* The drain side: Poll, DrainAll, FlushEntry and FlushContLines.          *)
(***************************************************************************)
Step(c, pc) == cpc' = [cpc EXCEPT ![c] = pc]

drainFrame == <<flagVars, level, callerVars, mainVars>>

(* Mutant: the drain thread does not look at m_logThreadRun.               *)
PollLogQueueForever(c) ==
  /\ cpc[c] = "poll"
  /\ Step(c, "pop")
  /\ UNCHANGED <<queueVars, drainFrame, dropCount, syncVars, patternStr, sinkVars,
                 contBuf, cur, force, copy, skipped, failed, overcounted>>

(* PollLogQueue tests m_logThreadRun before each Poll.                     *)
PollLogQueue(c) ==
  /\ cpc[c] = "poll"
  /\ Step(c, IF logThreadRun THEN "pop" ELSE "exit")
  /\ UNCHANGED <<queueVars, drainFrame, dropCount, syncVars, patternStr, sinkVars,
                 contBuf, cur, force, copy, skipped, failed, overcounted>>

(* A chunk goes to the buffer as far as it fits, and the complete lines    *)
(* are flushed; an entry that is a line first flushes the buffer.          *)
TakeChunk(c, place) ==
  LET fits == Len(contBuf) < ContCapacity IN
  /\ contBuf' = IF fits THEN Append(contBuf, place) ELSE contBuf
  /\ skipped' = IF fits THEN skipped ELSE skipped \union {place}
  /\ force' = [force EXCEPT ![c] = FALSE]
  /\ Step(c, "lines")
  /\ UNCHANGED cur

(* Mutant: a line overtakes the chunks in the buffer.                      *)
TakeLineUnordered(c, place) ==
  /\ cur' = [cur EXCEPT ![c] = place]
  /\ Step(c, "put")
  /\ UNCHANGED <<force, contBuf, skipped>>

TakeLine(c, place) ==
  /\ cur' = [cur EXCEPT ![c] = place]
  /\ IF contBuf # <<>>
     THEN Step(c, "lines") /\ force' = [force EXCEPT ![c] = TRUE]
     ELSE Step(c, "put") /\ UNCHANGED force
  /\ UNCHANGED <<contBuf, skipped>>

FlushEntry(c) ==
  /\ cpc[c] = "pop"
  /\ Q!Pop
  /\ LET place == Len(delivered')
     IN IF IsChunk(delivered'[place]) THEN TakeChunk(c, place) ELSE TakeLine(c, place)
  /\ UNCHANGED <<drainFrame, dropCount, syncVars, patternStr, sinkVars, copy, failed, overcounted>>

(* TryPop has found nothing: Poll goes on, Terminate flushes the buffer.   *)
DrainAllDone(c) ==
  /\ cpc[c] = "pop"
  /\ Len(delivered) + 1 \notin visible
  /\ IF c = Finisher
     THEN Step(c, "lines") /\ force' = [force EXCEPT ![c] = TRUE]
     ELSE Step(c, "ack") /\ UNCHANGED force
  /\ UNCHANGED <<queueVars, drainFrame, dropCount, syncVars, patternStr, sinkVars,
                 contBuf, cur, copy, skipped, failed, overcounted>>

(* m_contBuf has a newline exactly when its last chunk ends a line.        *)
LineReady(c) ==
  /\ logger.live
  /\ contBuf # <<>>
  /\ force[c] \/ delivered[contBuf[Len(contBuf)]].kind = "end"

FlushContRaw(c) ==
  /\ cpc[c] = "lines"
  /\ LineReady(c)
  /\ logger' = [logger EXCEPT !.pattern = Raw]
  /\ Step(c, "cont")
  /\ UNCHANGED <<queueVars, drainFrame, dropCount, syncVars, patternStr, sink, out,
                 contBuf, cur, force, copy, skipped, failed, overcounted>>

FlushContLog(c) ==
  /\ cpc[c] = "cont"
  /\ sink' = sink \o Formatted(contBuf, logger.pattern)
  /\ contBuf' = <<>>
  /\ Step(c, "read")
  /\ UNCHANGED <<queueVars, drainFrame, dropCount, syncVars, patternStr, logger, out,
                 cur, force, copy, skipped, failed, overcounted>>

(* The try of FlushContLines covers both calls of set_pattern and the log  *)
(* call between them; a set_pattern that throws has reached the sink or    *)
(* not.  Before the line is printed, the exception loses it.               *)
Throws == Cardinality(failed) + Cardinality(overcounted) < MaxFaults /\ dropCount' = dropCount + 1

PatternAmong(patterns) == \E p \in patterns : logger' = [logger EXCEPT !.pattern = p]

FlushContThrows(c) ==
  /\ Throws
  /\ \/ cpc[c] = "lines" /\ LineReady(c) /\ PatternAmong({logger.pattern, Raw})
     \/ cpc[c] = "cont" /\ UNCHANGED logger
  /\ failed' = failed \union {{contBuf[i] : i \in 1..Len(contBuf)}}
  /\ contBuf' = <<>>
  /\ Step(c, "lines")
  /\ UNCHANGED <<queueVars, drainFrame, syncVars, patternStr, sink, out, cur, force,
                 copy, skipped, overcounted>>

(* set_pattern takes its argument by value: m_patternStr is read first.    *)
ReadPatternStr(c) ==
  /\ cpc[c] = "read"
  /\ copy' = [copy EXCEPT ![c] = patternStr]
  /\ Step(c, "restore")
  /\ UNCHANGED <<queueVars, drainFrame, dropCount, syncVars, patternStr, sinkVars,
                 contBuf, cur, force, skipped, failed, overcounted>>

RestorePattern(c) ==
  /\ cpc[c] = "restore"
  /\ logger' = [logger EXCEPT !.pattern = copy[c]]
  /\ copy' = [copy EXCEPT ![c] = Default]
  /\ Step(c, "lines")
  /\ UNCHANGED <<queueVars, drainFrame, dropCount, syncVars, patternStr, sink, out,
                 contBuf, cur, force, skipped, failed, overcounted>>

(* After the line is printed, the exception counts it all the same.        *)
RestoreThrows(c) ==
  /\ Throws
  /\ \/ cpc[c] = "read" /\ UNCHANGED logger
     \/ cpc[c] = "restore" /\ PatternAmong({logger.pattern, copy[c]})
  /\ overcounted' = overcounted \union {(out \o sink)[Len(out \o sink)].at}
  /\ copy' = [copy EXCEPT ![c] = Default]
  /\ Step(c, "lines")
  /\ UNCHANGED <<queueVars, drainFrame, syncVars, patternStr, sink, out, contBuf, cur,
                 force, skipped, failed>>

FlushContDone(c) ==
  /\ cpc[c] = "lines"
  /\ ~LineReady(c)
  /\ Step(c, IF cur[c] # 0 THEN "put" ELSE IF force[c] THEN "exit" ELSE "pop")
  /\ force' = [force EXCEPT ![c] = FALSE]
  /\ UNCHANGED <<queueVars, drainFrame, dropCount, syncVars, patternStr, sinkVars,
                 contBuf, cur, copy, skipped, failed, overcounted>>

(* target->log(): spdlog drops what is below the level of the logger.      *)
LogEntry(c) ==
  LET passes == logger.live /\ LevelOf(delivered[cur[c]]) >= logger.level IN
  /\ cpc[c] = "put"
  /\ sink' = IF passes THEN sink \o Formatted(<<cur[c]>>, logger.pattern) ELSE sink
  /\ skipped' = IF passes THEN skipped ELSE skipped \union {cur[c]}
  /\ cur' = [cur EXCEPT ![c] = 0]
  /\ Step(c, "pop")
  /\ UNCHANGED <<queueVars, drainFrame, dropCount, syncVars, patternStr, logger, out,
                 contBuf, force, copy, failed, overcounted>>

LogEntryThrows(c) ==
  /\ cpc[c] = "put"
  /\ Throws
  /\ failed' = failed \union {{cur[c]}}
  /\ cur' = [cur EXCEPT ![c] = 0]
  /\ Step(c, "pop")
  /\ UNCHANGED <<queueVars, drainFrame, syncVars, patternStr, sinkVars, contBuf, force,
                 copy, skipped, overcounted>>

(* Poll, after DrainAll: the acknowledgement of the pending Syncs.         *)
PollAck(c) ==
  /\ cpc[c] = "ack"
  /\ syncAck' = IF syncSeq > syncAck THEN syncSeq ELSE syncAck
  /\ Step(c, "flush")
  /\ UNCHANGED <<queueVars, drainFrame, dropCount, syncSeq, patternStr, sinkVars,
                 contBuf, cur, force, copy, skipped, failed, overcounted>>

FlushSinks == out' = out \o sink /\ sink' = <<>>

(* Mutant: the flush of the sinks is left out of Poll.                     *)
PollFlushForgotten(c) ==
  /\ cpc[c] = "flush"
  /\ Step(c, "poll")
  /\ UNCHANGED <<queueVars, drainFrame, dropCount, syncVars, patternStr, sinkVars,
                 contBuf, cur, force, copy, skipped, failed, overcounted>>

(* The sinks are flushed when FLUSH_INTERVAL_NS has passed.                *)
PollFlush(c) ==
  /\ cpc[c] = "flush"
  /\ FlushSinks
  /\ Step(c, "poll")
  /\ UNCHANGED <<queueVars, drainFrame, dropCount, syncVars, patternStr, logger,
                 contBuf, cur, force, copy, skipped, failed, overcounted>>

PollTooEarly(c) ==
  /\ cpc[c] = "flush"
  /\ Step(c, "poll")
  /\ UNCHANGED <<queueVars, drainFrame, dropCount, syncVars, patternStr, sinkVars,
                 contBuf, cur, force, copy, skipped, failed, overcounted>>

(***************************************************************************)
(* Sync, SetLogPattern and SetLogLevel.                                    *)
(***************************************************************************)
AfterSync(t, p) == Goto(t, IF p = Keep THEN "idle" ELSE "pattern")

(* Sync registers its request, unless the logger is not initialized.       *)
Sync(t, p) ==
  /\ Call(t)
  /\ arg' = [arg EXCEPT ![t] = p]
  /\ IF initialized
     THEN /\ syncSeq' = syncSeq + 1
          /\ target' = [target EXCEPT ![t] = syncSeq + 1]
          /\ Goto(t, "wait")
     ELSE AfterSync(t, p) /\ UNCHANGED <<syncSeq, target>>
  /\ UNCHANGED <<queueVars, flagVars, level, dropCount, syncAck, patternStr, sinkVars,
                 drainVars, mainVars>>

(* Mutant: the wait does not end when the drain thread has stopped.        *)
SyncDoneOnAckOnly(t) ==
  /\ apc[t] = "wait"
  /\ syncAck >= target[t]
  /\ FlushSinks
  /\ AfterSync(t, arg[t])
  /\ target' = [target EXCEPT ![t] = 0]
  /\ UNCHANGED <<queueVars, flagVars, level, dropCount, syncVars, patternStr, logger,
                 drainVars, arg, calls, mainVars>>

(* The wait ends, and Sync flushes the sinks.                              *)
SyncDone(t) ==
  /\ apc[t] = "wait"
  /\ syncAck >= target[t] \/ ~logThreadRun
  /\ FlushSinks
  /\ AfterSync(t, arg[t])
  /\ target' = [target EXCEPT ![t] = 0]
  /\ UNCHANGED <<queueVars, flagVars, level, dropCount, syncVars, patternStr, logger,
                 drainVars, arg, calls, mainVars>>

SetPatternStr(t) ==
  /\ apc[t] = "pattern"
  /\ patternStr' = arg[t]
  /\ IF logger.live THEN Goto(t, "install") /\ UNCHANGED arg ELSE Return(t)
  /\ UNCHANGED <<queueVars, flagVars, level, dropCount, syncVars, sinkVars, drainVars,
                 target, calls, mainVars>>

InstallPattern(t) ==
  /\ apc[t] = "install"
  /\ logger' = [logger EXCEPT !.pattern = arg[t]]
  /\ Return(t)
  /\ UNCHANGED <<queueVars, flagVars, level, dropCount, syncVars, patternStr, sink, out,
                 drainVars, target, calls, mainVars>>

SetLevel(t, l) ==
  /\ Call(t)
  /\ level' = l
  /\ logger' = IF logger.live THEN [logger EXCEPT !.level = l] ELSE logger
  /\ UNCHANGED <<queueVars, flagVars, dropCount, syncVars, patternStr, sink, out,
                 drainVars, apc, arg, target, mainVars>>

(***************************************************************************)
(* Initialize and Terminate.                                               *)
(***************************************************************************)
lifeFrame == <<queueVars, level, dropCount, syncVars, cur, force, copy, failed, overcounted,
               arg, target, calls>>

(* A new logger takes the place of the last one, whose sinks are flushed.  *)
Initialize ==
  /\ apc[Main] = "idle"
  /\ ~initialized
  /\ session < MaxSessions
  /\ session' = session + 1
  /\ FlushSinks
  /\ logger' = [live |-> TRUE, level |-> 1, pattern |-> Default]
  /\ patternStr' = Default
  /\ contBuf' = <<>>
  /\ skipped' = skipped \union {contBuf[i] : i \in 1..Len(contBuf)}
  /\ logThreadRun' = TRUE
  /\ Goto(Main, "create")
  /\ UNCHANGED <<lifeFrame, initialized, cpc, promised>>

CreateThread ==
  /\ apc[Main] = "create"
  /\ cpc' = [cpc EXCEPT ![session] = "poll"]
  /\ Goto(Main, "created")
  /\ UNCHANGED <<lifeFrame, flagVars, patternStr, sinkVars, contBuf, skipped, mainVars>>

Initialized ==
  /\ apc[Main] = "created"
  /\ initialized' = TRUE
  /\ Goto(Main, "idle")
  /\ UNCHANGED <<lifeFrame, logThreadRun, patternStr, sinkVars, contBuf, cpc, skipped,
                 mainVars>>

CreateThreadFails ==
  /\ apc[Main] = "create"
  /\ logThreadRun' = FALSE
  /\ Goto(Main, "idle")
  /\ UNCHANGED <<lifeFrame, initialized, patternStr, sinkVars, contBuf, cpc, skipped,
                 mainVars>>

Terminate ==
  /\ apc[Main] = "idle"
  /\ initialized
  /\ logThreadRun' = FALSE
  /\ promised' = PublishedAhead
  /\ Goto(Main, "join")
  /\ UNCHANGED <<lifeFrame, initialized, patternStr, sinkVars, contBuf, cpc, skipped,
                 session>>

(* DeleteThread waits for the drain thread; then DrainAll runs here.       *)
DeleteThread ==
  /\ apc[Main] = "join"
  /\ cpc[session] = "exit"
  /\ cpc' = [cpc EXCEPT ![session] = "off", ![Finisher] = "pop"]
  /\ Goto(Main, "drain")
  /\ UNCHANGED <<lifeFrame, flagVars, patternStr, sinkVars, contBuf, skipped, mainVars>>

Terminated ==
  /\ apc[Main] = "drain"
  /\ cpc[Finisher] = "exit"
  /\ cpc' = [cpc EXCEPT ![Finisher] = "off"]
  /\ initialized' = FALSE
  /\ Goto(Main, "close")
  /\ UNCHANGED <<lifeFrame, logThreadRun, patternStr, sinkVars, contBuf, skipped, mainVars>>

(* Mutant: m_logger is dropped with bytes in the buffers of its sinks.     *)
CloseLoggerUnflushed ==
  /\ apc[Main] = "close"
  /\ logger' = [logger EXCEPT !.live = FALSE]
  /\ Goto(Main, "idle")
  /\ UNCHANGED <<lifeFrame, flagVars, patternStr, sink, out, contBuf, cpc, skipped, mainVars>>

(* All sinks are flushed, the registry is shut down, m_logger is reset.    *)
CloseLogger ==
  /\ apc[Main] = "close"
  /\ FlushSinks
  /\ logger' = [logger EXCEPT !.live = FALSE]
  /\ Goto(Main, "idle")
  /\ UNCHANGED <<lifeFrame, flagVars, patternStr, contBuf, cpc, skipped, mainVars>>

-----------------------------------------------------------------------------
Enqueue(t) == EnqueueReserve(t) \/ EnqueuePublish(t) \/ EnqueueRefused(t)

FlushContLines(c) ==
  \/ FlushContRaw(c) \/ FlushContLog(c) \/ FlushContThrows(c)
  \/ ReadPatternStr(c) \/ RestorePattern(c) \/ RestoreThrows(c) \/ FlushContDone(c)

DrainAll(c) ==
  \/ FlushEntry(c) \/ FlushContLines(c)
  \/ LogEntry(c) \/ LogEntryThrows(c) \/ DrainAllDone(c)

Poll(c) == PollAck(c) \/ PollFlush(c) \/ PollTooEarly(c)

Consume(c) == PollLogQueue(c) \/ DrainAll(c) \/ Poll(c)

SetLogPattern(t) == SyncDone(t) \/ SetPatternStr(t) \/ InstallPattern(t)

Shutdown == DeleteThread \/ Terminated \/ CloseLogger

Lifecycle ==
  \/ Initialize \/ CreateThread \/ Initialized \/ CreateThreadFails
  \/ Terminate \/ Shutdown

UseLogger(t) ==
  \/ \E kind \in Kinds : LogRt(t, kind)
  \/ Enqueue(t)
  \/ \E p \in Patterns \union {Keep} : Sync(t, p)
  \/ SetLogPattern(t)
  \/ \E l \in {0, 1} : SetLevel(t, l)

Next ==
  \/ \E t \in App : UseLogger(t)
  \/ \E c \in Consumers : Consume(c)
  \/ Lifecycle

Spec == Init /\ [][Next]_vars

(* The threads of the program are scheduled: a call that has started goes  *)
(* on, the drain thread and Terminate run, and the flush interval ends.    *)
Fairness ==
  /\ \A t \in App : WF_vars(Enqueue(t) \/ SetLogPattern(t))
  /\ \A c \in Consumers : WF_vars(Consume(c)) /\ SF_vars(PollFlush(c))
  /\ WF_vars(CreateThread \/ CreateThreadFails \/ Initialized \/ Shutdown)

FairSpec == Spec /\ Fairness

=============================================================================
