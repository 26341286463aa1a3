---------------------------- MODULE RtLog_proofs ----------------------------
(***************************************************************************)
(* Proofs that the invariants of RtLogProperties hold for any number of    *)
(* threads, entries, sessions and any capacity.                            *)
(***************************************************************************)
EXTENDS RtLogProperties, FiniteSetTheorems, TLAPS

USE DEF Finisher, Drainers, Consumers

LEMMA Bounds ==
  /\ Main \in App /\ Default \in Patterns /\ Raw \notin Patterns
  /\ ContCapacity \in Nat \ {0} /\ MaxCalls \in Nat /\ MaxSessions \in Nat
BY RtLogAssumption

(* A part of the type invariant holds after a step that leaves its         *)
(* variables alone.                                                        *)
LEMMA QueueFrame ==
  ASSUME QueueOK, UNCHANGED queueVars PROVE QueueOK'
BY DEF QueueOK, queueVars

LEMMA FlagsFrame ==
  ASSUME FlagsOK,
         UNCHANGED <<flagVars, level, dropCount, syncVars, patternStr, logger>>
  PROVE  FlagsOK'
BY DEF FlagsOK, flagVars, syncVars

LEMMA DrainFrame ==
  ASSUME DrainOK, UNCHANGED <<drainVars, sink, out>> PROVE DrainOK'
BY DEF DrainOK, drainVars

LEMMA CallersFrame ==
  ASSUME CallersOK, UNCHANGED <<callerVars, mainVars>> PROVE CallersOK'
BY DEF CallersOK, callerVars, mainVars

(* What the sinks are given are lines.                                     *)
LEMMA FormattedIsLines ==
  ASSUME NEW s \in Seq(Nat), NEW p \in Patterns \union {Raw}
  PROVE  Formatted(s, p) \in Seq(Lines) /\ Len(Formatted(s, p)) = Len(s)
<1>1. \A i \in 1..Len(s) : [at |-> s[i], pattern |-> p] \in Lines
  BY DEF Lines
<1> QED
  BY <1>1 DEF Formatted

LEMMA FlushedIsLines ==
  ASSUME sink \in Seq(Lines), out \in Seq(Lines), FlushSinks
  PROVE  sink' \in Seq(Lines) /\ out' \in Seq(Lines)
BY DEF FlushSinks

LEMMA ArgIsTyped ==
  ASSUME CallersOK, NEW t \in App
  PROVE  /\ apc[t] \in {"push", "publish"} => arg[t] \in Messages
         /\ apc[t] \in {"pattern", "install"} => arg[t] \in Patterns
BY DEF CallersOK

LEMMA UseLoggerType ==
  ASSUME TypeOK, NEW t \in App, UseLogger(t)
  PROVE  TypeOK'
<1> USE DEF TypeOK
<1>1. ASSUME NEW kind \in Kinds, LogRt(t, kind) PROVE TypeOK'
  <2>1. CallersOK'
    <3>1. calls[t] \in 0..(MaxCalls - 1) /\ calls' \in [App -> 0..MaxCalls]
      BY <1>1, Bounds DEF LogRt, Call, CallersOK
    <3>2. [by |-> t, n |-> calls[t] + 1, kind |-> kind] \in [by : App, n : 1..MaxCalls, kind : Kinds]
      BY <3>1, Bounds
    <3>3. /\ arg' = [arg EXCEPT ![t] = [by |-> t, n |-> calls[t] + 1, kind |-> kind]]
          /\ apc' = [apc EXCEPT ![t] = "push"]
          /\ UNCHANGED <<target, mainVars>>
      BY <1>1 DEF LogRt, Goto
    <3> QED
      BY <3>1, <3>2, <3>3 DEF CallersOK, CallerPcs, Messages, mainVars
  <2> QED
    BY <1>1, <2>1, QueueFrame, FlagsFrame, DrainFrame
       DEF LogRt, queueVars, flagVars, syncVars, sinkVars, drainVars,
           mainVars
<1>2. ASSUME EnqueueReserve(t) PROVE TypeOK'
  <2>1. QueueOK'
    <3>1. arg[t] \in Messages
      BY <1>2, ArgIsTyped DEF EnqueueReserve
    <3>2. log' = Append(log, arg[t]) /\ UNCHANGED <<visible, delivered, refused>>
      BY <1>2 DEF EnqueueReserve, Q!Reserve
    <3>3. log' \in Seq(Messages) /\ Len(log') = Len(log) + 1
      BY <3>1, <3>2 DEF QueueOK
    <3> QED
      BY <3>2, <3>3 DEF QueueOK
  <2>2. CallersOK'
    BY <1>2, Bounds
       DEF CallersOK, CallerPcs, MainPcs, EnqueueReserve, Goto, flagVars,
           syncVars, sinkVars, drainVars, mainVars, Q!Reserve
  <2> QED
    BY <1>2, <2>1, <2>2, FlagsFrame, DrainFrame
       DEF EnqueueReserve, flagVars, syncVars, sinkVars, drainVars,
           mainVars
<1>3. ASSUME EnqueuePublish(t) PROVE TypeOK'
  <2>1. QueueOK'
    BY <1>3, Bounds
       DEF QueueOK, EnqueuePublish, Return, flagVars, syncVars, sinkVars,
           drainVars, mainVars, Goto, Q!Publish
  <2>2. CallersOK'
    BY <1>3, Bounds
       DEF CallersOK, CallerPcs, MainPcs, EnqueuePublish, Return,
           flagVars, syncVars, sinkVars, drainVars, mainVars, Goto,
           Q!Publish
  <2> QED
    BY <1>3, <2>1, <2>2, FlagsFrame, DrainFrame
       DEF EnqueuePublish, flagVars, syncVars, sinkVars, drainVars,
           mainVars
<1>4. ASSUME EnqueueRefused(t) PROVE TypeOK'
  <2>1. QueueOK'
    <3>1. arg[t] \in Messages
      BY <1>4, ArgIsTyped DEF EnqueueRefused
    <3> QED
      BY <1>4, <3>1 DEF QueueOK, EnqueueRefused, Q!Refuse
  <2>2. FlagsOK'
    BY <1>4, Bounds
       DEF FlagsOK, EnqueueRefused, Return, flagVars, syncVars, sinkVars,
           drainVars, mainVars, Goto, Q!Refuse
  <2>3. CallersOK'
    BY <1>4, Bounds
       DEF CallersOK, CallerPcs, MainPcs, EnqueueRefused, Return,
           flagVars, syncVars, sinkVars, drainVars, mainVars, Goto,
           Q!Refuse
  <2> QED
    BY <1>4, <2>1, <2>2, <2>3, DrainFrame
       DEF EnqueueRefused, flagVars, syncVars, sinkVars, drainVars,
           mainVars
<1>5. ASSUME NEW p \in Patterns \union {Keep}, Sync(t, p) PROVE TypeOK'
  <2>1. FlagsOK'
    BY <1>5, Bounds
       DEF FlagsOK, Sync, Call, Goto, AfterSync, queueVars, flagVars,
           sinkVars, drainVars, mainVars
  <2>2. CallersOK'
    <3>1. calls' \in [App -> 0..MaxCalls]
      BY <1>5, Bounds DEF Sync, Call, CallersOK
    <3>2. syncSeq + 1 \in Nat
      BY DEF FlagsOK
    <3>3. target' \in [App -> Nat]
      BY <1>5, <3>2 DEF Sync, CallersOK
    <3>4. arg' = [arg EXCEPT ![t] = p] /\ UNCHANGED mainVars
      BY <1>5 DEF Sync
    <3>5. PICK pc \in {"idle", "wait", "pattern"} :
            apc' = [apc EXCEPT ![t] = pc] /\ (pc = "pattern" => p # Keep)
      BY <1>5 DEF Sync, AfterSync, Goto
    <3> QED
      BY <3>1, <3>3, <3>4, <3>5 DEF CallersOK, CallerPcs, mainVars
  <2> QED
    BY <1>5, <2>1, <2>2, QueueFrame, DrainFrame
       DEF Sync, queueVars, flagVars, sinkVars, drainVars, mainVars
<1>6. ASSUME SyncDone(t) PROVE TypeOK'
  <2>1. DrainOK'
    BY <1>6, Bounds
       DEF DrainOK, Working, SyncDone, FlushSinks, AfterSync, queueVars,
           flagVars, syncVars, drainVars, mainVars, Goto
  <2>2. CallersOK'
    BY <1>6, Bounds
       DEF CallersOK, CallerPcs, MainPcs, SyncDone, FlushSinks,
           AfterSync, queueVars, flagVars, syncVars, drainVars, mainVars,
           Goto
  <2> QED
    BY <1>6, <2>1, <2>2, QueueFrame, FlagsFrame
       DEF SyncDone, queueVars, flagVars, syncVars, drainVars, mainVars
<1>7. ASSUME SetPatternStr(t) PROVE TypeOK'
  <2>1. FlagsOK'
    <3>1. patternStr' \in Patterns
      BY <1>7, ArgIsTyped DEF SetPatternStr
    <3> QED
      BY <1>7, <3>1 DEF FlagsOK, SetPatternStr, flagVars, syncVars, sinkVars
  <2>2. CallersOK'
    BY <1>7, Bounds
       DEF CallersOK, CallerPcs, MainPcs, SetPatternStr, Goto, Return,
           queueVars, flagVars, syncVars, sinkVars, drainVars, mainVars
  <2> QED
    BY <1>7, <2>1, <2>2, QueueFrame, DrainFrame
       DEF SetPatternStr, queueVars, flagVars, syncVars, sinkVars,
           drainVars, mainVars
<1>8. ASSUME InstallPattern(t) PROVE TypeOK'
  <2>1. FlagsOK'
    <3>1. arg[t] \in Patterns
      BY <1>8, ArgIsTyped DEF InstallPattern
    <3> QED
      BY <1>8, <3>1 DEF FlagsOK, InstallPattern, flagVars, syncVars
  <2>2. CallersOK'
    BY <1>8, Bounds
       DEF CallersOK, CallerPcs, MainPcs, InstallPattern, Return,
           queueVars, flagVars, syncVars, drainVars, mainVars, Goto
  <2> QED
    BY <1>8, <2>1, <2>2, QueueFrame, DrainFrame
       DEF InstallPattern, queueVars, flagVars, syncVars, drainVars,
           mainVars
<1>9. ASSUME NEW l \in {0, 1}, SetLevel(t, l) PROVE TypeOK'
  <2>1. FlagsOK'
    BY <1>9, Bounds
       DEF FlagsOK, SetLevel, Call, queueVars, flagVars, syncVars,
           drainVars, mainVars
  <2>2. CallersOK'
    BY <1>9, Bounds
       DEF CallersOK, CallerPcs, MainPcs, SetLevel, Call, queueVars,
           flagVars, syncVars, drainVars, mainVars
  <2> QED
    BY <1>9, <2>1, <2>2, QueueFrame, DrainFrame
       DEF SetLevel, queueVars, flagVars, syncVars, drainVars, mainVars
<1> QED
  BY <1>1, <1>2, <1>3, <1>4, <1>5, <1>6, <1>7, <1>8, <1>9
     DEF UseLogger, Enqueue, SetLogPattern

LEMMA PatternTyped ==
  ASSUME FlagsOK, NEW ps \in SUBSET (Patterns \union {Raw}),
         PatternAmong(ps) \/ logger' = logger
  PROVE  /\ logger' \in [live : BOOLEAN, level : {0, 1}, pattern : Patterns \union {Raw}]
         /\ logger'.live = logger.live
<1>1. ASSUME NEW p \in ps, logger' = [logger EXCEPT !.pattern = p]
      PROVE  /\ logger' \in [live : BOOLEAN, level : {0, 1}, pattern : Patterns \union {Raw}]
             /\ logger'.live = logger.live
  BY <1>1 DEF FlagsOK
<1> QED
  BY <1>1 DEF FlagsOK, PatternAmong

LEMMA ConsumeType ==
  ASSUME TypeOK, NEW c \in Consumers, Consume(c)
  PROVE  TypeOK'
<1> USE DEF TypeOK
<1>1. ASSUME PollLogQueue(c) PROVE TypeOK'
  <2>1. DrainOK'
    BY <1>1, Bounds
       DEF DrainOK, Working, PollLogQueue, Step, queueVars, syncVars,
           sinkVars, drainFrame, flagVars, callerVars, mainVars
  <2> QED
    BY <1>1, <2>1, QueueFrame, FlagsFrame, CallersFrame
       DEF PollLogQueue, drainFrame, queueVars, syncVars, sinkVars,
           flagVars, callerVars, mainVars
<1>2. ASSUME FlushEntry(c) PROVE TypeOK'
  <2>1. QueueOK'
    BY <1>2, Bounds
       DEF QueueOK, FlushEntry, TakeChunk, TakeLine, syncVars, sinkVars,
           drainFrame, flagVars, callerVars, mainVars, Step, Q!Pop
  <2>2. DrainOK'
    <3> DEFINE place == Len(delivered')
    <3>1. place \in Nat
      BY <2>1 DEF QueueOK
    <3>2. CASE TakeChunk(c, place)
      <4>1. contBuf' \in Seq(Nat) /\ Len(contBuf') <= ContCapacity
        BY <3>1, <3>2, Bounds DEF TakeChunk, DrainOK
      <4> QED
        BY <1>2, <3>1, <3>2, <4>1
           DEF FlushEntry, TakeChunk, Step, DrainOK, Working, sinkVars
    <3>3. CASE TakeLine(c, place)
      <4>1. cur' \in [Consumers -> Nat]
        BY <3>1, <3>3 DEF TakeLine, DrainOK
      <4>2. /\ cpc' \in [Consumers -> Working \union {"off", "poll", "ack", "flush", "exit"}]
            /\ force' \in [Consumers -> BOOLEAN]
        BY <3>3 DEF TakeLine, Step, DrainOK, Working
      <4> QED
        BY <1>2, <3>3, <4>1, <4>2 DEF FlushEntry, TakeLine, DrainOK, sinkVars
    <3> QED
      BY <1>2, <3>2, <3>3 DEF FlushEntry
  <2> QED
    BY <1>2, <2>1, <2>2, FlagsFrame, CallersFrame
       DEF FlushEntry, drainFrame, syncVars, sinkVars, flagVars,
           callerVars, mainVars
<1>3. ASSUME DrainAllDone(c) PROVE TypeOK'
  <2>1. DrainOK'
    BY <1>3, Bounds
       DEF DrainOK, Working, DrainAllDone, Step, queueVars, syncVars,
           sinkVars, drainFrame, flagVars, callerVars, mainVars
  <2> QED
    BY <1>3, <2>1, QueueFrame, FlagsFrame, CallersFrame
       DEF DrainAllDone, drainFrame, queueVars, syncVars, sinkVars,
           flagVars, callerVars, mainVars
<1>4. ASSUME FlushContRaw(c) PROVE TypeOK'
  <2>1. FlagsOK'
    BY <1>4, Bounds
       DEF FlagsOK, FlushContRaw, Step, queueVars, syncVars, drainFrame,
           flagVars, callerVars, mainVars
  <2>2. DrainOK'
    BY <1>4, Bounds
       DEF DrainOK, Working, FlushContRaw, Step, queueVars, syncVars,
           drainFrame, flagVars, callerVars, mainVars
  <2> QED
    BY <1>4, <2>1, <2>2, QueueFrame, CallersFrame
       DEF FlushContRaw, drainFrame, queueVars, syncVars, flagVars,
           callerVars, mainVars
<1>5. ASSUME FlushContLog(c) PROVE TypeOK'
  <2>1. DrainOK'
    <3>1. logger.pattern \in Patterns \union {Raw}
      BY DEF FlagsOK
    <3>2. Formatted(contBuf, logger.pattern) \in Seq(Lines)
      BY <3>1, FormattedIsLines DEF DrainOK
    <3>3. sink' \in Seq(Lines) /\ contBuf' \in Seq(Nat) /\ Len(contBuf') = 0
      BY <1>5, <3>2 DEF FlushContLog, DrainOK
    <3> QED
      BY <1>5, <3>3, Bounds DEF FlushContLog, Step, DrainOK, Working
  <2> QED
    BY <1>5, <2>1, QueueFrame, FlagsFrame, CallersFrame
       DEF FlushContLog, drainFrame, queueVars, syncVars, flagVars,
           callerVars, mainVars
<1>6. ASSUME FlushContThrows(c) PROVE TypeOK'
  <2>1. FlagsOK'
    <3>1. {logger.pattern, Raw} \in SUBSET (Patterns \union {Raw})
      BY DEF FlagsOK
    <3>2. logger' \in [live : BOOLEAN, level : {0, 1}, pattern : Patterns \union {Raw}]
      BY <1>6, <3>1, PatternTyped DEF FlushContThrows
    <3> QED
      BY <1>6, <3>2 DEF FlagsOK, FlushContThrows, Throws, drainFrame, flagVars, syncVars
  <2>2. DrainOK'
    <3>1. {contBuf[i] : i \in 1..Len(contBuf)} \in SUBSET Nat
      BY DEF DrainOK
    <3>2. failed' \subseteq SUBSET Nat
      BY <1>6, <3>1 DEF FlushContThrows, DrainOK
    <3>3. contBuf' \in Seq(Nat) /\ Len(contBuf') = 0
      BY <1>6 DEF FlushContThrows
    <3>4. cpc' \in [Consumers -> Working \union {"off", "poll", "ack", "flush", "exit"}]
      BY <1>6 DEF FlushContThrows, Step, DrainOK, Working
    <3>5. Len(contBuf') <= ContCapacity
      BY <3>3, Bounds
    <3>6. UNCHANGED <<sink, out, cur, force, copy, skipped>>
      BY <1>6 DEF FlushContThrows
    <3> QED
      BY <3>2, <3>3, <3>4, <3>5, <3>6 DEF DrainOK
  <2> QED
    BY <1>6, <2>1, <2>2, QueueFrame, CallersFrame
       DEF FlushContThrows, drainFrame, queueVars, syncVars, flagVars,
           callerVars, mainVars
<1>7. ASSUME ReadPatternStr(c) PROVE TypeOK'
  <2>1. DrainOK'
    <3>1. patternStr \in Patterns
      BY DEF FlagsOK
    <3> QED
      BY <1>7, <3>1 DEF ReadPatternStr, Step, DrainOK, Working, sinkVars
  <2> QED
    BY <1>7, <2>1, QueueFrame, FlagsFrame, CallersFrame
       DEF ReadPatternStr, drainFrame, queueVars, syncVars, sinkVars,
           flagVars, callerVars, mainVars
<1>8. ASSUME RestorePattern(c) PROVE TypeOK'
  <2>1. FlagsOK'
    <3>1. copy[c] \in Patterns
      BY DEF DrainOK
    <3> QED
      BY <1>8, <3>1
         DEF FlagsOK, RestorePattern, drainFrame, flagVars, syncVars
  <2>2. DrainOK'
    BY <1>8, Bounds
       DEF DrainOK, Working, RestorePattern, Step, queueVars, syncVars,
           drainFrame, flagVars, callerVars, mainVars
  <2> QED
    BY <1>8, <2>1, <2>2, QueueFrame, CallersFrame
       DEF RestorePattern, drainFrame, queueVars, syncVars, flagVars,
           callerVars, mainVars
<1>9. ASSUME FlushContDone(c) PROVE TypeOK'
  <2>1. DrainOK'
    BY <1>9, Bounds
       DEF DrainOK, Working, FlushContDone, Step, queueVars, syncVars,
           sinkVars, drainFrame, flagVars, callerVars, mainVars
  <2> QED
    BY <1>9, <2>1, QueueFrame, FlagsFrame, CallersFrame
       DEF FlushContDone, drainFrame, queueVars, syncVars, sinkVars,
           flagVars, callerVars, mainVars
<1>10. ASSUME LogEntry(c) PROVE TypeOK'
  <2>1. DrainOK'
    <3>1. logger.pattern \in Patterns \union {Raw} /\ cur[c] \in Nat
      BY DEF FlagsOK, DrainOK
    <3>2. <<cur[c]>> \in Seq(Nat)
      BY <3>1
    <3>3. Formatted(<<cur[c]>>, logger.pattern) \in Seq(Lines)
      BY <3>1, <3>2, FormattedIsLines
    <3>4. sink' \in Seq(Lines)
      BY <1>10, <3>3 DEF LogEntry, DrainOK
    <3>5. skipped' \subseteq Nat
      BY <1>10, <3>1 DEF LogEntry, DrainOK
    <3> QED
      BY <1>10, <3>4, <3>5 DEF LogEntry, Step, DrainOK, Working
  <2> QED
    BY <1>10, <2>1, QueueFrame, FlagsFrame, CallersFrame
       DEF LogEntry, drainFrame, queueVars, syncVars, flagVars,
           callerVars, mainVars
<1>11. ASSUME LogEntryThrows(c) PROVE TypeOK'
  <2>1. FlagsOK'
    BY <1>11, Bounds
       DEF FlagsOK, LogEntryThrows, Throws, Step, queueVars, syncVars, sinkVars,
           drainFrame, flagVars, callerVars, mainVars
  <2>2. DrainOK'
    <3>1. {cur[c]} \in SUBSET Nat
      BY DEF DrainOK
    <3>2. failed' = failed \union {{cur[c]}}
      BY <1>11 DEF LogEntryThrows
    <3>3. failed' \subseteq SUBSET Nat
      BY <3>1, <3>2 DEF DrainOK
    <3> QED
      BY <1>11, <3>3 DEF LogEntryThrows, Step, DrainOK, Working, sinkVars
  <2> QED
    BY <1>11, <2>1, <2>2, QueueFrame, CallersFrame
       DEF LogEntryThrows, drainFrame, queueVars, syncVars, sinkVars,
           flagVars, callerVars, mainVars
<1>12. ASSUME PollAck(c) PROVE TypeOK'
  <2>1. FlagsOK'
    BY <1>12, Bounds
       DEF FlagsOK, PollAck, Step, queueVars, sinkVars, drainFrame,
           flagVars, callerVars, mainVars
  <2>2. DrainOK'
    BY <1>12, Bounds
       DEF DrainOK, Working, PollAck, Step, queueVars, sinkVars,
           drainFrame, flagVars, callerVars, mainVars
  <2> QED
    BY <1>12, <2>1, <2>2, QueueFrame, CallersFrame
       DEF PollAck, drainFrame, queueVars, sinkVars, flagVars,
           callerVars, mainVars
<1>13. ASSUME PollFlush(c) PROVE TypeOK'
  <2>1. DrainOK'
    BY <1>13, Bounds
       DEF DrainOK, Working, PollFlush, Step, FlushSinks, queueVars,
           syncVars, drainFrame, flagVars, callerVars, mainVars
  <2> QED
    BY <1>13, <2>1, QueueFrame, FlagsFrame, CallersFrame
       DEF PollFlush, drainFrame, queueVars, syncVars, flagVars,
           callerVars, mainVars
<1>14. ASSUME PollTooEarly(c) PROVE TypeOK'
  <2>1. DrainOK'
    BY <1>14, Bounds
       DEF DrainOK, Working, PollTooEarly, Step, queueVars, syncVars,
           sinkVars, drainFrame, flagVars, callerVars, mainVars
  <2> QED
    BY <1>14, <2>1, QueueFrame, FlagsFrame, CallersFrame
       DEF PollTooEarly, drainFrame, queueVars, syncVars, sinkVars,
           flagVars, callerVars, mainVars
<1>15. ASSUME RestoreThrows(c) PROVE TypeOK'
  <2>1. FlagsOK'
    <3>1. {logger.pattern, copy[c]} \in SUBSET (Patterns \union {Raw})
      BY DEF FlagsOK, DrainOK
    <3>2. logger' \in [live : BOOLEAN, level : {0, 1}, pattern : Patterns \union {Raw}]
      BY <1>15, <3>1, PatternTyped DEF RestoreThrows
    <3> QED
      BY <1>15, <3>2 DEF FlagsOK, RestoreThrows, Throws, drainFrame, flagVars, syncVars
  <2>2. DrainOK'
    BY <1>15, Bounds DEF DrainOK, Working, RestoreThrows, Step
  <2> QED
    BY <1>15, <2>1, <2>2, QueueFrame, CallersFrame
       DEF RestoreThrows, drainFrame, queueVars, syncVars, flagVars,
           callerVars, mainVars
<1> QED
  BY <1>1, <1>2, <1>3, <1>4, <1>5, <1>6, <1>7, <1>8, <1>9, <1>10, <1>11,
     <1>12, <1>13, <1>14, <1>15
     DEF Consume, DrainAll, FlushContLines, Poll

LEMMA LifecycleType ==
  ASSUME TypeOK, Lifecycle
  PROVE  TypeOK'
<1> USE DEF TypeOK
<1>1. ASSUME Initialize PROVE TypeOK'
  <2>1. FlagsOK'
    BY <1>1, Bounds
       DEF FlagsOK, Initialize, Goto, FlushSinks, lifeFrame, queueVars,
           syncVars
  <2>2. DrainOK'
    <3>1. sink' \in Seq(Lines) /\ out' \in Seq(Lines)
      BY <1>1, FlushedIsLines DEF Initialize, DrainOK
    <3>2. contBuf' \in Seq(Nat) /\ Len(contBuf') = 0
      BY <1>1 DEF Initialize
    <3>3. {contBuf[i] : i \in 1..Len(contBuf)} \subseteq Nat
      BY DEF DrainOK
    <3>4. skipped' = skipped \union {contBuf[i] : i \in 1..Len(contBuf)}
      BY <1>1 DEF Initialize
    <3>5. skipped' \subseteq Nat
      BY <3>3, <3>4 DEF DrainOK
    <3> QED
      BY <1>1, <3>1, <3>2, <3>5, Bounds DEF Initialize, DrainOK, lifeFrame
  <2>3. CallersOK'
    BY <1>1, Bounds
       DEF CallersOK, CallerPcs, MainPcs, Initialize, Goto, FlushSinks,
           lifeFrame, queueVars, syncVars
  <2> QED
    BY <1>1, <2>1, <2>2, <2>3, QueueFrame
       DEF Initialize, lifeFrame, drainVars, callerVars, queueVars,
           syncVars
<1>2. ASSUME CreateThread PROVE TypeOK'
  <2>1. DrainOK'
    BY <1>2, Bounds
       DEF DrainOK, Working, CreateThread, Goto, flagVars, sinkVars,
           mainVars, lifeFrame, queueVars, syncVars
  <2>2. CallersOK'
    BY <1>2, Bounds
       DEF CallersOK, CallerPcs, MainPcs, CreateThread, Goto, flagVars,
           sinkVars, mainVars, lifeFrame, queueVars, syncVars
  <2> QED
    BY <1>2, <2>1, <2>2, QueueFrame, FlagsFrame
       DEF CreateThread, lifeFrame, drainVars, callerVars, flagVars,
           sinkVars, mainVars, queueVars, syncVars
<1>3. ASSUME Initialized PROVE TypeOK'
  <2>1. FlagsOK'
    BY <1>3, Bounds
       DEF FlagsOK, Initialized, Goto, sinkVars, mainVars, lifeFrame,
           queueVars, syncVars
  <2>2. CallersOK'
    BY <1>3, Bounds
       DEF CallersOK, CallerPcs, MainPcs, Initialized, Goto, sinkVars,
           mainVars, lifeFrame, queueVars, syncVars
  <2> QED
    BY <1>3, <2>1, <2>2, QueueFrame, DrainFrame
       DEF Initialized, lifeFrame, drainVars, callerVars, sinkVars,
           mainVars, queueVars, syncVars
<1>4. ASSUME CreateThreadFails PROVE TypeOK'
  <2>1. FlagsOK'
    BY <1>4, Bounds
       DEF FlagsOK, CreateThreadFails, Goto, sinkVars, mainVars,
           lifeFrame, queueVars, syncVars
  <2>2. CallersOK'
    BY <1>4, Bounds
       DEF CallersOK, CallerPcs, MainPcs, CreateThreadFails, Goto,
           sinkVars, mainVars, lifeFrame, queueVars, syncVars
  <2> QED
    BY <1>4, <2>1, <2>2, QueueFrame, DrainFrame
       DEF CreateThreadFails, lifeFrame, drainVars, callerVars, sinkVars,
           mainVars, queueVars, syncVars
<1>5. ASSUME Terminate PROVE TypeOK'
  <2>1. FlagsOK'
    BY <1>5, Bounds
       DEF FlagsOK, Terminate, Goto, sinkVars, lifeFrame, queueVars,
           syncVars
  <2>2. CallersOK'
    <3>1. visible \subseteq Nat
      BY DEF QueueOK
    <3>2. promised' \subseteq Nat
      BY <1>5, <3>1 DEF Terminate, PublishedAhead
    <3> QED
      BY <1>5, <3>2, Bounds
         DEF Terminate, Goto, CallersOK, CallerPcs, MainPcs, lifeFrame
  <2> QED
    BY <1>5, <2>1, <2>2, QueueFrame, DrainFrame
       DEF Terminate, lifeFrame, drainVars, callerVars, sinkVars,
           queueVars, syncVars
<1>6. ASSUME DeleteThread PROVE TypeOK'
  <2>1. DrainOK'
    BY <1>6, Bounds
       DEF DrainOK, Working, DeleteThread, Goto, flagVars, sinkVars,
           mainVars, lifeFrame, queueVars, syncVars
  <2>2. CallersOK'
    BY <1>6, Bounds
       DEF CallersOK, CallerPcs, MainPcs, DeleteThread, Goto, flagVars,
           sinkVars, mainVars, lifeFrame, queueVars, syncVars
  <2> QED
    BY <1>6, <2>1, <2>2, QueueFrame, FlagsFrame
       DEF DeleteThread, lifeFrame, drainVars, callerVars, flagVars,
           sinkVars, mainVars, queueVars, syncVars
<1>7. ASSUME Terminated PROVE TypeOK'
  <2>1. FlagsOK'
    BY <1>7, Bounds
       DEF FlagsOK, Terminated, Goto, sinkVars, mainVars, lifeFrame,
           queueVars, syncVars
  <2>2. DrainOK'
    BY <1>7, Bounds
       DEF DrainOK, Working, Terminated, Goto, sinkVars, mainVars,
           lifeFrame, queueVars, syncVars
  <2>3. CallersOK'
    BY <1>7, Bounds
       DEF CallersOK, CallerPcs, MainPcs, Terminated, Goto, sinkVars,
           mainVars, lifeFrame, queueVars, syncVars
  <2> QED
    BY <1>7, <2>1, <2>2, <2>3, QueueFrame
       DEF Terminated, lifeFrame, drainVars, callerVars, sinkVars,
           mainVars, queueVars, syncVars
<1>8. ASSUME CloseLogger PROVE TypeOK'
  <2>1. FlagsOK'
    BY <1>8, Bounds
       DEF FlagsOK, CloseLogger, Goto, FlushSinks, flagVars, mainVars,
           lifeFrame, queueVars, syncVars
  <2>2. DrainOK'
    BY <1>8, Bounds
       DEF DrainOK, Working, CloseLogger, Goto, FlushSinks, flagVars,
           mainVars, lifeFrame, queueVars, syncVars
  <2>3. CallersOK'
    BY <1>8, Bounds
       DEF CallersOK, CallerPcs, MainPcs, CloseLogger, Goto, FlushSinks,
           flagVars, mainVars, lifeFrame, queueVars, syncVars
  <2> QED
    BY <1>8, <2>1, <2>2, <2>3, QueueFrame
       DEF CloseLogger, lifeFrame, drainVars, callerVars, flagVars,
           mainVars, queueVars, syncVars
<1> QED
  BY <1>1, <1>2, <1>3, <1>4, <1>5, <1>6, <1>7, <1>8 DEF Lifecycle, Shutdown

(* Every variable of the logger keeps its type, m_contBuf its capacity     *)
(* included, for any number of threads, calls and sessions.                *)
THEOREM RtLogTypeCorrect == Spec => []TypeOK
<1>1. Init => TypeOK
  <2> SUFFICES ASSUME Init PROVE TypeOK
    OBVIOUS
  <2>1. QueueOK
    BY DEF Init, Q!Init, QueueOK
  <2>2. FlagsOK
    BY Bounds DEF Init, NoLogger, FlagsOK
  <2>3. DrainOK
    BY Bounds DEF Init, DrainOK
  <2>4. CallersOK
    BY Bounds DEF Init, CallersOK, CallerPcs
  <2> QED
    BY <2>1, <2>2, <2>3, <2>4 DEF TypeOK
<1>2. TypeOK /\ [Next]_vars => TypeOK'
  <2>1. ASSUME TypeOK, UNCHANGED vars PROVE TypeOK'
    BY <2>1, QueueFrame, FlagsFrame, DrainFrame, CallersFrame
       DEF TypeOK, vars, sinkVars
  <2> QED
    BY <2>1, UseLoggerType, ConsumeType, LifecycleType DEF Next
<1> QED BY <1>1, <1>2, PTL DEF Spec

-----------------------------------------------------------------------------
(* What the steps of the application threads, and those of the consumers,  *)
(* have in common: what they leave alone.                                  *)
LEMMA FlushKeepsPrinted ==
  ASSUME sink \in Seq(Lines), out \in Seq(Lines), FlushSinks
  PROVE  Printed' = Printed /\ sink' = <<>> /\ out' = Printed
<1>1. out \o sink \in Seq(Lines)
  OBVIOUS
<1> QED
  BY <1>1 DEF FlushSinks, Printed

CallerFrame(t) ==
  /\ apc[t] \in CallerPcs
  /\ \E pc \in CallerPcs : apc' = [apc EXCEPT ![t] = pc]
  /\ UNCHANGED <<delivered, flagVars, drainVars, mainVars>>
  /\ UNCHANGED Printed
  /\ logger'.live = logger.live
  /\ logger'.pattern \in {logger.pattern} \union Patterns
  /\ sink' \in {sink, <<>>}
  /\ visible \subseteq visible'

ConsumerFrame(c) ==
  /\ cpc[c] \in Working \union {"poll", "ack", "flush"}
  /\ \E pc \in Working \union {"poll", "ack", "flush", "exit"} :
       /\ cpc' = [cpc EXCEPT ![c] = pc]
       /\ pc \in {"poll", "ack", "flush"}
            => c # Finisher \/ cpc[c] \in {"poll", "ack", "flush"}
  /\ UNCHANGED <<log, visible, refused, flagVars, callerVars, mainVars>>
  /\ logger'.live = logger.live
  /\ \A d \in Consumers \ {c} : UNCHANGED <<cur[d], force[d]>>

LEMMA CallerStep ==
  ASSUME TypeOK, NEW t \in App, UseLogger(t)
  PROVE  CallerFrame(t)
<1>1. ASSUME NEW kind \in Kinds, LogRt(t, kind) PROVE CallerFrame(t)
  BY <1>1
     DEF CallerFrame, LogRt, Call, Goto, queueVars, sinkVars, CallerPcs,
         Printed
<1>2. ASSUME EnqueueReserve(t) PROVE CallerFrame(t)
  BY <1>2
     DEF CallerFrame, EnqueueReserve, Goto, Q!Reserve, sinkVars, CallerPcs,
         Printed
<1>3. ASSUME EnqueuePublish(t) PROVE CallerFrame(t)
  BY <1>3
     DEF CallerFrame, EnqueuePublish, Goto, Return, Q!Publish, sinkVars,
         CallerPcs, Printed
<1>4. ASSUME EnqueueRefused(t) PROVE CallerFrame(t)
  BY <1>4
     DEF CallerFrame, EnqueueRefused, Goto, Return, Q!Refuse, sinkVars,
         CallerPcs, Printed
<1>5. ASSUME NEW p \in Patterns \union {Keep}, Sync(t, p) PROVE CallerFrame(t)
  BY <1>5
     DEF CallerFrame, Sync, Call, AfterSync, Goto, queueVars, sinkVars,
         CallerPcs, Printed
<1>6. ASSUME SyncDone(t) PROVE CallerFrame(t)
  <2>1. UNCHANGED Printed /\ sink' = <<>>
    BY <1>6, FlushKeepsPrinted DEF SyncDone, TypeOK, DrainOK
  <2> QED
    BY <1>6, <2>1
       DEF CallerFrame, SyncDone, AfterSync, Goto, queueVars, CallerPcs
<1>7. ASSUME SetPatternStr(t) PROVE CallerFrame(t)
  BY <1>7
     DEF CallerFrame, SetPatternStr, Goto, Return, queueVars, sinkVars,
         CallerPcs, Printed
<1>8. ASSUME InstallPattern(t) PROVE CallerFrame(t)
  <2>1. logger' = [logger EXCEPT !.pattern = arg[t]] /\ arg[t] \in Patterns
    BY <1>8, ArgIsTyped DEF InstallPattern, TypeOK
  <2>2. logger'.live = logger.live /\ logger'.pattern \in Patterns
    BY <2>1 DEF TypeOK, FlagsOK
  <2> QED
    BY <1>8, <2>2
       DEF CallerFrame, InstallPattern, Return, Goto, queueVars, CallerPcs, Printed
<1>9. ASSUME NEW l \in {0, 1}, SetLevel(t, l) PROVE CallerFrame(t)
  <2>1. apc[t] \in CallerPcs /\ apc' = [apc EXCEPT ![t] = apc[t]]
    BY <1>9 DEF SetLevel, Call, CallerPcs, TypeOK, CallersOK
  <2>2. logger'.live = logger.live /\ logger'.pattern = logger.pattern
    BY <1>9 DEF SetLevel, TypeOK, FlagsOK
  <2> QED
    BY <1>9, <2>1, <2>2 DEF CallerFrame, SetLevel, queueVars, Printed
<1> QED
  BY <1>1, <1>2, <1>3, <1>4, <1>5, <1>6, <1>7, <1>8, <1>9
     DEF UseLogger, Enqueue, SetLogPattern

LEMMA ConsumerStep ==
  ASSUME TypeOK, NEW c \in Consumers, Consume(c)
  PROVE  ConsumerFrame(c)
<1>1. ASSUME PollLogQueue(c) PROVE ConsumerFrame(c)
  BY <1>1
     DEF ConsumerFrame, Working, PollLogQueue, Step, queueVars, drainFrame,
         sinkVars
<1>2. ASSUME FlushEntry(c) PROVE ConsumerFrame(c)
  <2>1. \A d \in Consumers \ {c} : UNCHANGED <<cur[d], force[d]>>
    BY <1>2 DEF FlushEntry, TakeChunk, TakeLine, TypeOK, DrainOK
  <2>2. \E pc \in {"lines", "put"} : cpc' = [cpc EXCEPT ![c] = pc]
    BY <1>2 DEF FlushEntry, TakeChunk, TakeLine, Step
  <2> QED
    BY <1>2, <2>1, <2>2
       DEF ConsumerFrame, Working, FlushEntry, queueVars, drainFrame, sinkVars, Q!Pop
<1>3. ASSUME DrainAllDone(c) PROVE ConsumerFrame(c)
  <2>1. \A d \in Consumers \ {c} : UNCHANGED <<cur[d], force[d]>>
    BY <1>3 DEF DrainAllDone, TypeOK, DrainOK
  <2>2. \E pc \in {"lines", "ack"} : cpc' = [cpc EXCEPT ![c] = pc] /\ (pc = "ack" => c # Finisher)
    BY <1>3 DEF DrainAllDone, Step
  <2> QED
    BY <1>3, <2>1, <2>2
       DEF ConsumerFrame, Working, DrainAllDone, queueVars, drainFrame, sinkVars
<1>4. ASSUME FlushContRaw(c) PROVE ConsumerFrame(c)
  BY <1>4
     DEF ConsumerFrame, Working, FlushContRaw, Step, queueVars, drainFrame,
         TypeOK, FlagsOK
<1>5. ASSUME FlushContLog(c) PROVE ConsumerFrame(c)
  BY <1>5
     DEF ConsumerFrame, Working, FlushContLog, Step, queueVars, drainFrame
<1>6. ASSUME FlushContThrows(c) PROVE ConsumerFrame(c)
  <2>1. {logger.pattern, Raw} \in SUBSET (Patterns \union {Raw})
    BY DEF TypeOK, FlagsOK
  <2>2. logger'.live = logger.live
    BY <1>6, <2>1, PatternTyped DEF FlushContThrows, TypeOK
  <2> QED
    BY <1>6, <2>2 DEF ConsumerFrame, Working, FlushContThrows, Step, queueVars, drainFrame
<1>7. ASSUME ReadPatternStr(c) PROVE ConsumerFrame(c)
  BY <1>7
     DEF ConsumerFrame, Working, ReadPatternStr, Step, queueVars,
         drainFrame, sinkVars
<1>8. ASSUME RestorePattern(c) PROVE ConsumerFrame(c)
  BY <1>8
     DEF ConsumerFrame, Working, RestorePattern, Step, queueVars,
         drainFrame, TypeOK, FlagsOK
<1>9. ASSUME FlushContDone(c) PROVE ConsumerFrame(c)
  <2>1. \A d \in Consumers \ {c} : UNCHANGED <<cur[d], force[d]>>
    BY <1>9 DEF FlushContDone, TypeOK, DrainOK
  <2>2. \E pc \in {"put", "exit", "pop"} : cpc' = [cpc EXCEPT ![c] = pc]
    BY <1>9 DEF FlushContDone, Step
  <2> QED
    BY <1>9, <2>1, <2>2
       DEF ConsumerFrame, Working, FlushContDone, queueVars, drainFrame, sinkVars
<1>10. ASSUME LogEntry(c) PROVE ConsumerFrame(c)
  BY <1>10 DEF ConsumerFrame, Working, LogEntry, Step, queueVars, drainFrame
<1>11. ASSUME LogEntryThrows(c) PROVE ConsumerFrame(c)
  BY <1>11
     DEF ConsumerFrame, Working, LogEntryThrows, Step, queueVars,
         drainFrame, sinkVars
<1>12. ASSUME PollAck(c) PROVE ConsumerFrame(c)
  BY <1>12
     DEF ConsumerFrame, Working, PollAck, Step, queueVars, drainFrame,
         sinkVars
<1>13. ASSUME PollFlush(c) PROVE ConsumerFrame(c)
  BY <1>13 DEF ConsumerFrame, Working, PollFlush, Step, queueVars, drainFrame
<1>14. ASSUME PollTooEarly(c) PROVE ConsumerFrame(c)
  BY <1>14
     DEF ConsumerFrame, Working, PollTooEarly, Step, queueVars, drainFrame,
         sinkVars
<1>15. ASSUME RestoreThrows(c) PROVE ConsumerFrame(c)
  <2>1. {logger.pattern, copy[c]} \in SUBSET (Patterns \union {Raw})
    BY DEF TypeOK, FlagsOK, DrainOK
  <2>2. logger'.live = logger.live
    BY <1>15, <2>1, PatternTyped DEF RestoreThrows, TypeOK
  <2> QED
    BY <1>15, <2>2 DEF ConsumerFrame, Working, RestoreThrows, Step, queueVars, drainFrame
<1> QED
  BY <1>1, <1>2, <1>3, <1>4, <1>5, <1>6, <1>7, <1>8, <1>9, <1>10, <1>11,
     <1>12, <1>13, <1>14, <1>15
     DEF Consume, DrainAll, FlushContLines, Poll

-----------------------------------------------------------------------------
(* The stages of Initialize and Terminate.                                 *)
LEMMA CallerKeepsLife ==
  ASSUME TypeOK, LifeInv, NEW t \in App, CallerFrame(t)
  PROVE  LifeInv'
<1>1. PICK pc \in CallerPcs : apc' = [apc EXCEPT ![t] = pc]
  BY DEF CallerFrame
<1>2. \A u \in App : apc'[u] = IF u = t THEN pc ELSE apc[u]
  BY <1>1 DEF TypeOK, CallersOK
<1>3. \A s \in MainPcs : s \notin CallerPcs
  BY DEF MainPcs, CallerPcs
<1>4. \A u \in App, s \in MainPcs : apc'[u] = s <=> apc[u] = s
  BY <1>2, <1>3 DEF CallerFrame
<1> QED
  BY <1>4, Bounds
     DEF LifeInv, CallerFrame, flagVars, drainVars, mainVars, MainPcs

LEMMA ConsumerKeepsLife ==
  ASSUME TypeOK, LifeInv, NEW c \in Consumers, ConsumerFrame(c)
  PROVE  LifeInv'
<1>1. PICK pc \in Working \union {"poll", "ack", "flush", "exit"} :
        /\ cpc' = [cpc EXCEPT ![c] = pc]
        /\ pc \in {"poll", "ack", "flush"}
             => c # Finisher \/ cpc[c] \in {"poll", "ack", "flush"}
  BY DEF ConsumerFrame
<1>2. \A d \in Consumers : cpc'[d] = IF d = c THEN pc ELSE cpc[d]
  BY <1>1 DEF TypeOK, DrainOK
<1>3. \A d \in Consumers : cpc'[d] = "off" <=> cpc[d] = "off"
  BY <1>2 DEF ConsumerFrame, Working
<1>4. cpc'[Finisher] \notin {"poll", "ack", "flush"}
  BY <1>1, <1>2 DEF LifeInv
<1> QED
  BY <1>3, <1>4 DEF LifeInv, ConsumerFrame, flagVars, callerVars, mainVars

LEMMA LifecycleKeepsLife ==
  ASSUME TypeOK, LifeInv, Lifecycle
  PROVE  LifeInv'
<1>1. ASSUME Initialize PROVE LifeInv'
  BY <1>1, Bounds
     DEF LifeInv, Initialize, Goto, MainPcs, lifeFrame, mainVars, flagVars,
         sinkVars, TypeOK, CallersOK, DrainOK, FlagsOK
<1>2. ASSUME CreateThread PROVE LifeInv'
  BY <1>2, Bounds
     DEF LifeInv, CreateThread, Goto, MainPcs, lifeFrame, mainVars,
         flagVars, sinkVars, TypeOK, CallersOK, DrainOK, FlagsOK
<1>3. ASSUME Initialized PROVE LifeInv'
  BY <1>3, Bounds
     DEF LifeInv, Initialized, Goto, MainPcs, lifeFrame, mainVars,
         flagVars, sinkVars, TypeOK, CallersOK, DrainOK, FlagsOK
<1>4. ASSUME CreateThreadFails PROVE LifeInv'
  BY <1>4, Bounds
     DEF LifeInv, CreateThreadFails, Goto, MainPcs, lifeFrame, mainVars,
         flagVars, sinkVars, TypeOK, CallersOK, DrainOK, FlagsOK
<1>5. ASSUME Terminate PROVE LifeInv'
  BY <1>5, Bounds
     DEF LifeInv, Terminate, Goto, MainPcs, lifeFrame, mainVars, flagVars,
         sinkVars, TypeOK, CallersOK, DrainOK, FlagsOK
<1>6. ASSUME DeleteThread PROVE LifeInv'
  <2>1. session \in Drainers
    BY <1>6, Bounds DEF DeleteThread, LifeInv, TypeOK, CallersOK
  <2>2. \A d \in Consumers :
          cpc'[d] = IF d = Finisher THEN "pop" ELSE IF d = session THEN "off" ELSE cpc[d]
    BY <1>6, <2>1 DEF DeleteThread, TypeOK, DrainOK
  <2>3. \A d \in Drainers : cpc'[d] = "off"
    BY <2>1, <2>2 DEF LifeInv
  <2>4. /\ initialized' /\ logger'.live /\ apc'[Main] = "drain"
        /\ \A u \in App : apc'[u] \in MainPcs => u = Main
    BY <1>6, Bounds
       DEF DeleteThread, Goto, flagVars, sinkVars, LifeInv, MainPcs, TypeOK, CallersOK
  <2> QED
    BY <2>2, <2>3, <2>4 DEF LifeInv
<1>7. ASSUME Terminated PROVE LifeInv'
  BY <1>7, Bounds
     DEF LifeInv, Terminated, Goto, MainPcs, lifeFrame, mainVars, flagVars,
         sinkVars, TypeOK, CallersOK, DrainOK, FlagsOK
<1>8. ASSUME CloseLogger PROVE LifeInv'
  BY <1>8, Bounds
     DEF LifeInv, CloseLogger, Goto, MainPcs, lifeFrame, mainVars,
         flagVars, sinkVars, TypeOK, CallersOK, DrainOK, FlagsOK
<1> QED
  BY <1>1, <1>2, <1>3, <1>4, <1>5, <1>6, <1>7, <1>8
     DEF Lifecycle, Shutdown

(* The flags of Initialize and Terminate agree with the threads that run:  *)
(* there is one drain thread, of this session, and none after DeleteThread *)
(* has joined it, when Terminate drains the queue itself.                  *)
THEOREM LifeInvariant == Spec => []LifeInv
<1>1. Init => LifeInv
  BY Bounds DEF Init, LifeInv, MainPcs, NoLogger
<1>2. TypeOK /\ LifeInv /\ [Next]_vars => LifeInv'
  <2>1. ASSUME LifeInv, UNCHANGED vars PROVE LifeInv'
    BY <2>1
       DEF LifeInv, vars, flagVars, sinkVars, drainVars, callerVars, mainVars
  <2> QED
    BY <2>1, CallerStep, ConsumerStep, CallerKeepsLife, ConsumerKeepsLife,
       LifecycleKeepsLife
       DEF Next
<1> QED BY <1>1, <1>2, RtLogTypeCorrect, PTL DEF Spec

(* DrainAll never runs in two threads at the same time.                    *)
THEOREM OneConsumer == Spec => []SingleConsumer
<1>1. TypeOK /\ LifeInv => SingleConsumer
  BY Bounds DEF LifeInv, SingleConsumer, Working, TypeOK, CallersOK
<1> QED BY <1>1, RtLogTypeCorrect, LifeInvariant, PTL

-----------------------------------------------------------------------------
(* The state of each consumer.                                             *)
LEMMA Alone ==
  ASSUME TypeOK, LifeInv, NEW c \in Consumers, NEW d \in Consumers,
         cpc[c] # "off", cpc[d] # "off"
  PROVE  c = d
BY Bounds DEF LifeInv, TypeOK, CallersOK

LEMMA OthersOff ==
  ASSUME TypeOK, LifeInv, ConsumerInv, NEW c \in Consumers, ConsumerFrame(c),
         NEW d \in Consumers \ {c}
  PROVE  cpc[d] = "off" /\ cur[d] = 0 /\ ~force[d] /\ ConsumerAt(d)'
<1>1. cpc[d] = "off" /\ cpc'[d] = "off"
  BY Alone DEF ConsumerFrame, Working, TypeOK, DrainOK
<1>2. cur[d] = 0 /\ ~force[d]
  BY <1>1 DEF ConsumerInv, ConsumerAt, Flushing
<1>3. cur'[d] = 0 /\ ~force'[d]
  BY <1>2 DEF ConsumerFrame
<1> QED
  BY <1>1, <1>2, <1>3 DEF ConsumerAt, Flushing

LEMMA CallerKeepsConsumers ==
  ASSUME ConsumerInv, NEW t \in App, CallerFrame(t)
  PROVE  ConsumerInv'
BY DEF ConsumerInv, ConsumerAt, CallerFrame, drainVars

LEMMA StepKeepsConsumer ==
  ASSUME TypeOK, LifeInv, NEW c \in Consumers,
         ConsumerAt(c), Consume(c)
  PROVE  ConsumerAt(c)'
<1>1. ASSUME PollLogQueue(c) PROVE ConsumerAt(c)'
  <2>1. c # Finisher
    BY <1>1 DEF PollLogQueue, LifeInv
  <2> QED
    BY <1>1, <2>1
       DEF ConsumerAt, Flushing, PollLogQueue, Step, TypeOK, DrainOK,
           queueVars
<1>2. ASSUME FlushEntry(c) PROVE ConsumerAt(c)'
  <2> DEFINE place == Len(delivered')
  <2>1. place # 0 /\ contBuf \in Seq(Nat)
    BY <1>2 DEF FlushEntry, Q!Pop, TypeOK, QueueOK, DrainOK
  <2>2. cur[c] = 0 /\ ~force[c]
    BY <1>2 DEF FlushEntry, ConsumerAt, Flushing
  <2>3. CASE TakeChunk(c, place)
    BY <2>2, <2>3 DEF TakeChunk, Step, ConsumerAt, Flushing, TypeOK, DrainOK
  <2>4. CASE TakeLine(c, place)
    BY <2>1, <2>2, <2>4
       DEF TakeLine, Step, ConsumerAt, Flushing, TypeOK, DrainOK
  <2> QED
    BY <1>2, <2>3, <2>4 DEF FlushEntry
<1>3. ASSUME DrainAllDone(c) PROVE ConsumerAt(c)'
  BY <1>3
     DEF ConsumerAt, Flushing, DrainAllDone, Step, TypeOK, DrainOK,
         queueVars
<1>4. ASSUME FlushContRaw(c) PROVE ConsumerAt(c)'
  <2>1. contBuf # <<>> /\ UNCHANGED <<contBuf, cur, force, delivered>>
    BY <1>4 DEF FlushContRaw, LineReady, queueVars
  <2>2. cpc'[c] = "cont" /\ cpc[c] = "lines"
    BY <1>4 DEF FlushContRaw, Step, TypeOK, DrainOK
  <2> QED
    BY <2>1, <2>2 DEF ConsumerAt, Flushing
<1>5. ASSUME FlushContLog(c) PROVE ConsumerAt(c)'
  BY <1>5
     DEF ConsumerAt, Flushing, FlushContLog, Step, TypeOK, DrainOK,
         queueVars
<1>6. ASSUME FlushContThrows(c) PROVE ConsumerAt(c)'
  BY <1>6
     DEF ConsumerAt, Flushing, FlushContThrows, Step, TypeOK, DrainOK,
         queueVars
<1>7. ASSUME ReadPatternStr(c) PROVE ConsumerAt(c)'
  BY <1>7
     DEF ConsumerAt, Flushing, ReadPatternStr, Step, TypeOK, DrainOK,
         queueVars
<1>8. ASSUME RestorePattern(c) PROVE ConsumerAt(c)'
  BY <1>8
     DEF ConsumerAt, Flushing, RestorePattern, Step, TypeOK, DrainOK,
         queueVars
<1>9. ASSUME FlushContDone(c) PROVE ConsumerAt(c)'
  <2>1. /\ cpc[c] = "lines" /\ ~LineReady(c)
        /\ cpc'[c] = IF cur[c] # 0 THEN "put" ELSE IF force[c] THEN "exit" ELSE "pop"
        /\ ~force'[c]
        /\ UNCHANGED <<contBuf, cur, delivered>>
    BY <1>9 DEF FlushContDone, Step, queueVars, TypeOK, DrainOK
  <2>2. logger.live
    BY <2>1, Bounds DEF LifeInv, TypeOK, CallersOK
  <2>3. force[c] => contBuf = <<>>
    BY <2>1, <2>2 DEF LineReady
  <2> QED
    BY <2>1, <2>3 DEF ConsumerAt, Flushing
<1>10. ASSUME LogEntry(c) PROVE ConsumerAt(c)'
  BY <1>10
     DEF ConsumerAt, Flushing, LogEntry, Step, TypeOK, DrainOK, queueVars
<1>11. ASSUME LogEntryThrows(c) PROVE ConsumerAt(c)'
  BY <1>11
     DEF ConsumerAt, Flushing, LogEntryThrows, Step, TypeOK, DrainOK,
         queueVars
<1>12. ASSUME PollAck(c) PROVE ConsumerAt(c)'
  BY <1>12
     DEF ConsumerAt, Flushing, PollAck, Step, TypeOK, DrainOK, queueVars
<1>13. ASSUME PollFlush(c) PROVE ConsumerAt(c)'
  BY <1>13
     DEF ConsumerAt, Flushing, PollFlush, Step, TypeOK, DrainOK, queueVars
<1>14. ASSUME PollTooEarly(c) PROVE ConsumerAt(c)'
  BY <1>14
     DEF ConsumerAt, Flushing, PollTooEarly, Step, TypeOK, DrainOK,
         queueVars
<1>15. ASSUME RestoreThrows(c) PROVE ConsumerAt(c)'
  BY <1>15
     DEF ConsumerAt, Flushing, RestoreThrows, Step, TypeOK, DrainOK,
         queueVars
<1> QED
  BY <1>1, <1>2, <1>3, <1>4, <1>5, <1>6, <1>7, <1>8, <1>9, <1>10, <1>11,
     <1>12, <1>13, <1>14, <1>15
     DEF Consume, DrainAll, FlushContLines, Poll

LEMMA ConsumerKeepsConsumers ==
  ASSUME TypeOK, LifeInv, ConsumerInv, NEW c \in Consumers, Consume(c)
  PROVE  ConsumerInv'
<1>1. ConsumerAt(c)'
  BY StepKeepsConsumer DEF ConsumerInv
<1>2. ASSUME NEW d \in Consumers \ {c} PROVE ConsumerAt(d)'
  BY ConsumerStep, OthersOff
<1> QED
  BY <1>1, <1>2 DEF ConsumerInv

LEMMA LifecycleKeepsConsumers ==
  ASSUME TypeOK, LifeInv, ConsumerInv, Lifecycle
  PROVE  ConsumerInv'
<1>1. ASSUME Initialize PROVE ConsumerInv'
  <2>1. \A c \in Consumers : cpc[c] = "off"
    BY <1>1, Bounds DEF Initialize, LifeInv, TypeOK, CallersOK
  <2> QED
    BY <1>1, <2>1
       DEF Initialize, lifeFrame, queueVars, ConsumerInv, ConsumerAt,
           Flushing
<1>2. ASSUME CreateThread PROVE ConsumerInv'
  <2>1. \A c \in Consumers : cpc[c] = "off" /\ cpc'[c] \in {"off", "poll"}
    BY <1>2 DEF CreateThread, LifeInv, TypeOK, DrainOK
  <2>2. UNCHANGED <<contBuf, cur, force, delivered>>
    BY <1>2 DEF CreateThread, lifeFrame, queueVars
  <2> QED
    BY <2>1, <2>2 DEF ConsumerInv, ConsumerAt, Flushing
<1>3. ASSUME Initialized PROVE ConsumerInv'
  BY <1>3
     DEF ConsumerInv, ConsumerAt, Flushing, lifeFrame, queueVars, TypeOK,
         DrainOK, Initialized
<1>4. ASSUME CreateThreadFails PROVE ConsumerInv'
  BY <1>4
     DEF ConsumerInv, ConsumerAt, Flushing, lifeFrame, queueVars, TypeOK,
         DrainOK, CreateThreadFails
<1>5. ASSUME Terminate PROVE ConsumerInv'
  BY <1>5
     DEF ConsumerInv, ConsumerAt, Flushing, lifeFrame, queueVars, TypeOK,
         DrainOK, Terminate
<1>6. ASSUME DeleteThread PROVE ConsumerInv'
  <2>1. \A c \in Consumers : cur[c] = 0 /\ ~force[c]
    BY <1>6, Alone, Bounds
       DEF DeleteThread, LifeInv, ConsumerInv, ConsumerAt, Flushing,
           TypeOK, CallersOK
  <2>2. \A c \in Consumers : cpc'[c] = "pop" \/ (cpc'[c] = "off") \/ cpc'[c] = cpc[c]
    BY <1>6 DEF DeleteThread, TypeOK, DrainOK
  <2> QED
    BY <1>6, <2>1, <2>2
       DEF DeleteThread, lifeFrame, queueVars, ConsumerInv, ConsumerAt,
           Flushing
<1>7. ASSUME Terminated PROVE ConsumerInv'
  BY <1>7
     DEF ConsumerInv, ConsumerAt, Flushing, lifeFrame, queueVars, TypeOK,
         DrainOK, Terminated
<1>8. ASSUME CloseLogger PROVE ConsumerInv'
  BY <1>8
     DEF ConsumerInv, ConsumerAt, Flushing, lifeFrame, queueVars, TypeOK,
         DrainOK, CloseLogger
<1> QED
  BY <1>1, <1>2, <1>3, <1>4, <1>5, <1>6, <1>7, <1>8
     DEF Lifecycle, Shutdown

(* A consumer holds at most the entry it took last, and m_contBuf is empty *)
(* by the time a line goes to the sinks.                                   *)
THEOREM ConsumerInvariant == Spec => []ConsumerInv
<1>1. Init => ConsumerInv
  BY DEF Init, Q!Init, ConsumerInv, ConsumerAt
<1>2. TypeOK /\ LifeInv /\ ConsumerInv /\ [Next]_vars => ConsumerInv'
  <2>1. ASSUME ConsumerInv, UNCHANGED vars PROVE ConsumerInv'
    BY <2>1 DEF ConsumerInv, ConsumerAt, vars, queueVars, drainVars
  <2> QED
    BY <2>1, CallerStep, CallerKeepsConsumers, ConsumerKeepsConsumers,
       LifecycleKeepsConsumers
       DEF Next
<1> QED BY <1>1, <1>2, RtLogTypeCorrect, LifeInvariant, PTL DEF Spec

-----------------------------------------------------------------------------
(* The order of what is printed.  Only five steps of a consumer move an    *)
(* entry: out of the queue, out of the buffer of chunks, or to the sinks.  *)
DataFrame == UNCHANGED <<delivered, contBuf, cur, skipped, failed, Printed>>

Moves(c) ==
  \/ FlushEntry(c) \/ FlushContLog(c) \/ FlushContThrows(c)
  \/ LogEntry(c) \/ LogEntryThrows(c)

LEMMA QuietStep ==
  ASSUME TypeOK, NEW c \in Consumers, Consume(c)
  PROVE  Moves(c) \/ DataFrame
<1>1. ASSUME PollLogQueue(c) PROVE DataFrame
  BY <1>1 DEF PollLogQueue, DataFrame, Printed, queueVars, sinkVars
<1>2. ASSUME DrainAllDone(c) PROVE DataFrame
  BY <1>2 DEF DrainAllDone, DataFrame, Printed, queueVars, sinkVars
<1>3. ASSUME FlushContRaw(c) PROVE DataFrame
  BY <1>3 DEF FlushContRaw, DataFrame, Printed, queueVars
<1>4. ASSUME ReadPatternStr(c) PROVE DataFrame
  BY <1>4 DEF ReadPatternStr, DataFrame, Printed, queueVars, sinkVars
<1>5. ASSUME RestorePattern(c) PROVE DataFrame
  BY <1>5 DEF RestorePattern, DataFrame, Printed, queueVars
<1>6. ASSUME FlushContDone(c) PROVE DataFrame
  BY <1>6 DEF FlushContDone, DataFrame, Printed, queueVars, sinkVars
<1>7. ASSUME PollAck(c) PROVE DataFrame
  BY <1>7 DEF PollAck, DataFrame, Printed, queueVars, sinkVars
<1>8. ASSUME PollFlush(c) PROVE DataFrame
  <2>1. UNCHANGED Printed
    BY <1>8, FlushKeepsPrinted DEF PollFlush, TypeOK, DrainOK
  <2> QED
    BY <1>8, <2>1 DEF PollFlush, DataFrame, queueVars
<1>9. ASSUME PollTooEarly(c) PROVE DataFrame
  BY <1>9 DEF PollTooEarly, DataFrame, Printed, queueVars, sinkVars
<1>10. ASSUME RestoreThrows(c) PROVE DataFrame
  BY <1>10 DEF RestoreThrows, DataFrame, Printed, queueVars
<1> QED
  BY <1>1, <1>2, <1>3, <1>4, <1>5, <1>6, <1>7, <1>8, <1>9, <1>10
     DEF Consume, DrainAll, FlushContLines, Poll, Moves

LEMMA LifecycleFrame ==
  ASSUME TypeOK, Lifecycle
  PROVE  /\ UNCHANGED <<delivered, cur, failed, overcounted, Printed>>
         /\ Initialize \/ UNCHANGED <<contBuf, skipped>>
<1> DEFINE Quiet == /\ UNCHANGED <<delivered, cur, failed, overcounted, Printed>>
                    /\ Initialize \/ UNCHANGED <<contBuf, skipped>>
<1>1. ASSUME Initialize
     PROVE  Quiet
  <2>1. UNCHANGED Printed
    BY <1>1, FlushKeepsPrinted DEF Initialize, TypeOK, DrainOK
  <2> QED
    BY <1>1, <2>1 DEF Initialize, lifeFrame, queueVars
<1>2. ASSUME CreateThread
     PROVE  Quiet
  BY <1>2 DEF CreateThread, Printed, lifeFrame, queueVars, sinkVars
<1>3. ASSUME Initialized
     PROVE  Quiet
  BY <1>3 DEF Initialized, Printed, lifeFrame, queueVars, sinkVars
<1>4. ASSUME CreateThreadFails
     PROVE  Quiet
  BY <1>4 DEF CreateThreadFails, Printed, lifeFrame, queueVars, sinkVars
<1>5. ASSUME Terminate
     PROVE  Quiet
  BY <1>5 DEF Terminate, Printed, lifeFrame, queueVars, sinkVars
<1>6. ASSUME DeleteThread
     PROVE  Quiet
  BY <1>6 DEF DeleteThread, Printed, lifeFrame, queueVars, sinkVars
<1>7. ASSUME Terminated
     PROVE  Quiet
  BY <1>7 DEF Terminated, Printed, lifeFrame, queueVars, sinkVars
<1>8. ASSUME CloseLogger
     PROVE  Quiet
  <2>1. UNCHANGED Printed
    BY <1>8, FlushKeepsPrinted DEF CloseLogger, TypeOK, DrainOK
  <2> QED
    BY <1>8, <2>1 DEF CloseLogger, lifeFrame, queueVars
<1> QED
  BY <1>1, <1>2, <1>3, <1>4, <1>5, <1>6, <1>7, <1>8 DEF Lifecycle, Shutdown

(* The one entry in hand.                                                  *)
LEMMA InHand ==
  ASSUME TypeOK, LifeInv, ConsumerInv, NEW c \in Consumers, Consume(c)
  PROVE  /\ HeldPlaces = {cur[c]} \ {0}
         /\ HeldPlaces' = {cur'[c]} \ {0}
<1>1. \A d \in Consumers \ {c} : cur[d] = 0 /\ cur'[d] = 0
  BY ConsumerStep, OthersOff DEF ConsumerFrame
<1> QED
  BY <1>1 DEF HeldPlaces

LEMMA PrintedIsLines ==
  ASSUME TypeOK
  PROVE  Printed \in Seq(Lines) /\ Len(Printed) = Len(out) + Len(sink)
BY DEF TypeOK, DrainOK, Printed

(* Lines added to the buffers of the sinks are the last ones printed.      *)
LEMMA PrintMore ==
  ASSUME TypeOK, NEW s \in Seq(Lines), sink' = sink \o s, out' = out
  PROVE  /\ Len(Printed') = Len(Printed) + Len(s)
         /\ \A i \in 1..Len(Printed) : Printed'[i] = Printed[i]
         /\ \A i \in 1..Len(Printed') :
              i > Len(Printed) => /\ i - Len(Printed) \in 1..Len(s)
                                  /\ Printed'[i] = s[i - Len(Printed)]
<1>1. sink \in Seq(Lines) /\ out \in Seq(Lines)
  BY DEF TypeOK, DrainOK
<1>2. Printed' = out \o (sink \o s)
  BY DEF Printed
<1> QED
  BY <1>1, <1>2 DEF Printed

LEMMA OrderFrame ==
  ASSUME OrderInv, UNCHANGED <<delivered, contBuf, cur, Printed>>
  PROVE  OrderInv'
BY DEF OrderInv, OutputOrder, ContPlaces, HeldPlaces, Places

LEMMA FlushEntryKeepsOrder ==
  ASSUME TypeOK, LifeInv, ConsumerInv, OrderInv,
         NEW c \in Consumers, FlushEntry(c)
  PROVE  OrderInv'
<1> DEFINE place == Len(delivered')
<1>1. place = Len(delivered) + 1 /\ place \in Nat /\ Len(delivered) \in Nat
  BY DEF FlushEntry, Q!Pop, TypeOK, QueueOK
<1>2. cur[c] = 0
  BY DEF FlushEntry, ConsumerInv, ConsumerAt, Flushing
<1>3. HeldPlaces = {} /\ HeldPlaces' = {cur'[c]} \ {0}
  BY <1>2, InHand DEF Consume, DrainAll
<1>4. UNCHANGED Printed /\ Printed \in Seq(Lines)
  BY PrintedIsLines DEF FlushEntry, sinkVars, Printed
<1>5. Places' = 1..place /\ \A p \in Places : p < place
  BY <1>1 DEF Places
<1>6. CASE TakeChunk(c, place)
  <2>1. HeldPlaces' = {}
    BY <1>2, <1>3, <1>6 DEF TakeChunk
  <2>2. contBuf \in Seq(Nat) /\ contBuf' \in {contBuf, Append(contBuf, place)}
    BY <1>6 DEF TakeChunk, TypeOK, DrainOK
  <2>3. ContPlaces' \subseteq ContPlaces \union {place}
    BY <1>1, <2>2 DEF ContPlaces
  <2>4. \A i, j \in 1..Len(contBuf') : i < j => contBuf'[i] < contBuf'[j]
    <3>1. \A i \in 1..Len(contBuf) : contBuf[i] \in ContPlaces
      BY DEF ContPlaces
    <3>2. \A i \in 1..Len(contBuf) : contBuf[i] < place
      BY <3>1, <1>5 DEF OrderInv
    <3>3. \A i, j \in 1..Len(contBuf) : i < j => contBuf[i] < contBuf[j]
      BY DEF OrderInv, OutputOrder
    <3>4. CASE contBuf' = Append(contBuf, place)
      <4>1. /\ Len(contBuf) \in Nat /\ Len(contBuf') = Len(contBuf) + 1
            /\ \A i \in 1..Len(contBuf) : contBuf'[i] = contBuf[i]
            /\ contBuf'[Len(contBuf) + 1] = place
        BY <1>1, <2>2, <3>4
      <4> QED
        BY <3>2, <3>3, <4>1
    <3> QED
      BY <2>2, <3>3, <3>4
  <2>5. \A i \in 1..Len(Printed) : Printed[i].at \in Places /\ Printed[i].at < place
    BY <1>5 DEF OrderInv
  <2>6. OutputOrder'
    BY <1>4, <2>1, <2>3, <2>4, <2>5 DEF OrderInv, OutputOrder
  <2> QED
    BY <1>1, <1>4, <1>5, <2>3, <2>5, <2>6 DEF OrderInv, Places
<1>7. CASE TakeLine(c, place)
  <2>1. HeldPlaces' = {place} /\ UNCHANGED contBuf
    BY <1>1, <1>3, <1>7 DEF TakeLine, TypeOK, DrainOK
  <2>2. UNCHANGED ContPlaces
    BY <2>1 DEF ContPlaces
  <2>3. OutputOrder'
    BY <1>4, <1>5, <2>1, <2>2 DEF OrderInv, OutputOrder
  <2> QED
    BY <1>1, <1>4, <1>5, <2>2, <2>3 DEF OrderInv, Places
<1> QED
  BY <1>6, <1>7 DEF FlushEntry

LEMMA FlushContLogKeepsOrder ==
  ASSUME TypeOK, LifeInv, ConsumerInv, OrderInv,
         NEW c \in Consumers, FlushContLog(c)
  PROVE  OrderInv'
<1> DEFINE s == Formatted(contBuf, logger.pattern)
<1>1. contBuf \in Seq(Nat) /\ s \in Seq(Lines) /\ Len(s) = Len(contBuf)
  BY FormattedIsLines DEF TypeOK, DrainOK, FlagsOK
<1>2. \A i \in 1..Len(s) : s[i].at = contBuf[i] /\ contBuf[i] \in ContPlaces
  BY <1>1 DEF Formatted, ContPlaces
<1>3. contBuf' = <<>> /\ UNCHANGED <<delivered, cur>> /\ sink' = sink \o s /\ out' = out
  BY DEF FlushContLog, queueVars
<1> HIDE DEF s
<1>4. /\ Len(Printed') = Len(Printed) + Len(s)
      /\ \A i \in 1..Len(Printed) : Printed'[i] = Printed[i]
      /\ \A i \in 1..Len(Printed') :
           i > Len(Printed) => /\ i - Len(Printed) \in 1..Len(s)
                               /\ Printed'[i] = s[i - Len(Printed)]
  BY <1>1, <1>3, PrintMore
<1>5. Len(Printed) \in Nat /\ Len(s) \in Nat
  BY <1>1, PrintedIsLines
<1>6. ContPlaces' = {} /\ UNCHANGED <<HeldPlaces, Places>>
  BY <1>3 DEF ContPlaces, HeldPlaces, Places
<1>7. \A i \in 1..Len(Printed') :
        \/ i \in 1..Len(Printed) /\ Printed'[i].at = Printed[i].at
        \/ /\ i > Len(Printed) /\ i - Len(Printed) \in 1..Len(contBuf)
           /\ Printed'[i].at = contBuf[i - Len(Printed)]
           /\ Printed'[i].at \in ContPlaces
  <2> SUFFICES ASSUME NEW i \in 1..Len(Printed')
               PROVE  \/ i \in 1..Len(Printed) /\ Printed'[i].at = Printed[i].at
                      \/ /\ i > Len(Printed) /\ i - Len(Printed) \in 1..Len(contBuf)
                         /\ Printed'[i].at = contBuf[i - Len(Printed)]
                         /\ Printed'[i].at \in ContPlaces
    OBVIOUS
  <2>1. i \in 1..Len(Printed) \/ i > Len(Printed)
    BY <1>4, <1>5
  <2> QED
    BY <1>1, <1>2, <1>4, <2>1
<1>8. ASSUME NEW i \in 1..Len(Printed'), NEW j \in 1..Len(Printed'), i < j
      PROVE  Printed'[i].at < Printed'[j].at
  <2>1. CASE j \in 1..Len(Printed)
    BY <1>5, <1>7, <1>8, <2>1 DEF OrderInv, OutputOrder
  <2>2. CASE i \in 1..Len(Printed) /\ j > Len(Printed)
    BY <1>5, <1>7, <2>2 DEF OrderInv, OutputOrder
  <2>3. CASE i > Len(Printed) /\ j > Len(Printed)
    <3>1. i - Len(Printed) < j - Len(Printed)
      BY <1>5, <1>8
    <3>2. /\ i - Len(Printed) \in 1..Len(contBuf)
          /\ Printed'[i].at = contBuf[i - Len(Printed)]
      <4>1. ~(i \in 1..Len(Printed))
        BY <1>5, <2>3
      <4> QED
        BY <1>7, <4>1, Zenon
    <3>3. /\ j - Len(Printed) \in 1..Len(contBuf)
          /\ Printed'[j].at = contBuf[j - Len(Printed)]
      <4>1. ~(j \in 1..Len(Printed))
        BY <1>5, <2>3
      <4> QED
        BY <1>7, <4>1, Zenon
    <3>4. \A k, l \in 1..Len(contBuf) : k < l => contBuf[k] < contBuf[l]
      BY DEF OrderInv, OutputOrder
    <3> QED
      BY <3>1, <3>2, <3>3, <3>4
  <2>4. i \in Int /\ j \in Int
    BY <1>4, <1>5
  <2> QED
    BY <1>5, <1>7, <2>1, <2>2, <2>3, <2>4
<1>9. \A i \in 1..Len(Printed'), p \in HeldPlaces : Printed'[i].at < p
  BY <1>7 DEF OrderInv, OutputOrder
<1>10. OutputOrder'
  BY <1>3, <1>6, <1>8, <1>9 DEF OutputOrder
<1> QED
  BY <1>6, <1>7, <1>10 DEF OrderInv

LEMMA LogEntryKeepsOrder ==
  ASSUME TypeOK, LifeInv, ConsumerInv, OrderInv,
         NEW c \in Consumers, LogEntry(c)
  PROVE  OrderInv'
<1>1. /\ cpc[c] = "put" /\ cur'[c] = 0
      /\ UNCHANGED <<delivered, contBuf, out>>
  BY DEF LogEntry, queueVars, TypeOK, DrainOK
<1>2. contBuf = <<>> /\ cur[c] = Len(delivered) /\ cur[c] # 0 /\ cur[c] \in Nat
  BY <1>1 DEF ConsumerInv, ConsumerAt, TypeOK, DrainOK
<1>3. HeldPlaces = {cur[c]} /\ HeldPlaces' = {}
  BY <1>1, <1>2, InHand DEF Consume, DrainAll
<1>4. cur[c] \in Places /\ UNCHANGED Places
  BY <1>1, <1>2 DEF Places
<1>5. ContPlaces' = {}
  BY <1>1, <1>2 DEF ContPlaces
<1>6. CASE sink' = sink
  <2>1. UNCHANGED Printed
    BY <1>1, <1>6 DEF Printed
  <2> QED
    BY <1>1, <1>2, <1>3, <1>4, <1>5, <2>1 DEF OrderInv, OutputOrder
<1>7. CASE sink' = sink \o Formatted(<<cur[c]>>, logger.pattern)
  <2> DEFINE s == Formatted(<<cur[c]>>, logger.pattern)
  <2>0. <<cur[c]>> \in Seq(Nat) /\ Len(<<cur[c]>>) = 1
    BY <1>2
  <2>1. s \in Seq(Lines) /\ Len(s) = 1
    BY <2>0, FormattedIsLines DEF TypeOK, FlagsOK
  <2>2. s[1].at = cur[c]
    BY <1>2 DEF Formatted
  <2> HIDE DEF s
  <2>3. /\ Len(Printed') = Len(Printed) + Len(s)
        /\ \A i \in 1..Len(Printed) : Printed'[i] = Printed[i]
        /\ \A i \in 1..Len(Printed') :
             i > Len(Printed) => /\ i - Len(Printed) \in 1..Len(s)
                                 /\ Printed'[i] = s[i - Len(Printed)]
    BY <1>1, <1>7, <2>1, PrintMore DEF s
  <2>4. Len(Printed) \in Nat
    BY PrintedIsLines
  <2>5. \A i \in 1..Len(Printed') :
          \/ i \in 1..Len(Printed) /\ Printed'[i].at = Printed[i].at
          \/ i = Len(Printed) + 1 /\ Printed'[i].at = cur[c]
    BY <2>1, <2>2, <2>3, <2>4
  <2>6. \A i, j \in 1..Len(Printed') : i < j => Printed'[i].at < Printed'[j].at
    BY <1>3, <2>4, <2>5 DEF OrderInv, OutputOrder
  <2>7. OutputOrder'
    BY <1>1, <1>2, <1>3, <1>5, <2>6 DEF OutputOrder
  <2> QED
    BY <1>4, <1>5, <2>5, <2>7 DEF OrderInv
<1> QED
  BY <1>6, <1>7 DEF LogEntry

LEMMA ThrowKeepsOrder ==
  ASSUME TypeOK, LifeInv, ConsumerInv, OrderInv, NEW c \in Consumers,
         FlushContThrows(c) \/ LogEntryThrows(c)
  PROVE  OrderInv'
<1>1. UNCHANGED <<delivered, sink, out>>
  BY DEF FlushContThrows, LogEntryThrows, queueVars, sinkVars
<1>2. contBuf' \in {contBuf, <<>>}
  BY DEF FlushContThrows, LogEntryThrows
<1>3. cur'[c] \in {cur[c], 0}
  BY DEF FlushContThrows, LogEntryThrows, TypeOK, DrainOK
<1>4. ContPlaces' \subseteq ContPlaces
  BY <1>2 DEF ContPlaces
<1>5. HeldPlaces' \subseteq HeldPlaces
  BY <1>3, InHand DEF Consume, DrainAll, FlushContLines
<1>6. UNCHANGED <<Printed, Places>>
  BY <1>1 DEF Printed, Places
<1>7. \A i, j \in 1..Len(contBuf') : i < j => contBuf'[i] < contBuf'[j]
  BY <1>2 DEF OrderInv, OutputOrder
<1>8. OutputOrder'
  BY <1>4, <1>5, <1>6, <1>7 DEF OrderInv, OutputOrder
<1> QED
  BY <1>4, <1>6, <1>8 DEF OrderInv

LEMMA InitializeKeepsOrder ==
  ASSUME TypeOK, OrderInv, Initialize
  PROVE  OrderInv'
<1>1. UNCHANGED <<delivered, cur, Printed>> /\ contBuf' = <<>>
  BY LifecycleFrame DEF Lifecycle, Initialize
<1>2. ContPlaces' = {} /\ UNCHANGED <<HeldPlaces, Places>>
  BY <1>1 DEF ContPlaces, HeldPlaces, Places
<1>3. OutputOrder'
  BY <1>1, <1>2 DEF OrderInv, OutputOrder
<1> QED
  BY <1>1, <1>2, <1>3 DEF OrderInv

(* What was printed comes before what waits in m_contBuf, and that before  *)
(* the entry a consumer holds.                                             *)
THEOREM OrderInvariant == Spec => []OrderInv
<1>1. Init => OrderInv
  BY DEF Init, Q!Init, OrderInv, OutputOrder, Printed, ContPlaces
<1>2. TypeOK /\ LifeInv /\ ConsumerInv /\ OrderInv /\ [Next]_vars => OrderInv'
  <2> SUFFICES ASSUME TypeOK, LifeInv, ConsumerInv, OrderInv, [Next]_vars
               PROVE  OrderInv'
    OBVIOUS
  <2>1. CASE UNCHANGED vars
    BY <2>1, OrderFrame DEF vars, queueVars, drainVars, sinkVars, Printed
  <2>2. ASSUME NEW t \in App, UseLogger(t) PROVE OrderInv'
    BY <2>2, CallerStep, OrderFrame DEF CallerFrame, drainVars
  <2>3. ASSUME NEW c \in Consumers, Consume(c) PROVE OrderInv'
    BY <2>3, QuietStep, OrderFrame, FlushEntryKeepsOrder,
       FlushContLogKeepsOrder,
       LogEntryKeepsOrder, ThrowKeepsOrder
       DEF DataFrame, Moves
  <2>4. ASSUME Lifecycle PROVE OrderInv'
    BY <2>4, LifecycleFrame, OrderFrame, InitializeKeepsOrder
  <2> QED
    BY <2>1, <2>2, <2>3, <2>4 DEF Next
<1> QED BY <1>1, <1>2, RtLogTypeCorrect, LifeInvariant, ConsumerInvariant, PTL DEF Spec

(* Whatever the calls of the application threads, and over any number of   *)
(* sessions, the sinks get the entries in the order the queue took them.   *)
THEOREM OrderKept == Spec => []OutputOrder
<1>1. OrderInv => OutputOrder
  BY DEF OrderInv
<1> QED BY <1>1, OrderInvariant, PTL

-----------------------------------------------------------------------------
(* Where the entries taken out of the queue are.                           *)
LEMMA PlacesFrame ==
  ASSUME PlacesInv, UNCHANGED <<delivered, contBuf, cur, skipped, failed, Printed>>
  PROVE  PlacesInv'
<1>1. UNCHANGED <<PrintedPlaces, ContPlaces, HeldPlaces, LostPlaces, Places>>
  BY DEF PrintedPlaces, ContPlaces, HeldPlaces, LostPlaces, Places
<1> QED
  BY <1>1 DEF PlacesInv, PlacesAccounted

LEMMA PrintedPlacesMore ==
  ASSUME TypeOK, NEW s \in Seq(Lines), sink' = sink \o s, out' = out
  PROVE  PrintedPlaces' = PrintedPlaces \union {s[i].at : i \in 1..Len(s)}
<1>1. Len(Printed) \in Nat /\ Len(s) \in Nat
  BY PrintedIsLines
<1>2. /\ Len(Printed') = Len(Printed) + Len(s)
      /\ \A i \in 1..Len(Printed) : Printed'[i] = Printed[i]
      /\ \A i \in 1..Len(Printed') :
           i > Len(Printed) => /\ i - Len(Printed) \in 1..Len(s)
                               /\ Printed'[i] = s[i - Len(Printed)]
  BY PrintMore
<1>3. ASSUME NEW i \in 1..Len(Printed)
      PROVE  i \in 1..Len(Printed') /\ Printed'[i].at = Printed[i].at
  BY <1>1, <1>2
<1>4. ASSUME NEW i \in 1..Len(s)
      PROVE  /\ Len(Printed) + i \in 1..Len(Printed')
             /\ Printed'[Len(Printed) + i] = s[i]
  <2>1. Len(Printed) + i \in 1..Len(Printed') /\ Len(Printed) + i > Len(Printed)
    BY <1>1, <1>2
  <2>2. Len(Printed) + i - Len(Printed) = i
    BY <1>1
  <2> QED
    BY <1>2, <2>1, <2>2
<1>5. ASSUME NEW i \in 1..Len(Printed')
      PROVE  \/ i \in 1..Len(Printed) /\ Printed'[i].at = Printed[i].at
             \/ \E j \in 1..Len(s) : Printed'[i].at = s[j].at
  <2>1. i \in 1..Len(Printed) \/ i > Len(Printed)
    BY <1>1, <1>2
  <2> QED
    BY <1>2, <2>1
<1>6. PrintedPlaces' \subseteq PrintedPlaces \union {s[i].at : i \in 1..Len(s)}
  BY <1>5 DEF PrintedPlaces
<1>7. PrintedPlaces \subseteq PrintedPlaces'
  BY <1>3 DEF PrintedPlaces
<1>8. {s[i].at : i \in 1..Len(s)} \subseteq PrintedPlaces'
  <2>1. \A i \in 1..Len(s) : s[i].at = Printed'[Len(Printed) + i].at
    BY <1>4
  <2> QED
    BY <1>4, <2>1 DEF PrintedPlaces
<1> QED
  BY <1>6, <1>7, <1>8

LEMMA PrintedBeforeRest ==
  ASSUME OrderInv, TypeOK
  PROVE  PrintedPlaces \intersect (ContPlaces \union HeldPlaces) = {}
<1>1. ASSUME NEW i \in 1..Len(Printed) PROVE Printed[i].at \notin ContPlaces \union HeldPlaces
  <2> SUFFICES ASSUME NEW p \in ContPlaces \union HeldPlaces, Printed[i].at = p
               PROVE  FALSE
    OBVIOUS
  <2>1. Printed[i].at < p /\ Printed[i].at \in Places
    BY DEF OrderInv, OutputOrder
  <2> QED
    BY <2>1 DEF Places
<1> QED
  BY <1>1 DEF PrintedPlaces

LEMMA ChunksAreNotInHand ==
  ASSUME OrderInv PROVE ContPlaces \intersect HeldPlaces = {}
<1> SUFFICES ASSUME NEW p \in ContPlaces, p \in HeldPlaces PROVE FALSE
  OBVIOUS
<1>1. p < p /\ p \in Places
  BY DEF OrderInv, OutputOrder
<1> QED
  BY <1>1 DEF Places

LEMMA FlushEntryKeepsPlaces ==
  ASSUME TypeOK, LifeInv, ConsumerInv, PlacesInv, NEW c \in Consumers, FlushEntry(c)
  PROVE  PlacesInv'
<1> DEFINE place == Len(delivered')
<1>1. place = Len(delivered) + 1 /\ Len(delivered) \in Nat
  BY DEF FlushEntry, Q!Pop, TypeOK, QueueOK
<1>2. Places' = Places \union {place} /\ place \notin Places /\ place # 0
  BY <1>1 DEF Places
<1>3. cur[c] = 0
  BY DEF FlushEntry, ConsumerInv, ConsumerAt, Flushing
<1>4. HeldPlaces = {} /\ HeldPlaces' = {cur'[c]} \ {0}
  BY <1>3, InHand DEF Consume, DrainAll
<1>5. UNCHANGED <<failed, PrintedPlaces>>
  BY DEF FlushEntry, sinkVars, Printed, PrintedPlaces
<1>6. CASE TakeChunk(c, place)
  <2>1. HeldPlaces' = {}
    BY <1>3, <1>4, <1>6 DEF TakeChunk
  <2>2. CASE contBuf' = contBuf /\ skipped' = skipped \union {place}
    <3>1. ContPlaces' = ContPlaces /\ LostPlaces' = LostPlaces \union {place}
      BY <1>5, <2>2 DEF ContPlaces, LostPlaces
    <3> QED
      BY <1>2, <1>4, <1>5, <2>1, <3>1 DEF PlacesInv, PlacesAccounted
  <2>3. CASE contBuf' = Append(contBuf, place) /\ skipped' = skipped
    <3>1. contBuf \in Seq(Nat) /\ place \in Nat
      BY <1>1 DEF TypeOK, DrainOK
    <3>2. /\ Len(contBuf) \in Nat /\ Len(contBuf') = Len(contBuf) + 1
          /\ \A i \in 1..Len(contBuf) : contBuf'[i] = contBuf[i]
          /\ contBuf'[Len(contBuf) + 1] = place
      BY <2>3, <3>1
    <3>3. ContPlaces' = ContPlaces \union {place} /\ LostPlaces' = LostPlaces
      BY <1>5, <2>3, <3>2 DEF ContPlaces, LostPlaces
    <3> QED
      BY <1>2, <1>4, <1>5, <2>1, <3>3 DEF PlacesInv, PlacesAccounted
  <2> QED
    BY <1>6, <2>2, <2>3 DEF TakeChunk
<1>7. CASE TakeLine(c, place)
  <2>1. cur'[c] = place /\ UNCHANGED <<contBuf, skipped>>
    BY <1>7 DEF TakeLine, TypeOK, DrainOK
  <2>2. HeldPlaces' = {place} /\ UNCHANGED <<ContPlaces, LostPlaces>>
    BY <1>2, <1>4, <1>5, <2>1 DEF ContPlaces, LostPlaces
  <2> QED
    BY <1>2, <1>4, <1>5, <2>2 DEF PlacesInv, PlacesAccounted
<1> QED
  BY <1>6, <1>7 DEF FlushEntry

LEMMA FlushContLogKeepsPlaces ==
  ASSUME TypeOK, OrderInv, PlacesInv, NEW c \in Consumers, FlushContLog(c)
  PROVE  PlacesInv'
<1> DEFINE s == Formatted(contBuf, logger.pattern)
<1>1. s \in Seq(Lines) /\ Len(s) = Len(contBuf)
  BY FormattedIsLines DEF TypeOK, DrainOK, FlagsOK
<1>2. {s[i].at : i \in 1..Len(s)} = ContPlaces
  BY <1>1 DEF Formatted, ContPlaces
<1>3. /\ sink' = sink \o s /\ out' = out /\ contBuf' = <<>>
      /\ UNCHANGED <<delivered, cur, skipped, failed>>
  BY DEF FlushContLog, queueVars
<1> HIDE DEF s
<1>4. PrintedPlaces' = PrintedPlaces \union ContPlaces
  BY <1>1, <1>2, <1>3, PrintedPlacesMore
<1>5. ContPlaces' = {} /\ UNCHANGED <<HeldPlaces, LostPlaces, Places>>
  BY <1>3 DEF ContPlaces, HeldPlaces, LostPlaces, Places
<1> QED
  BY <1>3, <1>4, <1>5 DEF PlacesInv, PlacesAccounted

LEMMA LogEntryKeepsPlaces ==
  ASSUME TypeOK, LifeInv, ConsumerInv, OrderInv, PlacesInv,
         NEW c \in Consumers, LogEntry(c)
  PROVE  PlacesInv'
<1>1. /\ cpc[c] = "put" /\ cur'[c] = 0
      /\ UNCHANGED <<delivered, contBuf, out, failed>>
  BY DEF LogEntry, queueVars, TypeOK, DrainOK
<1>2. cur[c] # 0 /\ cur[c] \in Nat
  BY <1>1 DEF ConsumerInv, ConsumerAt, TypeOK, DrainOK
<1>3. HeldPlaces = {cur[c]} /\ HeldPlaces' = {}
  BY <1>1, <1>2, InHand DEF Consume, DrainAll
<1>4. UNCHANGED <<Places, ContPlaces>>
  BY <1>1 DEF Places, ContPlaces
<1>5. PrintedPlaces \intersect HeldPlaces = {}
  BY PrintedBeforeRest
<1>6. CASE sink' = sink /\ skipped' = skipped \union {cur[c]}
  <2>1. UNCHANGED PrintedPlaces /\ LostPlaces' = LostPlaces \union {cur[c]}
    BY <1>1, <1>6 DEF Printed, PrintedPlaces, LostPlaces
  <2>2. {} \notin failed'
    BY <1>1 DEF PlacesInv
  <2>3. LostPlaces' \intersect (ContPlaces' \union HeldPlaces') = {}
    <3>1. ContPlaces = {}
      BY <1>1 DEF ContPlaces, ConsumerInv, ConsumerAt
    <3> QED
      BY <1>3, <1>4, <3>1
  <2>4. PrintedPlaces' \intersect LostPlaces' = {}
    BY <1>3, <1>5, <2>1 DEF PlacesInv, PlacesAccounted
  <2>5. Places' = PrintedPlaces' \union ContPlaces' \union HeldPlaces' \union LostPlaces'
    BY <1>3, <1>4, <2>1 DEF PlacesInv, PlacesAccounted
  <2> QED
    BY <2>2, <2>3, <2>4, <2>5 DEF PlacesInv, PlacesAccounted
<1>7. CASE sink' = sink \o Formatted(<<cur[c]>>, logger.pattern) /\ skipped' = skipped
  <2> DEFINE s == Formatted(<<cur[c]>>, logger.pattern)
  <2>1. <<cur[c]>> \in Seq(Nat) /\ Len(<<cur[c]>>) = 1
    BY <1>2
  <2>2. s \in Seq(Lines) /\ Len(s) = 1
    BY <2>1, FormattedIsLines DEF TypeOK, FlagsOK
  <2>3. s[1].at = cur[c]
    BY <1>2 DEF Formatted
  <2> HIDE DEF s
  <2>4. {s[i].at : i \in 1..Len(s)} = {cur[c]}
    BY <2>2, <2>3
  <2>5. PrintedPlaces' = PrintedPlaces \union {cur[c]}
    BY <1>1, <1>7, <2>2, <2>4, PrintedPlacesMore DEF s
  <2>6. UNCHANGED LostPlaces
    BY <1>1, <1>7 DEF LostPlaces
  <2> QED
    BY <1>1, <1>3, <1>4, <2>5, <2>6 DEF PlacesInv, PlacesAccounted
<1> QED
  BY <1>6, <1>7 DEF LogEntry

(* An exception loses entries that no other exception has lost.            *)
LEMMA ThrowKeepsPlaces ==
  ASSUME TypeOK, LifeInv, ConsumerInv, OrderInv, PlacesInv, NEW c \in Consumers,
         FlushContThrows(c) \/ LogEntryThrows(c)
  PROVE  /\ PlacesInv'
         /\ \E lost : failed' = failed \union {lost} /\ lost \notin failed
<1>1. UNCHANGED <<delivered, skipped, sink, out>>
  BY DEF FlushContThrows, LogEntryThrows, queueVars, sinkVars
<1>2. UNCHANGED <<PrintedPlaces, Places>>
  BY <1>1 DEF Printed, PrintedPlaces, Places
<1>3. PICK lost :
        /\ lost # {} /\ lost \subseteq ContPlaces \union HeldPlaces
        /\ failed' = failed \union {lost}
        /\ ContPlaces' \union HeldPlaces' = (ContPlaces \union HeldPlaces) \ lost
        /\ ContPlaces' \union HeldPlaces' \union lost = ContPlaces \union HeldPlaces
  <2>1. CASE FlushContThrows(c)
    <3>1. /\ contBuf \in Seq(Nat) /\ contBuf # <<>> /\ contBuf' = <<>>
          /\ failed' = failed \union {ContPlaces} /\ cur' = cur
      BY <2>1
         DEF FlushContThrows, LineReady, ContPlaces, ConsumerInv, ConsumerAt,
             TypeOK, DrainOK
    <3>2. ContPlaces' = {} /\ HeldPlaces' = HeldPlaces
      BY <3>1 DEF ContPlaces, HeldPlaces
    <3>3. contBuf[1] \in ContPlaces
      BY <3>1 DEF ContPlaces
    <3>4. HeldPlaces = (ContPlaces \union HeldPlaces) \ ContPlaces
      BY ChunksAreNotInHand
    <3> QED
      BY <3>1, <3>2, <3>3, <3>4
  <2>2. CASE LogEntryThrows(c)
    <3>1. /\ cur[c] # 0 /\ cur'[c] = 0 /\ contBuf = <<>> /\ contBuf' = <<>>
          /\ failed' = failed \union {{cur[c]}}
      BY <2>2 DEF LogEntryThrows, ConsumerInv, ConsumerAt, TypeOK, DrainOK
    <3>2. HeldPlaces = {cur[c]} /\ HeldPlaces' = {}
      BY <2>2, <3>1, InHand DEF Consume, DrainAll
    <3>3. ContPlaces = {} /\ ContPlaces' = {}
      BY <3>1 DEF ContPlaces
    <3> QED
      BY <3>1, <3>2, <3>3
  <2> QED
    BY <2>1, <2>2
<1>4. LostPlaces' = LostPlaces \union lost
  BY <1>1, <1>3 DEF LostPlaces
<1>5. lost \notin failed
  BY <1>3 DEF PlacesInv, LostPlaces
<1>6. PrintedPlaces' \intersect LostPlaces' = {}
  BY <1>2, <1>3, <1>4, PrintedBeforeRest DEF PlacesInv, PlacesAccounted
<1>7. Places' = PrintedPlaces' \union ContPlaces' \union HeldPlaces' \union LostPlaces'
  BY <1>2, <1>3, <1>4 DEF PlacesInv, PlacesAccounted
<1>8. LostPlaces' \intersect (ContPlaces' \union HeldPlaces') = {}
  BY <1>3, <1>4 DEF PlacesInv
<1>9. {} \notin failed'
  BY <1>3 DEF PlacesInv
<1> QED
  BY <1>3, <1>5, <1>6, <1>7, <1>8, <1>9 DEF PlacesInv, PlacesAccounted

LEMMA InitializeKeepsPlaces ==
  ASSUME TypeOK, OrderInv, LifeInv, ConsumerInv, PlacesInv, Initialize
  PROVE  PlacesInv'
<1>1. UNCHANGED <<delivered, cur, failed, Printed>> /\ contBuf' = <<>>
  BY LifecycleFrame DEF Lifecycle, Initialize
<1>2. skipped' = skipped \union ContPlaces
  BY DEF Initialize, ContPlaces
<1>3. ContPlaces' = {} /\ LostPlaces' = LostPlaces \union ContPlaces
  BY <1>1, <1>2 DEF ContPlaces, LostPlaces
<1>4. UNCHANGED <<HeldPlaces, Places, PrintedPlaces>>
  BY <1>1 DEF HeldPlaces, Places, PrintedPlaces
<1>5. ContPlaces \intersect HeldPlaces = {}
  BY ChunksAreNotInHand
<1>6. {} \notin failed'
  BY <1>1 DEF PlacesInv
<1> QED
  BY <1>3, <1>4, <1>5, <1>6, PrintedBeforeRest DEF PlacesInv, PlacesAccounted

(* Each entry that left the queue is in exactly one place: printed, held,  *)
(* in m_contBuf, or lost.                                                  *)
THEOREM PlacesInvariant == Spec => []PlacesInv
<1>1. Init => PlacesInv
  BY DEF Init, Q!Init, PlacesInv, PlacesAccounted, Printed, PrintedPlaces,
     ContPlaces,
         HeldPlaces, LostPlaces, Places
<1>2. TypeOK /\ LifeInv /\ ConsumerInv /\ OrderInv /\ PlacesInv /\ [Next]_vars
        => PlacesInv'
  <2> SUFFICES ASSUME TypeOK, LifeInv, ConsumerInv, OrderInv, PlacesInv, [Next]_vars
               PROVE  PlacesInv'
    OBVIOUS
  <2>1. CASE UNCHANGED vars
    BY <2>1, PlacesFrame DEF vars, queueVars, drainVars, sinkVars, Printed
  <2>2. ASSUME NEW t \in App, UseLogger(t) PROVE PlacesInv'
    BY <2>2, CallerStep, PlacesFrame DEF CallerFrame, drainVars
  <2>3. ASSUME NEW c \in Consumers, Consume(c) PROVE PlacesInv'
    BY <2>3, QuietStep, PlacesFrame, FlushEntryKeepsPlaces,
       FlushContLogKeepsPlaces,
       LogEntryKeepsPlaces, ThrowKeepsPlaces
       DEF DataFrame, Moves
  <2>4. ASSUME Lifecycle PROVE PlacesInv'
    BY <2>4, LifecycleFrame, PlacesFrame, InitializeKeepsPlaces
  <2> QED
    BY <2>1, <2>2, <2>3, <2>4 DEF Next
<1> QED
  BY <1>1, <1>2, RtLogTypeCorrect, LifeInvariant, ConsumerInvariant,
     OrderInvariant, PTL
     DEF Spec

-----------------------------------------------------------------------------
(* What m_dropCount counts.                                                *)
CountFrame == UNCHANGED <<dropCount, refused, failed, overcounted>>

LEMMA OneMore ==
  ASSUME NEW S, IsFiniteSet(S), NEW x, x \notin S
  PROVE  /\ IsFiniteSet(S \union {x})
         /\ Cardinality(S \union {x}) = Cardinality(S) + 1
         /\ Cardinality(S) \in Nat
BY FS_AddElement, FS_CardinalityType

LEMMA CallerCounts ==
  ASSUME NEW t \in App, UseLogger(t)
  PROVE  EnqueueRefused(t) \/ CountFrame
<1>1. ASSUME NEW kind \in Kinds, LogRt(t, kind) PROVE CountFrame
  BY <1>1 DEF CountFrame, LogRt, drainVars, queueVars
<1>2. ASSUME EnqueueReserve(t) PROVE CountFrame
  BY <1>2 DEF CountFrame, EnqueueReserve, drainVars, Q!Reserve
<1>3. ASSUME EnqueuePublish(t) PROVE CountFrame
  BY <1>3 DEF CountFrame, EnqueuePublish, drainVars, Q!Publish
<1>4. ASSUME NEW p \in Patterns \union {Keep}, Sync(t, p) PROVE CountFrame
  BY <1>4 DEF CountFrame, Sync, drainVars, queueVars
<1>5. ASSUME SyncDone(t) PROVE CountFrame
  BY <1>5 DEF CountFrame, SyncDone, drainVars, queueVars
<1>6. ASSUME SetPatternStr(t) PROVE CountFrame
  BY <1>6 DEF CountFrame, SetPatternStr, drainVars, queueVars
<1>7. ASSUME InstallPattern(t) PROVE CountFrame
  BY <1>7 DEF CountFrame, InstallPattern, drainVars, queueVars
<1>8. ASSUME NEW l \in {0, 1}, SetLevel(t, l) PROVE CountFrame
  BY <1>8 DEF CountFrame, SetLevel, drainVars, queueVars
<1> QED
  BY <1>1, <1>2, <1>3, <1>4, <1>5, <1>6, <1>7, <1>8
     DEF UseLogger, Enqueue, SetLogPattern

LEMMA ConsumerCounts ==
  ASSUME NEW c \in Consumers, Consume(c)
  PROVE  FlushContThrows(c) \/ LogEntryThrows(c) \/ RestoreThrows(c) \/ CountFrame
<1>1. ASSUME PollLogQueue(c) PROVE CountFrame
  BY <1>1 DEF CountFrame, PollLogQueue, queueVars
<1>2. ASSUME FlushEntry(c) PROVE CountFrame
  BY <1>2 DEF CountFrame, FlushEntry, Q!Pop
<1>3. ASSUME DrainAllDone(c) PROVE CountFrame
  BY <1>3 DEF CountFrame, DrainAllDone, queueVars
<1>4. ASSUME FlushContRaw(c) PROVE CountFrame
  BY <1>4 DEF CountFrame, FlushContRaw, queueVars
<1>5. ASSUME FlushContLog(c) PROVE CountFrame
  BY <1>5 DEF CountFrame, FlushContLog, queueVars
<1>6. ASSUME ReadPatternStr(c) PROVE CountFrame
  BY <1>6 DEF CountFrame, ReadPatternStr, queueVars
<1>7. ASSUME RestorePattern(c) PROVE CountFrame
  BY <1>7 DEF CountFrame, RestorePattern, queueVars
<1>8. ASSUME FlushContDone(c) PROVE CountFrame
  BY <1>8 DEF CountFrame, FlushContDone, queueVars
<1>9. ASSUME LogEntry(c) PROVE CountFrame
  BY <1>9 DEF CountFrame, LogEntry, queueVars
<1>10. ASSUME PollAck(c) PROVE CountFrame
  BY <1>10 DEF CountFrame, PollAck, queueVars
<1>11. ASSUME PollFlush(c) PROVE CountFrame
  BY <1>11 DEF CountFrame, PollFlush, queueVars
<1>12. ASSUME PollTooEarly(c) PROVE CountFrame
  BY <1>12 DEF CountFrame, PollTooEarly, queueVars
<1> QED
  BY <1>1, <1>2, <1>3, <1>4, <1>5, <1>6, <1>7, <1>8, <1>9, <1>10, <1>11,
     <1>12
     DEF Consume, DrainAll, FlushContLines, Poll

(* Nothing that was printed is taken back.                                 *)
LEMMA ConsumerPrints ==
  ASSUME TypeOK, NEW c \in Consumers, Consume(c)
  PROVE  PrintedPlaces \subseteq PrintedPlaces'
<1>1. ASSUME UNCHANGED Printed PROVE PrintedPlaces' = PrintedPlaces
  BY <1>1 DEF PrintedPlaces
<1>2. ASSUME NEW s \in Seq(Lines), sink' = sink \o s, out' = out
      PROVE  PrintedPlaces \subseteq PrintedPlaces'
  BY <1>2, PrintedPlacesMore
<1>3. CASE FlushContLog(c)
  <2>1. Formatted(contBuf, logger.pattern) \in Seq(Lines)
    BY FormattedIsLines DEF TypeOK, DrainOK, FlagsOK
  <2> QED
    BY <1>2, <1>3, <2>1 DEF FlushContLog
<1>4. CASE LogEntry(c)
  <2>1. <<cur[c]>> \in Seq(Nat)
    BY DEF TypeOK, DrainOK
  <2>2. Formatted(<<cur[c]>>, logger.pattern) \in Seq(Lines)
    BY <2>1, FormattedIsLines DEF TypeOK, FlagsOK
  <2>3. sink' = sink => UNCHANGED Printed
    BY <1>4 DEF LogEntry, Printed
  <2> QED
    BY <1>1, <1>2, <1>4, <2>2, <2>3 DEF LogEntry
<1>5. CASE FlushEntry(c) \/ FlushContThrows(c) \/ LogEntryThrows(c)
  BY <1>1, <1>5 DEF FlushEntry, FlushContThrows, LogEntryThrows, sinkVars, Printed
<1> QED
  BY <1>1, <1>3, <1>4, <1>5, QuietStep DEF Moves, DataFrame

(* A line that is being printed is newer than all that were counted.       *)
LEMMA StepKeepsLine ==
  ASSUME TypeOK, LifeInv, ConsumerInv, OrderInv, CountInv, NEW c \in Consumers,
         Consume(c)
  PROVE  LineCountedOnce'
<1>1. \A d \in Consumers \ {c} : cpc'[d] = "off"
  <2>1. ConsumerFrame(c)
    BY ConsumerStep
  <2>2. \A d \in Consumers \ {c} : cpc[d] = "off"
    BY <2>1, OthersOff
  <2> QED
    BY <2>1, <2>2 DEF ConsumerFrame, TypeOK, DrainOK
<1>2. CASE cpc'[c] \notin {"read", "restore"}
  BY <1>1, <1>2 DEF LineCountedOnce
<1>3. CASE cpc'[c] \in {"read", "restore"}
  <2>1. FlushContLog(c) \/ ReadPatternStr(c)
    <3>1. ~FlushEntry(c)
      BY <1>3 DEF FlushEntry, TakeChunk, TakeLine, Step, TypeOK, DrainOK
    <3>2. ~PollLogQueue(c) /\ ~Poll(c) /\ ~DrainAllDone(c)
      BY <1>3 DEF PollLogQueue, Poll, PollAck, PollFlush, PollTooEarly, DrainAllDone, Step,
                  TypeOK, DrainOK
    <3>3. ~LogEntry(c) /\ ~LogEntryThrows(c)
      BY <1>3 DEF LogEntry, LogEntryThrows, Step, TypeOK, DrainOK
    <3>4. ~FlushContRaw(c) /\ ~FlushContThrows(c) /\ ~RestorePattern(c)
      BY <1>3 DEF FlushContRaw, FlushContThrows, RestorePattern, Step, TypeOK, DrainOK
    <3>5. ~RestoreThrows(c) /\ ~FlushContDone(c)
      BY <1>3 DEF RestoreThrows, FlushContDone, Step, TypeOK, DrainOK
    <3> QED
      BY <3>1, <3>2, <3>3, <3>4, <3>5 DEF Consume, DrainAll, FlushContLines
  <2>2. overcounted' = overcounted
    BY <2>1 DEF FlushContLog, ReadPatternStr
  <2>3. CASE ReadPatternStr(c)
    <3>1. UNCHANGED Printed /\ cpc[c] = "read"
      BY <2>3 DEF ReadPatternStr, sinkVars, Printed
    <3>2. Printed # <<>> /\ LastPrinted \notin overcounted
      BY <3>1 DEF CountInv, LineCountedOnce
    <3> QED
      BY <1>1, <2>2, <3>1, <3>2 DEF LineCountedOnce, LastPrinted
  <2>4. CASE FlushContLog(c)
    <3> DEFINE s == Formatted(contBuf, logger.pattern)
    <3>1. s \in Seq(Lines) /\ Len(s) = Len(contBuf) /\ Len(contBuf) \in Nat
      BY FormattedIsLines DEF TypeOK, DrainOK, FlagsOK
    <3>2. contBuf # <<>> /\ contBuf \in Seq(Nat)
      BY <2>4 DEF FlushContLog, ConsumerInv, ConsumerAt, TypeOK, DrainOK
    <3>3. Len(s) > 0 /\ s[Len(s)].at = contBuf[Len(contBuf)]
      BY <3>1, <3>2 DEF Formatted
    <3>4. sink' = sink \o s /\ out' = out
      BY <2>4 DEF FlushContLog
    <3> HIDE DEF s
    <3>5. Len(Printed') = Len(Printed) + Len(s) /\ Len(Printed) \in Nat
      BY <3>1, <3>4, PrintMore, PrintedIsLines
    <3>6. LastPrinted' = contBuf[Len(contBuf)] /\ Printed' # <<>>
      <4>1. Len(Printed') \in 1..Len(Printed') /\ Len(Printed') > Len(Printed)
        BY <3>1, <3>3, <3>5
      <4>2. Printed'[Len(Printed')] = s[Len(s)]
        <5>1. Len(Printed') - Len(Printed) = Len(s)
          BY <3>1, <3>2, <3>5
        <5>2. Printed'[Len(Printed')] = s[Len(Printed') - Len(Printed)]
          BY <3>1, <3>4, <4>1, PrintMore
        <5> QED
          BY <5>1, <5>2
      <4> QED
        BY <3>3, <4>1, <4>2 DEF LastPrinted
    <3>7. contBuf[Len(contBuf)] \in ContPlaces /\ contBuf[Len(contBuf)] \in Nat
      BY <3>2 DEF ContPlaces
    <3>8. contBuf[Len(contBuf)] \notin PrintedPlaces
      <4>1. \A i \in 1..Len(Printed) : Printed[i].at < contBuf[Len(contBuf)] /\ Printed[i].at \in Nat
        <5>1. Printed \in Seq(Lines)
          BY PrintedIsLines
        <5>2. \A i \in 1..Len(Printed) : Printed[i] \in Lines
          BY <5>1
        <5>3. \A i \in 1..Len(Printed) : Printed[i].at < contBuf[Len(contBuf)]
          BY <3>7 DEF OrderInv, OutputOrder
        <5> QED
          BY <5>2, <5>3 DEF Lines
      <4> QED
        BY <3>7, <4>1 DEF PrintedPlaces
    <3> QED
      BY <1>1, <2>2, <3>6, <3>8 DEF LineCountedOnce, CountInv, DropsCounted
  <2> QED
    BY <2>1, <2>3, <2>4
<1> QED
  BY <1>2, <1>3

LEMMA LifecycleKeepsLine ==
  ASSUME TypeOK, CountInv, Lifecycle
  PROVE  LineCountedOnce'
<1>1. UNCHANGED <<overcounted, Printed>>
  BY LifecycleFrame
<1>2. \A d \in Consumers : cpc'[d] \in {"read", "restore"} => cpc'[d] = cpc[d]
  BY DEF Lifecycle, Shutdown, Initialize, CreateThread, Initialized, CreateThreadFails,
         Terminate, DeleteThread, Terminated, CloseLogger, TypeOK, DrainOK
<1> QED
  BY <1>1, <1>2 DEF CountInv, LineCountedOnce, LastPrinted

LEMMA RefusedCounts ==
  ASSUME TypeOK, CountInv, NEW t \in App, EnqueueRefused(t)
  PROVE  CountInv'
<1>1. /\ arg[t] \notin refused /\ refused' = refused \union {arg[t]}
      /\ dropCount' = dropCount + 1 /\ UNCHANGED <<failed, overcounted, cpc, Printed>>
  BY DEF EnqueueRefused, Q!Refuse, Q!Fresh, drainVars, sinkVars, Printed
<1>2. /\ IsFiniteSet(refused')
      /\ Cardinality(refused') = Cardinality(refused) + 1
      /\ Cardinality(refused) \in Nat
  BY <1>1, OneMore DEF CountInv
<1>3. Cardinality(failed) \in Nat /\ Cardinality(overcounted) \in Nat
  BY FS_CardinalityType DEF CountInv
<1> QED
  BY <1>1, <1>2, <1>3 DEF CountInv, DropsCounted, LineCountedOnce, LastPrinted, PrintedPlaces

LEMMA ThrowCounts ==
  ASSUME TypeOK, LifeInv, ConsumerInv, OrderInv, PlacesInv, CountInv,
         NEW c \in Consumers, FlushContThrows(c) \/ LogEntryThrows(c)
  PROVE  CountInv'
<1>1. PICK lost : failed' = failed \union {lost} /\ lost \notin failed
  BY ThrowKeepsPlaces
<1>2. dropCount' = dropCount + 1 /\ UNCHANGED <<refused, overcounted>>
  BY DEF FlushContThrows, LogEntryThrows, Throws, queueVars
<1>3. /\ IsFiniteSet(failed')
      /\ Cardinality(failed') = Cardinality(failed) + 1
      /\ Cardinality(failed) \in Nat
  BY <1>1, OneMore DEF CountInv
<1>4. Cardinality(refused) \in Nat /\ Cardinality(overcounted) \in Nat
  BY FS_CardinalityType DEF CountInv
<1>5. PrintedPlaces \subseteq PrintedPlaces' /\ LineCountedOnce'
  BY ConsumerPrints, StepKeepsLine DEF Consume, DrainAll, FlushContLines
<1> QED
  BY <1>2, <1>3, <1>4, <1>5 DEF CountInv, DropsCounted

(* An exception after the line was printed counts a line that no other     *)
(* such exception has counted.                                             *)
LEMMA RestoreCounts ==
  ASSUME TypeOK, LifeInv, ConsumerInv, OrderInv, CountInv,
         NEW c \in Consumers, RestoreThrows(c)
  PROVE  CountInv'
<1>1. Printed # <<>> /\ LastPrinted \notin overcounted
  BY DEF RestoreThrows, CountInv, LineCountedOnce
<1>2. overcounted' = overcounted \union {LastPrinted} /\ dropCount' = dropCount + 1
  BY DEF RestoreThrows, Throws, LastPrinted, Printed
<1>3. UNCHANGED <<refused, failed, Printed>>
  BY DEF RestoreThrows, queueVars, Printed
<1>4. /\ IsFiniteSet(overcounted')
      /\ Cardinality(overcounted') = Cardinality(overcounted) + 1
      /\ Cardinality(overcounted) \in Nat
  BY <1>1, <1>2, OneMore DEF CountInv
<1>5. Cardinality(refused) \in Nat /\ Cardinality(failed) \in Nat
  BY FS_CardinalityType DEF CountInv
<1>6. LastPrinted \in PrintedPlaces /\ UNCHANGED PrintedPlaces
  <2>1. Len(Printed) \in 1..Len(Printed)
    BY <1>1, PrintedIsLines
  <2> QED
    BY <1>3, <2>1 DEF LastPrinted, PrintedPlaces
<1>7. LineCountedOnce'
  BY StepKeepsLine DEF Consume, DrainAll, FlushContLines
<1> QED
  BY <1>2, <1>3, <1>4, <1>5, <1>6, <1>7 DEF CountInv, DropsCounted

(* m_dropCount is the number of refusals and of exceptions, those that     *)
(* lost a line and those that came after it was printed.                   *)
THEOREM CountInvariant == Spec => []CountInv
<1>1. Init => CountInv
  BY FS_EmptySet DEF Init, Q!Init, CountInv, DropsCounted, LineCountedOnce
<1>2. TypeOK /\ LifeInv /\ ConsumerInv /\ OrderInv /\ PlacesInv /\ CountInv /\ [Next]_vars
        => CountInv'
  <2> SUFFICES ASSUME TypeOK, LifeInv, ConsumerInv, OrderInv, PlacesInv, CountInv,
                      [Next]_vars
               PROVE  CountInv'
    OBVIOUS
  <2>1. ASSUME CountFrame, LineCountedOnce', PrintedPlaces \subseteq PrintedPlaces' PROVE CountInv'
    BY <2>1 DEF CountFrame, CountInv, DropsCounted
  <2>2. ASSUME CountFrame, UNCHANGED <<cpc, Printed>> PROVE CountInv'
    <3>1. LineCountedOnce' /\ UNCHANGED PrintedPlaces
      BY <2>2 DEF CountFrame, CountInv, LineCountedOnce, LastPrinted, PrintedPlaces
    <3> QED
      BY <2>1, <2>2, <3>1
  <2>3. CASE UNCHANGED vars
    BY <2>2, <2>3 DEF CountFrame, vars, queueVars, drainVars, sinkVars, Printed
  <2>4. ASSUME NEW t \in App, UseLogger(t) PROVE CountInv'
    BY <2>2, <2>4, CallerCounts, CallerStep, RefusedCounts DEF CallerFrame, drainVars
  <2>5. ASSUME NEW c \in Consumers, Consume(c) PROVE CountInv'
    BY <2>1, <2>5, ConsumerCounts, ConsumerPrints, StepKeepsLine, ThrowCounts, RestoreCounts
  <2>6. ASSUME Lifecycle PROVE CountInv'
    <3>1. UNCHANGED PrintedPlaces /\ LineCountedOnce'
      BY <2>6, LifecycleFrame, LifecycleKeepsLine DEF PrintedPlaces
    <3>2. CountFrame
      BY <2>6
       DEF Lifecycle, Shutdown, Initialize, CreateThread, Initialized, CreateThreadFails,
           Terminate, DeleteThread, Terminated, CloseLogger, lifeFrame, queueVars, CountFrame
    <3> QED
      BY <2>1, <3>1, <3>2
  <2> QED
    BY <2>3, <2>4, <2>5, <2>6 DEF Next
<1> QED
  BY <1>1, <1>2, RtLogTypeCorrect, LifeInvariant, ConsumerInvariant,
     OrderInvariant,
     PlacesInvariant, PTL
     DEF Spec

(* Every entry taken out of the queue is printed, on its way or lost, and  *)
(* m_dropCount is the number of refused entries, of exceptions that lost a *)
(* line and of lines that were printed before set_pattern threw.           *)
THEOREM EntriesAccounted == Spec => []Accounted
<1>1. PlacesInv /\ CountInv => Accounted
  BY DEF PlacesInv, CountInv, Accounted
<1> QED BY <1>1, PlacesInvariant, CountInvariant, PTL

-----------------------------------------------------------------------------
(* What Terminate promises.                                                *)
LEMMA PublishedAheadGrows ==
  ASSUME visible \subseteq visible'
  PROVE  PublishedAhead \subseteq PublishedAhead'
BY DEF PublishedAhead

LEMMA TerminateFrame ==
  ASSUME TerminateInv, visible \subseteq visible', Places \subseteq Places',
         UNCHANGED <<promised, force, cur, cpc, contBuf>>,
         apc'[Main] \in {"join", "drain", "close"} => apc'[Main] = apc[Main],
         logger'.live = logger.live, sink' \in {sink, <<>>}
  PROVE  TerminateInv'
<1>1. PublishedAhead \subseteq PublishedAhead'
  BY PublishedAheadGrows
<1> QED
  BY <1>1 DEF TerminateInv

LEMMA CallerKeepsTerminate ==
  ASSUME TypeOK, TerminateInv, NEW t \in App, CallerFrame(t)
  PROVE  TerminateInv'
<1>1. PICK pc \in CallerPcs : apc' = [apc EXCEPT ![t] = pc]
  BY DEF CallerFrame
<1>2. apc'[Main] \in {"join", "drain", "close"} => apc'[Main] = apc[Main]
  BY <1>1, Bounds DEF CallerPcs, TypeOK, CallersOK
<1>3. Places \subseteq Places'
  BY DEF CallerFrame, Places
<1> QED
  BY <1>2, <1>3, TerminateFrame DEF CallerFrame, drainVars, mainVars

(* When TryPop finds nothing, the promised entries are out of the queue.   *)
LEMMA QueueDrained ==
  ASSUME TypeOK, Len(delivered) + 1 \notin visible
  PROVE  PublishedAhead \subseteq Places
<1> SUFFICES ASSUME NEW i \in PublishedAhead PROVE i \in Places
  OBVIOUS
<1>1. i \in visible /\ 1..i \subseteq visible
  BY DEF PublishedAhead
<1>2. i \in Nat /\ i >= 1 /\ Len(delivered) \in Nat
  BY <1>1 DEF TypeOK, QueueOK
<1>3. ~(i > Len(delivered))
  <2> SUFFICES ASSUME i > Len(delivered) PROVE FALSE
    OBVIOUS
  <2>1. Len(delivered) + 1 \in 1..i
    BY <1>2
  <2> QED
    BY <1>1, <2>1
<1> QED
  BY <1>2, <1>3 DEF Places

(* The last DrainAll has found the queue empty.                            *)
Drained == (force[Finisher] /\ cur[Finisher] = 0) \/ cpc[Finisher] = "exit"

LEMMA DrainedStep ==
  ASSUME TypeOK, LifeInv, ConsumerAt(Finisher), Consume(Finisher), Drained'
  PROVE  Drained \/ DrainAllDone(Finisher)
<1>1. ASSUME PollLogQueue(Finisher) PROVE Drained
  BY <1>1 DEF PollLogQueue, LifeInv
<1>2. ASSUME FlushEntry(Finisher) PROVE Drained
  <2> DEFINE place == Len(delivered')
  <2>1. place # 0 /\ cur[Finisher] = 0
    BY <1>2 DEF FlushEntry, Q!Pop, ConsumerAt, Flushing, TypeOK, QueueOK
  <2>2. CASE TakeChunk(Finisher, place)
    BY <2>2 DEF Drained, TakeChunk, Step, TypeOK, DrainOK
  <2>3. CASE TakeLine(Finisher, place)
    BY <1>2, <2>1, <2>3
       DEF Drained, FlushEntry, TakeLine, Step, ConsumerAt, Flushing,
           TypeOK, DrainOK
  <2> QED
    BY <1>2, <2>2, <2>3 DEF FlushEntry
<1>3. ASSUME FlushContRaw(Finisher) PROVE Drained
  BY <1>3
     DEF Drained, ConsumerAt, Flushing, FlushContRaw, Step, TypeOK, DrainOK
<1>4. ASSUME FlushContLog(Finisher) PROVE Drained
  BY <1>4
     DEF Drained, ConsumerAt, Flushing, FlushContLog, Step, TypeOK, DrainOK
<1>5. ASSUME FlushContThrows(Finisher) PROVE Drained
  BY <1>5
     DEF Drained, ConsumerAt, Flushing, FlushContThrows, Step, TypeOK,
         DrainOK
<1>6. ASSUME ReadPatternStr(Finisher) PROVE Drained
  BY <1>6
     DEF Drained, ConsumerAt, Flushing, ReadPatternStr, Step, TypeOK,
         DrainOK
<1>7. ASSUME RestorePattern(Finisher) PROVE Drained
  BY <1>7
     DEF Drained, ConsumerAt, Flushing, RestorePattern, Step, TypeOK,
         DrainOK
<1>8. ASSUME FlushContDone(Finisher) PROVE Drained
  BY <1>8
     DEF Drained, ConsumerAt, Flushing, FlushContDone, Step, TypeOK,
         DrainOK
<1>9. ASSUME LogEntry(Finisher) PROVE Drained
  BY <1>9 DEF Drained, ConsumerAt, Flushing, LogEntry, Step, TypeOK, DrainOK
<1>10. ASSUME LogEntryThrows(Finisher) PROVE Drained
  BY <1>10
     DEF Drained, ConsumerAt, Flushing, LogEntryThrows, Step, TypeOK,
         DrainOK
<1>11. ASSUME PollAck(Finisher) PROVE Drained
  BY <1>11 DEF Drained, ConsumerAt, Flushing, PollAck, Step, TypeOK, DrainOK
<1>12. ASSUME PollFlush(Finisher) PROVE Drained
  BY <1>12
     DEF Drained, ConsumerAt, Flushing, PollFlush, Step, TypeOK, DrainOK
<1>13. ASSUME PollTooEarly(Finisher) PROVE Drained
  BY <1>13
     DEF Drained, ConsumerAt, Flushing, PollTooEarly, Step, TypeOK, DrainOK
<1>14. ASSUME RestoreThrows(Finisher) PROVE Drained
  BY <1>14
     DEF Drained, ConsumerAt, Flushing, RestoreThrows, Step, TypeOK,
         DrainOK
<1> QED
  BY <1>1, <1>2, <1>3, <1>4, <1>5, <1>6, <1>7, <1>8, <1>9, <1>10, <1>11,
     <1>12, <1>13, <1>14
     DEF Consume, DrainAll, FlushContLines, Poll

LEMMA ConsumerKeepsPlaces ==
  ASSUME TypeOK, NEW c \in Consumers, Consume(c)
  PROVE  Places \subseteq Places'
<1>1. CASE FlushEntry(c)
  BY <1>1 DEF FlushEntry, Q!Pop, Places, TypeOK, QueueOK
<1>2. CASE ~FlushEntry(c)
  <2>1. UNCHANGED delivered
    BY <1>2, QuietStep
       DEF Moves, DataFrame, FlushContLog, FlushContThrows, LogEntry, LogEntryThrows, queueVars
  <2> QED
    BY <2>1 DEF Places
<1> QED
  BY <1>1, <1>2

LEMMA ConsumerKeepsTerminate ==
  ASSUME TypeOK, LifeInv, ConsumerInv, TerminateInv, NEW c \in Consumers, Consume(c)
  PROVE  TerminateInv'
<1>1. ConsumerFrame(c)
  BY ConsumerStep
<1>2. UNCHANGED <<visible, apc, promised, PublishedAhead>> /\ logger'.live = logger.live
  BY <1>1 DEF ConsumerFrame, callerVars, mainVars, PublishedAhead
<1>3. Places \subseteq Places'
  BY ConsumerKeepsPlaces
<1>4. cpc[c] # "off" /\ logger.live /\ apc[Main] # "close"
  BY <1>1, Bounds DEF ConsumerFrame, Working, LifeInv, TypeOK, CallersOK
<1>5. ASSUME Drained' PROVE promised \subseteq Places
  <2>1. CASE c = Finisher
    <3>1. ConsumerAt(Finisher)
      BY DEF ConsumerInv
    <3>2. Drained \/ DrainAllDone(Finisher)
      BY <1>5, <2>1, <3>1, DrainedStep
    <3>3. CASE Drained
      BY <3>3 DEF Drained, TerminateInv
    <3>4. CASE DrainAllDone(Finisher)
      <4>1. apc[Main] = "drain"
        BY <1>4, <2>1 DEF LifeInv
      <4>2. promised \subseteq PublishedAhead
        BY <4>1 DEF TerminateInv
      <4> QED
        BY <3>4, <4>2, QueueDrained DEF DrainAllDone
    <3> QED
      BY <3>2, <3>3, <3>4
  <2>2. CASE c # Finisher
    <3>1. cpc[Finisher] = "off" /\ ~force[Finisher]
      BY <1>1, <2>2, OthersOff
    <3>2. UNCHANGED <<cpc[Finisher], force[Finisher]>>
      BY <1>1, <2>2 DEF ConsumerFrame, TypeOK, DrainOK
    <3> QED
      BY <1>5, <3>1, <3>2 DEF Drained
  <2> QED
    BY <2>1, <2>2
<1> QED
  BY <1>2, <1>3, <1>4, <1>5 DEF TerminateInv, Drained

LEMMA LifecycleKeepsTerminate ==
  ASSUME TypeOK, LifeInv, ConsumerInv, TerminateInv, Lifecycle
  PROVE  TerminateInv'
<1>0. UNCHANGED <<visible, delivered, cur, force>>
  BY DEF Lifecycle, Shutdown, Initialize, CreateThread, Initialized,
     CreateThreadFails,
         Terminate, DeleteThread, Terminated, CloseLogger, lifeFrame, queueVars
<1> USE <1>0, Bounds
<1>1. ASSUME Initialize PROVE TerminateInv'
  BY <1>1
     DEF TerminateInv, PublishedAhead, Places, Initialize, Goto, LifeInv,
         ConsumerInv, ConsumerAt, FlushSinks, mainVars, sinkVars, TypeOK,
         CallersOK, DrainOK, FlagsOK
<1>2. ASSUME CreateThread PROVE TerminateInv'
  BY <1>2
     DEF TerminateInv, PublishedAhead, Places, CreateThread, Goto, LifeInv,
         ConsumerInv, ConsumerAt, FlushSinks, mainVars, sinkVars, TypeOK,
         CallersOK, DrainOK, FlagsOK
<1>3. ASSUME Initialized PROVE TerminateInv'
  BY <1>3
     DEF TerminateInv, PublishedAhead, Places, Initialized, Goto, LifeInv,
         ConsumerInv, ConsumerAt, FlushSinks, mainVars, sinkVars, TypeOK,
         CallersOK, DrainOK, FlagsOK
<1>4. ASSUME CreateThreadFails PROVE TerminateInv'
  BY <1>4
     DEF TerminateInv, PublishedAhead, Places, CreateThreadFails, Goto,
         LifeInv, ConsumerInv, ConsumerAt, FlushSinks, mainVars, sinkVars,
         TypeOK, CallersOK, DrainOK, FlagsOK
<1>5. ASSUME Terminate PROVE TerminateInv'
  <2>1. cpc[Finisher] = "off" /\ ~force[Finisher] /\ logger.live
    BY <1>5 DEF Terminate, LifeInv, ConsumerInv, ConsumerAt, Flushing
  <2>2. promised' = PublishedAhead' /\ apc'[Main] = "join"
    BY <1>5 DEF Terminate, Goto, PublishedAhead, TypeOK, CallersOK
  <2>3. UNCHANGED <<cpc, logger>>
    BY <1>5 DEF Terminate, sinkVars
  <2> QED
    BY <2>1, <2>2, <2>3 DEF TerminateInv
<1>6. ASSUME DeleteThread PROVE TerminateInv'
  BY <1>6
     DEF TerminateInv, PublishedAhead, Places, DeleteThread, Goto, LifeInv,
         ConsumerInv, ConsumerAt, FlushSinks, mainVars, sinkVars, TypeOK,
         CallersOK, DrainOK, FlagsOK
<1>7. ASSUME Terminated PROVE TerminateInv'
  BY <1>7
     DEF TerminateInv, PublishedAhead, Places, Terminated, Goto, LifeInv,
         ConsumerInv, ConsumerAt, FlushSinks, mainVars, sinkVars, TypeOK,
         CallersOK, DrainOK, FlagsOK
<1>8. ASSUME CloseLogger PROVE TerminateInv'
  BY <1>8
     DEF TerminateInv, PublishedAhead, Places, CloseLogger, Goto, LifeInv,
         ConsumerInv, ConsumerAt, FlushSinks, mainVars, sinkVars, TypeOK,
         CallersOK, DrainOK, FlagsOK
<1> QED
  BY <1>1, <1>2, <1>3, <1>4, <1>5, <1>6, <1>7, <1>8 DEF Lifecycle, Shutdown

(* What Terminate has promised is ahead in the queue until DeleteThread    *)
(* has returned, and out of the queue after the last DrainAll.             *)
THEOREM TerminateInvariant == Spec => []TerminateInv
<1>1. Init => TerminateInv
  BY Bounds DEF Init, TerminateInv
<1>2. TypeOK /\ LifeInv /\ ConsumerInv /\ TerminateInv /\ [Next]_vars => TerminateInv'
  <2> SUFFICES ASSUME TypeOK, LifeInv, ConsumerInv, TerminateInv, [Next]_vars
               PROVE  TerminateInv'
    OBVIOUS
  <2>1. CASE UNCHANGED vars
    BY <2>1
       DEF vars, queueVars, drainVars, sinkVars, callerVars, mainVars, TerminateInv,
           PublishedAhead, Places
  <2> QED
    BY <2>1, CallerStep, CallerKeepsTerminate, ConsumerKeepsTerminate,
       LifecycleKeepsTerminate
       DEF Next
<1> QED
  BY <1>1, <1>2, RtLogTypeCorrect, LifeInvariant, ConsumerInvariant, PTL
     DEF Spec

(* When Terminate has returned, what was published before its call and had *)
(* nothing unpublished ahead of it is in the output or among the losses.   *)
THEOREM TerminateWrites == Spec => []TerminateWritesAll
<1>1. TypeOK /\ LifeInv /\ ConsumerInv /\ PlacesInv /\ TerminateInv => TerminateWritesAll
  <2> SUFFICES ASSUME TypeOK, LifeInv, ConsumerInv, PlacesInv, TerminateInv,
                      apc[Main] = "idle", ~initialized, ~logger.live
               PROVE  /\ promised \subseteq WrittenPlaces \union LostPlaces
                      /\ sink = <<>> /\ contBuf = <<>>
    BY DEF TerminateWritesAll
  <2>1. promised \subseteq Places /\ sink = <<>> /\ contBuf = <<>>
    BY DEF TerminateInv
  <2>2. \A c \in Consumers : cpc[c] = "off"
    BY DEF LifeInv
  <2>3. HeldPlaces = {}
    BY <2>2 DEF HeldPlaces, ConsumerInv, ConsumerAt, Flushing
  <2>4. ContPlaces = {}
    BY <2>1 DEF ContPlaces
  <2>5. PrintedPlaces = WrittenPlaces
    <3>1. out \in Seq(Lines) /\ Printed = out
      BY <2>1 DEF TypeOK, DrainOK, Printed
    <3> QED
      BY <3>1 DEF PrintedPlaces, WrittenPlaces
  <2> QED
    BY <2>1, <2>3, <2>4, <2>5 DEF PlacesInv, PlacesAccounted
<1> QED
  BY <1>1, RtLogTypeCorrect, LifeInvariant, ConsumerInvariant,
     PlacesInvariant,
     TerminateInvariant, PTL

-----------------------------------------------------------------------------
(* Which lines are printed without prefix.                                 *)
ChunksInv == \A i \in 1..Len(contBuf) : IsChunk(delivered[contBuf[i]])

InCont(c) == cpc[c] \in {"cont", "read", "restore"}

RawInv == NoThrow /\ logger.pattern = Raw => \E c \in Consumers : InCont(c)

RawAt(c) == NoThrow /\ logger.pattern = Raw => InCont(c)

LEMMA RawAtConsumer ==
  ASSUME TypeOK, LifeInv, RawInv, NEW c \in Consumers, cpc[c] # "off"
  PROVE  RawAt(c)
BY Alone DEF RawInv, RawAt, InCont

LEMMA StepKeepsRawAt ==
  ASSUME TypeOK, NEW c \in Consumers, RawAt(c), Consume(c)
  PROVE  RawAt(c)'
<1>1. ASSUME PollLogQueue(c) PROVE RawAt(c)'
  BY <1>1 DEF RawAt, NoThrow, InCont, PollLogQueue, Step, sinkVars, TypeOK, DrainOK
<1>2. ASSUME FlushEntry(c) PROVE RawAt(c)'
  BY <1>2
     DEF RawAt, NoThrow, InCont, FlushEntry, TakeChunk, TakeLine, Step, sinkVars,
         TypeOK, DrainOK
<1>3. ASSUME DrainAllDone(c) PROVE RawAt(c)'
  BY <1>3 DEF RawAt, NoThrow, InCont, DrainAllDone, Step, sinkVars, TypeOK, DrainOK
<1>4. ASSUME FlushContRaw(c) PROVE RawAt(c)'
  BY <1>4 DEF RawAt, NoThrow, InCont, FlushContRaw, Step, sinkVars, TypeOK, DrainOK
<1>5. ASSUME FlushContLog(c) PROVE RawAt(c)'
  BY <1>5 DEF RawAt, NoThrow, InCont, FlushContLog, Step, sinkVars, TypeOK, DrainOK
<1>6. ASSUME FlushContThrows(c) PROVE RawAt(c)'
  <2>1. failed' # {}
    BY <1>6 DEF FlushContThrows
  <2> QED
    BY <2>1 DEF RawAt, NoThrow
<1>7. ASSUME ReadPatternStr(c) PROVE RawAt(c)'
  BY <1>7 DEF RawAt, NoThrow, InCont, ReadPatternStr, Step, sinkVars, TypeOK, DrainOK
<1>8. ASSUME RestorePattern(c) PROVE RawAt(c)'
  <2>1. logger'.pattern \in Patterns
    BY <1>8 DEF RestorePattern, TypeOK, DrainOK, FlagsOK
  <2> QED
    BY <2>1, Bounds DEF RawAt
<1>9. ASSUME FlushContDone(c) PROVE RawAt(c)'
  BY <1>9 DEF RawAt, NoThrow, InCont, FlushContDone, Step, sinkVars, TypeOK, DrainOK
<1>10. ASSUME LogEntry(c) PROVE RawAt(c)'
  BY <1>10 DEF RawAt, NoThrow, InCont, LogEntry, Step, sinkVars, TypeOK, DrainOK
<1>11. ASSUME LogEntryThrows(c) PROVE RawAt(c)'
  <2>1. failed' # {}
    BY <1>11 DEF LogEntryThrows
  <2> QED
    BY <2>1 DEF RawAt, NoThrow
<1>12. ASSUME PollAck(c) PROVE RawAt(c)'
  BY <1>12 DEF RawAt, NoThrow, InCont, PollAck, Step, sinkVars, TypeOK, DrainOK
<1>13. ASSUME PollFlush(c) PROVE RawAt(c)'
  BY <1>13 DEF RawAt, NoThrow, InCont, PollFlush, Step, sinkVars, TypeOK, DrainOK
<1>14. ASSUME PollTooEarly(c) PROVE RawAt(c)'
  BY <1>14 DEF RawAt, NoThrow, InCont, PollTooEarly, Step, sinkVars, TypeOK, DrainOK
<1>15. ASSUME RestoreThrows(c) PROVE RawAt(c)'
  <2>1. overcounted' # {}
    BY <1>15 DEF RestoreThrows
  <2> QED
    BY <2>1 DEF RawAt, NoThrow
<1> QED
  BY <1>1, <1>2, <1>3, <1>4, <1>5, <1>6, <1>7, <1>8, <1>9, <1>10, <1>11,
     <1>12, <1>13, <1>14, <1>15
     DEF Consume, DrainAll, FlushContLines, Poll

LEMMA DeliveredKept ==
  ASSUME TypeOK, NEW c \in Consumers, Consume(c), NEW p \in Places
  PROVE  delivered'[p] = delivered[p]
<1>1. CASE FlushEntry(c)
  <2>1. /\ delivered' = Append(delivered, log[Len(delivered) + 1])
        /\ delivered \in Seq(Messages) /\ log[Len(delivered) + 1] \in Messages
    BY <1>1 DEF FlushEntry, Q!Pop, TypeOK, QueueOK
  <2> QED
    BY <2>1 DEF Places
<1>2. CASE ~FlushEntry(c)
  BY <1>2, QuietStep
     DEF Moves, DataFrame, FlushContLog, FlushContThrows, LogEntry, LogEntryThrows, queueVars
<1> QED
  BY <1>1, <1>2

LEMMA StepKeepsChunks ==
  ASSUME TypeOK, LifeInv, ConsumerInv, OrderInv, ChunksInv, NEW c \in Consumers, Consume(c)
  PROVE  ChunksInv'
<1>1. \A i \in 1..Len(contBuf) : IsChunk(delivered'[contBuf[i]])
  <2>1. \A i \in 1..Len(contBuf) : contBuf[i] \in Places
    BY DEF OrderInv, ContPlaces
  <2> QED
    BY <2>1, DeliveredKept DEF ChunksInv
<1>2. CASE contBuf' = contBuf
  BY <1>1, <1>2 DEF ChunksInv
<1>3. CASE contBuf' = <<>>
  BY <1>3 DEF ChunksInv
<1>4. ASSUME FlushEntry(c) PROVE ChunksInv'
  <2> DEFINE place == Len(delivered')
  <2>1. CASE IsChunk(delivered'[place])
    <3>1. /\ contBuf \in Seq(Nat) /\ place \in Nat
          /\ contBuf' \in {contBuf, Append(contBuf, place)}
      BY <1>4, <2>1
         DEF FlushEntry, TakeChunk, Q!Pop, TypeOK, QueueOK, DrainOK
    <3>2. CASE contBuf' = Append(contBuf, place)
      <4>1. \A i \in 1..Len(contBuf') :
              \/ i \in 1..Len(contBuf) /\ contBuf'[i] = contBuf[i]
              \/ contBuf'[i] = place
        BY <3>1, <3>2
      <4> QED
        BY <1>1, <2>1, <4>1 DEF ChunksInv
    <3> QED
      BY <1>2, <3>1, <3>2
  <2>2. CASE ~IsChunk(delivered'[place])
    BY <1>2, <1>4, <2>2 DEF FlushEntry, TakeLine
  <2> QED
    BY <2>1, <2>2
<1>5. ASSUME Moves(c), ~FlushEntry(c) PROVE contBuf' \in {contBuf, <<>>}
  BY <1>5 DEF Moves, FlushContLog, FlushContThrows, LogEntry, LogEntryThrows
<1>6. ASSUME DataFrame PROVE contBuf' = contBuf
  BY <1>6 DEF DataFrame
<1> QED
  BY <1>2, <1>3, <1>4, <1>5, <1>6, QuietStep

LEMMA PrintedKeepsPrefix ==
  ASSUME TypeOK, OrderInv, LinesHavePrefix, NoThrow' => NoThrow,
         \A p \in Places : delivered'[p] = delivered[p], UNCHANGED Printed
  PROVE  LinesHavePrefix'
<1>1. \A i \in 1..Len(Printed) : Printed[i].at \in Places
  BY DEF OrderInv
<1> QED
  BY <1>1 DEF LinesHavePrefix

(* What FlushContLog adds are chunks; what LogEntry adds has its prefix.   *)
LEMMA FlushContLogKeepsPrefix ==
  ASSUME TypeOK, ChunksInv, LinesHavePrefix, NEW c \in Consumers, FlushContLog(c)
  PROVE  LinesHavePrefix'
<1> DEFINE s == Formatted(contBuf, logger.pattern)
<1>1. s \in Seq(Lines) /\ Len(s) = Len(contBuf)
  BY FormattedIsLines DEF TypeOK, DrainOK, FlagsOK
<1>2. \A i \in 1..Len(s) : IsChunk(delivered[s[i].at])
  BY <1>1 DEF Formatted, ChunksInv
<1>3. sink' = sink \o s /\ out' = out /\ UNCHANGED <<delivered, NoThrow>>
  BY DEF FlushContLog, queueVars, NoThrow
<1> HIDE DEF s
<1>4. /\ Len(Printed') = Len(Printed) + Len(s)
      /\ \A i \in 1..Len(Printed) : Printed'[i] = Printed[i]
      /\ \A i \in 1..Len(Printed') :
           i > Len(Printed) => /\ i - Len(Printed) \in 1..Len(s)
                               /\ Printed'[i] = s[i - Len(Printed)]
  BY <1>1, <1>3, PrintMore
<1>5. Len(Printed) \in Nat /\ Len(s) \in Nat
  BY <1>1, PrintedIsLines
<1>6. ASSUME NEW i \in 1..Len(Printed')
      PROVE  \/ i \in 1..Len(Printed) /\ Printed'[i] = Printed[i]
             \/ IsChunk(delivered[Printed'[i].at])
  <2>1. i \in 1..Len(Printed) \/ i > Len(Printed)
    BY <1>4, <1>5
  <2> QED
    BY <1>2, <1>4, <2>1
<1> QED
  BY <1>3, <1>6 DEF LinesHavePrefix

LEMMA LogEntryKeepsPrefix ==
  ASSUME TypeOK, ConsumerInv, OrderInv, LinesHavePrefix,
         NEW c \in Consumers, RawAt(c), LogEntry(c)
  PROVE  LinesHavePrefix'
<1>1. UNCHANGED <<delivered, NoThrow, out>>
  BY DEF LogEntry, queueVars, NoThrow
<1>2. CASE sink' = sink
  <2>1. UNCHANGED Printed
    BY <1>1, <1>2 DEF Printed
  <2> QED
    BY <1>1, <2>1, PrintedKeepsPrefix
<1>3. CASE sink' = sink \o Formatted(<<cur[c]>>, logger.pattern)
  <2> DEFINE s == Formatted(<<cur[c]>>, logger.pattern)
  <2>1. <<cur[c]>> \in Seq(Nat) /\ Len(<<cur[c]>>) = 1
    BY DEF TypeOK, DrainOK
  <2>2. s \in Seq(Lines) /\ Len(s) = 1
    BY <2>1, FormattedIsLines DEF TypeOK, FlagsOK
  <2>3. s[1].pattern = logger.pattern
    BY <2>1 DEF Formatted
  <2>4. NoThrow => logger.pattern # Raw
    BY DEF LogEntry, RawAt, InCont
  <2> HIDE DEF s
  <2>5. /\ Len(Printed') = Len(Printed) + Len(s)
        /\ \A i \in 1..Len(Printed) : Printed'[i] = Printed[i]
        /\ \A i \in 1..Len(Printed') :
             i > Len(Printed) => /\ i - Len(Printed) \in 1..Len(s)
                                 /\ Printed'[i] = s[i - Len(Printed)]
    BY <1>1, <1>3, <2>2, PrintMore DEF s
  <2>6. Len(Printed) \in Nat
    BY PrintedIsLines
  <2>7. ASSUME NEW i \in 1..Len(Printed')
        PROVE  \/ i \in 1..Len(Printed) /\ Printed'[i] = Printed[i]
               \/ Printed'[i].pattern = logger.pattern
    <3>1. i \in 1..Len(Printed) \/ (i > Len(Printed) /\ i - Len(Printed) = 1)
      BY <2>2, <2>5, <2>6
    <3> QED
      BY <2>3, <2>5, <3>1
  <2> QED
    BY <1>1, <2>4, <2>7 DEF LinesHavePrefix
<1> QED
  BY <1>2, <1>3 DEF LogEntry

LEMMA ConsumerKeepsPrefix ==
  ASSUME TypeOK, LifeInv, ConsumerInv, OrderInv, PrefixInv, NEW c \in Consumers, Consume(c)
  PROVE  PrefixInv'
<1>1. LinesHavePrefix /\ ChunksInv /\ RawInv
  BY DEF PrefixInv, ChunksInv, RawInv, InCont
<1>2. cpc[c] # "off"
  BY ConsumerStep DEF ConsumerFrame, Working
<1>3. RawAt(c) /\ RawAt(c)'
  BY <1>1, <1>2, RawAtConsumer, StepKeepsRawAt
<1>4. ChunksInv'
  BY <1>1, StepKeepsChunks
<1>5. LinesHavePrefix'
  <2>1. ASSUME DataFrame PROVE LinesHavePrefix'
    <3>1. NoThrow' => NoThrow
      BY <2>1, ConsumerCounts DEF DataFrame, NoThrow, CountFrame, RestoreThrows,
                                  FlushContThrows, LogEntryThrows
    <3> QED
      BY <1>1, <2>1, <3>1, PrintedKeepsPrefix DEF DataFrame
  <2>2. ASSUME FlushEntry(c) PROVE LinesHavePrefix'
    <3>1. UNCHANGED Printed /\ UNCHANGED NoThrow
      BY <2>2 DEF FlushEntry, sinkVars, Printed, NoThrow
    <3> QED
      BY <1>1, <3>1, DeliveredKept, PrintedKeepsPrefix
  <2>3. ASSUME FlushContThrows(c) \/ LogEntryThrows(c) PROVE failed' # {}
    BY <2>3 DEF FlushContThrows, LogEntryThrows
  <2>4. failed' # {} => LinesHavePrefix'
    BY DEF LinesHavePrefix, NoThrow
  <2> QED
    BY <1>1, <1>3, <2>1, <2>2, <2>3, <2>4, QuietStep,
       FlushContLogKeepsPrefix,
       LogEntryKeepsPrefix
       DEF Moves
<1> QED
  BY <1>3, <1>4, <1>5 DEF PrefixInv, ChunksInv, RawAt, InCont

LEMMA CallerKeepsPrefix ==
  ASSUME PrefixInv, NEW t \in App, CallerFrame(t)
  PROVE  PrefixInv'
<1>1. UNCHANGED <<Printed, delivered, contBuf, cpc, NoThrow>>
  BY DEF CallerFrame, drainVars, NoThrow
<1>2. logger'.pattern = Raw => logger.pattern = Raw
  BY Bounds DEF CallerFrame
<1> QED
  BY <1>1, <1>2 DEF PrefixInv, LinesHavePrefix

LEMMA LifecycleKeepsPrefix ==
  ASSUME TypeOK, LifeInv, OrderInv, PrefixInv, Lifecycle
  PROVE  PrefixInv'
<1>1. UNCHANGED <<delivered, Printed, NoThrow>>
  BY LifecycleFrame DEF NoThrow
<1>2. LinesHavePrefix'
  BY <1>1, PrintedKeepsPrefix DEF PrefixInv
<1>3. contBuf' \in {contBuf, <<>>}
  BY LifecycleFrame DEF Initialize
<1>4. ChunksInv'
  BY <1>1, <1>3 DEF ChunksInv, PrefixInv
<1>5. logger'.pattern = Raw => logger.pattern = Raw
  BY Bounds
     DEF Lifecycle, Shutdown, Initialize, CreateThread, Initialized, CreateThreadFails,
         Terminate, DeleteThread, Terminated, CloseLogger, sinkVars, TypeOK, FlagsOK
<1>6. ASSUME NEW c \in Consumers, InCont(c) PROVE InCont(c)'
  <2>1. ASSUME Initialize PROVE InCont(c)'
    BY <1>6, <2>1, Bounds
       DEF InCont, Initialize, LifeInv, TypeOK, DrainOK, CallersOK
  <2>2. ASSUME CreateThread PROVE InCont(c)'
    BY <1>6, <2>2, Bounds
       DEF InCont, CreateThread, LifeInv, TypeOK, DrainOK, CallersOK
  <2>3. ASSUME Initialized PROVE InCont(c)'
    BY <1>6, <2>3, Bounds
       DEF InCont, Initialized, LifeInv, TypeOK, DrainOK, CallersOK
  <2>4. ASSUME CreateThreadFails PROVE InCont(c)'
    BY <1>6, <2>4, Bounds
       DEF InCont, CreateThreadFails, LifeInv, TypeOK, DrainOK, CallersOK
  <2>5. ASSUME Terminate PROVE InCont(c)'
    BY <1>6, <2>5, Bounds
       DEF InCont, Terminate, LifeInv, TypeOK, DrainOK, CallersOK
  <2>6. ASSUME DeleteThread PROVE InCont(c)'
    BY <1>6, <2>6, Bounds
       DEF InCont, DeleteThread, LifeInv, TypeOK, DrainOK, CallersOK
  <2>7. ASSUME Terminated PROVE InCont(c)'
    BY <1>6, <2>7, Bounds
       DEF InCont, Terminated, LifeInv, TypeOK, DrainOK, CallersOK
  <2>8. ASSUME CloseLogger PROVE InCont(c)'
    BY <1>6, <2>8, Bounds
       DEF InCont, CloseLogger, LifeInv, TypeOK, DrainOK, CallersOK
  <2> QED
    BY <2>1, <2>2, <2>3, <2>4, <2>5, <2>6, <2>7, <2>8 DEF Lifecycle, Shutdown
<1> QED
  BY <1>1, <1>2, <1>4, <1>5, <1>6 DEF PrefixInv, ChunksInv, InCont

(* The bare pattern "%v" is installed only while a consumer is in          *)
(* FlushContLines, unless an exception has interrupted it there.           *)
THEOREM PrefixInvariant == Spec => []PrefixInv
<1>1. Init => PrefixInv
  BY Bounds DEF Init, Q!Init, PrefixInv, LinesHavePrefix, Printed, NoLogger
<1>2. TypeOK /\ LifeInv /\ ConsumerInv /\ OrderInv /\ PrefixInv /\ [Next]_vars
        => PrefixInv'
  <2> SUFFICES ASSUME TypeOK, LifeInv, ConsumerInv, OrderInv, PrefixInv, [Next]_vars
               PROVE  PrefixInv'
    OBVIOUS
  <2>1. ASSUME UNCHANGED vars PROVE PrefixInv'
    <3>1. UNCHANGED <<Printed, delivered, contBuf, cpc, NoThrow, logger>>
      BY <2>1 DEF vars, queueVars, drainVars, sinkVars, Printed, NoThrow
    <3> QED
      BY <3>1 DEF PrefixInv, LinesHavePrefix
  <2> QED
    BY <2>1, CallerStep, CallerKeepsPrefix, ConsumerKeepsPrefix,
       LifecycleKeepsPrefix
       DEF Next
<1> QED
  BY <1>1, <1>2, RtLogTypeCorrect, LifeInvariant, ConsumerInvariant,
     OrderInvariant, PTL
     DEF Spec

(* As long as nothing throws, only chunks are printed with "%v".           *)
THEOREM PrefixKept == Spec => []LinesHavePrefix
<1>1. PrefixInv => LinesHavePrefix
  BY DEF PrefixInv
<1> QED BY <1>1, PrefixInvariant, PTL

-----------------------------------------------------------------------------
(* The inductive invariant as a whole.                                     *)
THEOREM RtLogInvariant == Spec => []RtLogInv
<1>1. /\ TypeOK /\ LifeInv /\ ConsumerInv /\ OrderInv
      /\ PlacesInv /\ CountInv /\ PrefixInv /\ TerminateInv
      => RtLogInv
  BY DEF RtLogInv
<1> QED
  BY <1>1, RtLogTypeCorrect, LifeInvariant, ConsumerInvariant,
     OrderInvariant,
     PlacesInvariant, CountInvariant, PrefixInvariant, TerminateInvariant, PTL

=============================================================================
