# Formal models of dtCore

This directory holds TLA+ specifications of the concurrent parts of dtCore,
the TLC configurations that check them on small instances, and TLAPS proofs of
the properties that matter most. `PROJECT.json` links every definition to the
source lines it models, every run to its properties, and every hazard of the
code to the properties that would catch it.

    tlc -workers 2 -config MCRtLog.cfg MCRtLog     # one run
    tlapm RtLog_proofs.tla                         # one proof module

Paths below are relative to `src/`; `H` stands for `include/dtCore/src`.

## 1. The system

dtCore is a C++ library for robot controllers. Real-time threads produce log
lines and state messages; ordinary threads carry them to terminals, files and
the network.

| Component | Source | State | Operations | Hard behaviour |
|---|---|---|---|---|
| LogQueue | `H/dtLog/dtLogQueue.hpp` | `m_head`, `m_tail`, per slot `seq` and `data` | `TryPush` (any thread), `TryPop` (one thread) | lock-free claims, preempted producers, counters that wrap |
| RtLog | `src/core/log/dtRtLog.cpp`, `H/dtLog/dtRtLog.hpp` | queue, `m_initialized`, `m_logThreadRun`, `m_level`, `m_dropCount`, `m_syncSeq/Ack`, `m_patternStr`, `m_contBuf`, `m_logger` | `LogRt*`, `LogRtCont`, `Sync`, `SetLogPattern`, `SetLevel`, `Initialize`, `Terminate`; the drain thread's `Poll` | drain thread against callers and `Terminate`, acknowledgements, pattern switching |
| Log streams | the same two files | text buffer, position, width, `m_active`, `m_submitted` | `operator<<`, `printf`, `format`, destructor | each kind of piece has its own margin before the end of the buffer |
| File sink | `H/dtLog/dtRtLog.hpp` | buffer, fd, sizes | `sink_it_`, `flush_`, `RotateFiles` | failing and partial writes, rotation, crashes |
| Stdout and syslog sinks | `H/dtLog/dtRtLog.hpp` | buffer, fd | `sink_it_`, `AppendData`, `FlushBuffer` | a terminal slower than the log |
| RtTui | `src/core/log/dtRtTui.cpp`, `H/dtLog/dtRtTui.hpp` | layouts with two buffers and a dirty flag, log history, scroll state, output buffer, keys | `SetRowData`, `Log`, `Tick`, `HandleKey`, `FlushOutput`, `Init`, `Stop` | buffer swap while a thread writes, ring arithmetic, partial writes |
| StatePublisherGrpc | `H/dtDAQ/grpc/dtStatePublisherGrpc.hpp` | sessions, call states, message queues, completion queue | `Publish`, `Run`, `Stop` | asynchronous completions, shutdown |
| StateSubscriberGrpc | `H/dtDAQ/grpc/dtStateSubscriberGrpc.hpp` | one session with its call state, `_running`, completion queue | `Reconnect`, `Run`, `Stop` | cancellation by two threads, one tag for all completions |
| ServiceListenerGrpc | `H/dtDAQ/grpc/dtServiceListenerGrpc.hpp` | sessions by id, server, completion queue | `AddSession`, `Run`, `Stop` | a session works before it is in the table, late calls at shutdown |
| ServiceCallerGrpc | `H/dtDAQ/grpc/dtServiceCallerGrpc.hpp` | calls by id, completion queue | `StartCall`, `Run`, `Stop` | a response before the call is in the table |
| DAQ managers, sinks and sources | `H/dtDAQ/*` | registries of sinks and sources | register, publish | little of their own |
| MCAP sink and rotator | `H/dtDAQ/mcap` | writer with its chunk, estimated size, rotated files | `Publish`, `Write`, `Rotate`, `Close` | failing opens, writes and renames, restarts |
| Thread | `src/core/thread/threadImp.cpp`, `H/dtThread/threadImp.h` | lists of threads, semaphores, mutexes | create, delete, delete all, post all | places of the lists, joining threads that wait |
| Utils | `H/dtUtils`, `src/core/utils` | spin lock, time check, configuration, files, a counter called Watchdog | sequential helpers | the lock |

How they interact: `RtLog` owns a `LogQueue`, one drain thread made by
`Thread::CreateThread`, a spdlog logger with sinks, and optionally an `RtTui`,
whose second area has a `LogQueue` of its own that the TUI sink feeds. The DAQ
classes share nothing with it. A publisher and a subscriber, a listener and a
caller meet only through gRPC calls; inside each, the application's threads and
the dispatcher of the completion queue share the sessions.

What makes each correct: the queue loses, tears, reorders and duplicates nothing
and refuses only when full; the logger writes what the queue accepted, in order,
up to counted losses, and its `Sync` and `Terminate` return when the entries
before them are out; a stream submits what it was given, or a mark where it had
to cut; a sink keeps the order of bytes, keeps the newest when it must drop
some, and bounds its files (the MCAP rotator only the payload in them); the TUI
shows the rows and messages that were given to it before the frame began; a
publisher has one write under way per client, keeps each stream in order and up
to date, and comes to rest at shutdown; a subscriber hands its handler an
increasing sequence of states across reconnections; a listener never goes deaf,
a caller's calls all end, and once a listener's queue is shut down it handles
only calls their clients have dropped; the lists of threads name what is alive,
so that the shutdown joins and destroys each object once.

## 2. The modules

| Module | What it is |
|---|---|
| `BoundedLog` | what the queue promises: reserve, publish, pop, refuse when full |
| `LogQueue` | the ring, one action per access to shared memory |
| `RtLog` | the logger around a `BoundedLog`: callers, drain thread, `Initialize` and `Terminate` |
| `LogStream` | a statement with `LOG`, `LOG_NAMED` or `LOG_CONT`: the stream classes |
| `FileSink` | `BasicFileSinkT`, one action per system call, with faults and crashes |
| `StdoutSink` | `ColorStdoutSinkT` and a terminal that takes a part of each write |
| `TuiRows` | the double-buffered rows of a TUI layout, one action per access |
| `TuiView` | the log history, scrolling, keys and layouts of the TUI |
| `RtTui` | `Tick` and the threads of the application, composed of the two |
| `TuiOutput` | the output buffer of the TUI, with `Init`, `Tick` and `Stop` as far as they write |
| `McapRotator` | `DataSinkPBMcapRotator` with the sink it owns, faults and restarts |
| `Outputs` | `LogStream`, `StdoutSink`, `TuiOutput` and `McapRotator` side by side, for one run |
| `StatePublisher` | `StatePublisherGrpc`: publishing thread, dispatcher, gRPC |
| `StateStream` | what a subscriber is promised: published states, in order, at most once |
| `StateSubscriber` | `StateSubscriberGrpc`: application, dispatcher, gRPC and the publisher |
| `ServiceListener`, `ServiceCaller` | the two ends of a service call |
| `ServiceRpc` | the two composed: a call of the client is served by a session of the server |
| `ThreadLists` | the lists of `dt::Thread`, the spin lock, and a program that uses both |

`<M>Properties` extends the module it is named after with its properties and its
inductive invariant, `<M>_proofs` extends that with the theorems, and `MC<M>`
gives the instance for TLC. `Grpc_proofs` holds the proofs of the subscriber and
of the service call together, `Outputs_proofs` those of the four modules that
`Outputs` composes; the specification of `ServiceRpc` is called `RpcSpec`, so that
it can be in one scope with the subscriber's.

`LogQueue` implements `BoundedLog` and `StateSubscriber` implements
`StateStream` (both checked and proved). `RtLog` has an `INSTANCE` of
`BoundedLog` for its queue, so what is shown of the logger rests on what is
shown of the ring. `FileSink` and `StdoutSink` stand for the sinks that `RtLog`
keeps abstract: in `RtLog` a flush writes all that was formatted, and they say
what that means when system calls fail. `TuiOutput` says the same of what
`RtTui` draws.

Beside some definitions stands a wrong variant of theirs, marked "Mutant":
each checked property fails when its variant takes the definition's place.

### LogQueue

`head`, `tail` and `seq` are the atomics, unwrapped: the code sees them only
through `Word` and `Diffs`, that is modulo `Modulus` (2^32 in the code), so the
wrap is in the model. `pc`, `ph` are a producer's place and its local `head` in
`TryPush`; `cpc`, `out` those of the consumer. Copying a message is two steps,
with `Torn` in between. `accepted`, `delivered`, `refused` are histories.
`Diffs` gives the outcomes of `(int32_t)seq - (int32_t)head` a build may
produce when it overflows, which C++ leaves undefined: `SignRules` holds
"wrapped" (what gcc emits for the subtraction and sign tests of this code) and
"exact" (a build that compares the operands). Memory accesses interleave
sequentially; the acquire and release orders of the code give this for the
slots' data, whose accesses the sequence numbers separate (`SlotExclusive`).

### RtLog

An entry is its place in the order of deliveries. `contBuf` holds the places
of the chunks in `m_contBuf`, counted in chunks: a chunk is kept or dropped
whole. `sink` is what the sinks have formatted, `out` what they have written.
`cpc` is where each consumer of the queue is: one drain thread per session, and
`Finisher`, the `DrainAll` inside `Terminate`. `apc` is where each application
thread is. Each action is one atomic access or one call of the logger, so that
callers, the drain thread and `Terminate` interleave inside `FlushContLines`,
`SetLogPattern`, `Sync` and `Poll`. Exceptions are the actions `...Throws`,
bounded by `MaxFaults`: of the log call of a line, and of the log call and both
`set_pattern` calls of `FlushContLines`, which may have reached the sinks or
not. `failed` are the lines an exception lost, `overcounted` those printed
before the second `set_pattern` threw, which `m_dropCount` counts as well. `Initialize` may fail to create its thread.
A call that returns early changes nothing and is no action.

### FileSink

`files` maps the suffixes 0 (the base file) to `MaxFiles` to their bytes or
`None`; a byte is a message and a position. `Stored`, the files read from the
oldest to the newest, is a recursive function on the suffixes. `buf` is `m_buffer`, `pc` and `msg`
where the thread is in `sink_it_` and with which message. Writes may stop
half-way or fail, `open` and `rename` may fail, the loop of `RotateFiles` may
throw, and the process may crash at each step; `faults` counts them. `opens`
counts the sinks constructed one after the other on the same files.

### StatePublisher

`sessions` is `_sessions`; `state`, `queue` are `_call_state` and `_msg_queue`
of each. `app`, `left` are the publishing thread and the sessions its loop has
still to visit; `rpc` is the dispatcher. `_call_state` is read before
`_proc_mtx` is locked, as in the code, so the decision and the change are two
steps. One publishing thread stands for several, as they take turns on
`_session_mtx`; no `Publish` runs during `Stop`, which only the destructor
calls. The gRPC library is modelled from the calls the code makes: a client
connects or leaves at any time; a write on an open call succeeds, on a dead one
fails; `Shutdown` of the server fails the requests for clients and waits for
the open calls; a completion queue that is shut down and has nothing pending
takes no further operation, and gRPC aborts the process that starts one.

### StateSubscriber

One session at a time, as in the code: `state`, `running` are its `_call_state`
and `_running`; `app` is the application's thread in the constructor,
`Reconnect`, `Stop` or the destructor; `rpc`, `event` the dispatcher and the
completion it has taken. All completions carry the same tag, so the dispatcher
branches on `state` and not on what completed: `CallContract` says where this is
right, and section 5 where not. `pending` counts the operations gRPC has, `cq`
holds the completions; `left` records what of both the join finds, as each
session has a call and a queue of its own that are destroyed with it;
a queue that is shut down and has nothing pending takes no operation, and gRPC
ends the process that starts one (`app = "aborted"`). The application is that of
the example: it reconnects at will, and surely when `_running` is false.

### ServiceListener, ServiceCaller, ServiceRpc

A session or call is a number; `New` is the next one of the listener. `kind`,
`state` and `sessions` are the kinds, call states and table of the listener,
`calls` the table of the caller. `AddSession` is two actions: the constructor,
which already gives gRPC the tag, and the entry in the table. So are, for the
caller, the constructor, the store of `_call_state` and the entry. `main` and
`rpc` are the application's thread and the dispatcher. `Stop` is one action per
lock or blocking call. Handlers are those of the examples. In `ServiceRpc`,
`peer` ties a session to the call it serves: `Deliver`, `Answer` and `Fail` are
the steps of gRPC that both ends see. As for the publisher, `Shutdown` of the
server waits for the calls whose clients are there (`ServerIsDown`) and not for
those that were dropped; so the dispatcher may still have a dropped call to
handle when the queue is shut down, and gRPC aborts the process if the queue has
nothing left by then (`QueueClosed`, `Aborts`).

### TuiRows, TuiView, RtTui

`dataBuf` and `dataWriteIdx` are the buffers and the index; a row is the number
of the update that wrote its label and its text, so a torn row has two numbers.
`setter` is the thread in `SetRowData` with the index it has loaded; there is one
setter, as in example_rtlog_tui, where the main loop sets all rows.
`drawn` is the frame that `RenderArea1` is drawing. `whole`, `due` and `late`
are histories: what was set entirely between two swaps, what the next frame has
to show, and the row being set at the swap. `TuiView` keeps the history ring
(`m_logHistory`, `m_logCount`, `m_logHead`), the scroll offset and the layouts
that are defined; keys are those of `HandleKey`. The loop of `Tick` that drains the
queue into the ring is a recursive function of the number of messages
(`DrainUpTo`). Colours, borders and the text
of lines are left out.

### LogStream, StdoutSink, TuiOutput, McapRotator

Each is used by one thread and shares nothing with the others, so `Outputs` runs
them side by side in one instance. Bytes and messages are numbers in their order,
so that a loss, a repetition or an exchange shows. A stream's buffer is a
sequence of runs, each the piece it is of, its length and whether it is whole;
the loop over a vector is a recursive function of the number of elements
(`Elements`). `FlushBuffer` and
`FlushOutput` take any part of the buffer, or fail. A byte of the TUI's buffer
is of the text of a frame or the zero of `snprintf`, which `SafeSnprintf` counts
in `m_outPos` when the text does not fit: the frame then has a hole (`cut`).
`McapRotator` has the files by index, the chunk the MCAP writer holds back, of
which a failing write leaves any part in the file, and the rotator's count of
the payload; an operation returns the set of the disks it may leave, each with
the number of faults on the way (`bad`).

### ThreadLists

`list` maps the kinds to the places in use, whose number is `threadNum`,
`semNum` or `mtxNum`; `listIdx` is that of the objects. `main` creates and
deletes in any order, posts all semaphores and runs the three `DeleteAll`
functions, one action per element of their loops; the loops leave the places of
what they deleted as they are. Creation may fail, also after the thread exists
(`stray`). No `Create...` checks that its list has a place left: the step that
writes beyond it is `Overrun`, after which nothing more is modelled. Threads add to a sum under the spin lock, as in
`example_thread_lock`, or wait for a semaphore.

## 3. What TLC checks

| Run | Bounds | What it shows |
|---|---|---|
| `queue` | 2 producers, 4 pushes each, 2 slots, words modulo 8 | nothing lost, torn, duplicated or reordered; no slot has two users; implements `BoundedLog`; a consumer that keeps popping gets every entry |
| `rtlog` | 2 threads, 2 calls each, queue of 2, one exception | order, accounting, `Terminate` writes everything |
| `rtlog_restart` | 2 threads, 1 call each, 2 sessions, all kinds of entries, one fault | `Sync` and `Terminate` return, entries get out |
| `rtlog_sync` | 1 thread, 2 calls | **violated**: finding 1 |
| `file_sink` | messages below, at and above a buffer of 2 and a file of 4 bytes, 2 rotated files, 4 messages, 2 sinks, one fault | order, no gaps without faults, only the oldest is forgotten |
| `outputs` | stream buffer of 16, terminal buffers of 4, files of 2 with 2 rotated, 2 faults | nothing is overrun, pieces get out or are marked, order, the newest is kept |
| `tui` | 2 rows, 2 updates, history of 3, 4 messages, queue of 2, 2 layouts, 2 terminal heights | frames are fresh, rows torn only at a swap, the history, paused views, every layout reached |
| `state_pub` | 3 sessions (2 clients), 3 states, queue size -1, 0, 1 | streams in order and up to date, delivery, `Stop` returns |
| `state_pub_stop` | the same | **violated**: finding 2 |
| `state_sub` | 3 states, any number of reconnections | no operation twice or after `Finish`, one left at most, `IsRunning` tells, implements `StateStream`, reconnects, `Stop` returns |
| `service` | 1 kind, 3 sessions, 2 calls | never deaf, `Stop` finds what is pending, after the shutdown only dropped calls, calls end, both `Stop`s return |
| `threads` | 2 adders, 1 waiter, 2 semaphores, 2 mutexes, lists of 3, 2 and 1 places | the lists name what is alive, the sum is exact, the shutdown ends |

Why these bounds are enough to be interesting. In `queue` the counters go round
the ring four times and wrap the word, and both producers can be preempted at
any step of the same slot. In `rtlog` the queue fills, chunks overflow a
buffer of one, `Sync` and `SetLogPattern` overlap with draining and with
`Terminate`; in `rtlog_restart` a second session meets entries the first one
left. In `file_sink` the sizes are below, at and above both the buffer and the
file, and four messages rotate out more files than are kept. In `outputs` the
pieces are shorter and longer than each margin before the end of a buffer, the
terminal leaves any number of bytes, six messages pass through three files with
a fault in the middle of a rotation and one after it. In `tui` one update can be
under way at a swap with a whole one before it, the history wraps, and the
terminal's height changes while a view is paused. In `state_pub` three states
fill and overflow a queue of one behind a write under way, and two clients come
and go during `Publish` and `Stop`. In `state_sub` three states are enough for
one handled, one being read and one on its way when the call breaks. In
`service` the second call arrives while the first is served, and either end
stops between any two steps; the session for the first call, its successor and
the successor's successor are the three sessions. With two kinds the proofs
speak (section 4), as the kinds do not interact but in the table. In `threads`
two adders contend for the lock, a place can be emptied and passed over, and the
second mutex overruns its list.

Every bound (`MaxCalls`, `MaxSessions`, `MaxFaults`, `MaxMessages`, `MaxOpens`,
`MaxStates`, `MaxSets`, `MaxLogs`, `MaxPieces`, `MaxBytes`, `MaxFrames`,
`MaxFrameLen`) is a named constant in a guard. `StallBound` of `LogQueue` is one
more: a producer is not preempted between its load of `m_head` and its CAS while
others push nearly 2^31 entries, after which the word, and with it the CAS,
could not tell the heads apart. Behaviours may end where a bound is reached, or
a session is over, so deadlock is not checked; the liveness properties say what
must not stop.

### Fairness

- `LogQueue`: weak fairness of a push that has started. Nothing is assumed of
  the consumer, except in `EveryEntryPopped`, which states it as a hypothesis.
- `RtLog`: weak fairness of a caller inside a call, of the drain thread and of
  `Initialize` and `Terminate`: threads that run, without priorities that
  starve them for ever. `PollFlush` has strong fairness: its 20 ms interval
  since the last flush elapses again and again, and an iteration of the loop
  comes after that.
- `StatePublisher`: weak fairness of the dispatcher, of the application inside
  a call, and of gRPC completing each write: a call whose client neither reads
  nor leaves is not modelled. `Publish` and `Stop` need not be called, and
  clients need not leave.
- `StateSubscriber`: weak fairness of the dispatcher, of the application inside
  a call, and of gRPC completing what is started on a dead call; the application
  reconnects when `IsRunning` is false, as the loop of the example does. Strong
  fairness of `StartSucceeds`: a subscriber that tries again and again finds the
  publisher some day. An open call need not break and no state need come.
- `ServiceRpc`: weak fairness of the dispatchers and of the application's threads
  inside `AddSession`, `StartCall` and `Stop`; gRPC brings a call to a session
  that waits, completes `Finish`, and fails a call that is cancelled or whose
  server is down. Calls need not be made, nor anything stopped.
- `ThreadLists`: weak fairness of each thread and of the shutdown once it has
  begun. An adder in front of the lock is scheduled fairly, yet the lock itself is
  not fair; each adder adds a bounded number of times, so each gets its turn.
- The runs `rtlog`, `file_sink`, `outputs` and `tui` check safety only and assume
  no fairness.

## 4. What is proved

All theorems hold for every value of the constants that the assumptions admit.

**LogQueue** (`Capacity > 1` throughout: a ring of one slot cannot tell a published slot
from a free one, see section 5).
`RingInvariant` proves `IInv`: each of the `Capacity` tickets from `Released`
on has a slot of its own, whose number is the ticket while it is free or
claimed and the ticket plus one once published (`RingInv`); owners hold
different tickets (`OwnerInv`); a producer about to CAS has seen a free slot if
its head is still current (`CasInv`); the consumer's slot is published
(`ConsumerInv`). None of the safety properties is inductive alone: that a slot
has one owner follows from what the numbers say of all of them. From it:
`NoLossNoTear`, `CapacityRespected`, `NoDataRace`, `ProducerOrderKept`; with
`SignRules = {"wrapped"}` also `DropsOnlyWhenFull`, which rests on arithmetic
of residues (`ModInjective`, `SlotTicket`), and `RingImplementsLog`, the
refinement, each step mapped to one of `BoundedLog` or a stutter.

**RtLog.** `RtLogInvariant` proves `RtLogInv`, in parts, each from the ones
before: `TypeOK`; `LifeInv`, which drain thread exists at which stage of
`Initialize` and `Terminate`, and gives `OneConsumer`; `ConsumerInv`, where a
consumer holds an entry and where `m_contBuf` is empty; `OrderInv` (`OrderKept`);
`PlacesInv` and `CountInv` (`EntriesAccounted`), which says that a line is
counted once, whether its log call or a `set_pattern` throws; `PrefixInv`
(`PrefixKept`);
`TerminateInv`, the promise of `Terminate` carried through its join, its last
drain and the closing of the logger (`TerminateWrites`). For each part the
proof splits the steps into those of callers, of consumers and of the
life-cycle; frame lemmas dispose of the variables a step leaves alone.

**FileSink.** `SinkInvariant` proves `SinkInv`, hence `SizesBounded` and
`CurrentSizeExact`: whatever fails, no file holds more than `MaxSize` bytes
unless they belong to one message, and `m_currentSize` is the size of the
file. The argument: what the file and the buffer hold together always fits; a
flush, complete or not, only moves a part of the buffer behind the file, and a
part of what fits still fits (`FitsMonotone`); `sink_it_` puts a message behind
them only if the sum fits, or rotates first.

`HistoryInvariant` is about the bytes themselves, in three parts. `OrderInv`:
every file, the buffer and the message in `sink_it_` are in order, and each before
the next, at every step of a rotation: a rename moves one file to the next suffix,
and one that fails leaves a gap or drops a file but never exchanges two
(`BytesInOrder`). `SkipInv`: while nothing has failed, files, buffer and message
are an unbroken end of what was handed over, as the place a file is moved to has
been freed by the step before (`NoByteSkipped`). `ForgetInv`: the suffixes in use
have no gap but the place just left, so that the oldest file is overwritten only
when every suffix is taken (`OldestForgotten`). What `Stored` returns when one file
changes is shown by induction over the suffixes. The proof needs
`None \notin Seq([of : Nat, at : Nat])`: a file is absent or has bytes.

**StatePublisher.** `PubInvariant` proves `PubInv`. Its core is `TokenInv`: a
session has one token at most, which is gRPC's request for a client, a write, a
completion, or the dispatcher's attention; its `_call_state` says which. So the
two threads cannot both start a write, although `_call_state` is read before
the lock (`OneWritePerCall`): whoever may write has seen the token. `NewestInv`
says that only the newest session waits and that the dispatcher makes its
successor before it serves it (`NextClientAwaited`). `StreamInv` keeps what is
sent, what is being written and what is queued in order, each below the next and
none newer than what the loop of `Publish` has reached (`StreamsInOrder`). The
parts need each other: the newest session's token tells that a failed request
cannot be its own before the shutdown, and a write may go behind the wire only
because the session that writes has an empty queue. `NewestStateKept` proves
`KeptInv` on top of it: `ServedInv` adds that a session begins with nothing sent,
that `Publish` visits every session that is served, and that one that is finished
has no client. What was put last stays at the end of the queue, as a full queue
drops its front, and a write takes it only when it is alone.

**StateSubscriber.** `SubInvariant` proves `SubInv`: `TypeOK`; `PhaseInv`, where
the two threads are and that `_running` tells the dispatcher's end (`RunningTells`);
`TokenInv`, that a call has one operation of a kind outstanding and that
`_call_state` tells which, so that a completion without a tag of its own is
taken for what it is until `Finish` is posted; `LeftInv`, that the dispatcher
leaves with one operation outstanding at most, as it has taken the completion of
the other (both in `ContractKept`); `StreamInv`, that what was handled, is in
a completion, and is on its way is one increasing sequence. The theorem
`ImplementsStream` maps every step to one of `StateStream` or a stutter; the join
in `Stop` carries it across reconnections, as the next session begins only when
no dispatcher can append any more. `CallContract` contains that a dispatcher
that waits always has an operation to wait for. It does not say that the queue
is drained: the loop is left through the first event that is no success, and
what is still outstanding then goes with the session.

**ServiceRpc.** `ServiceInvariant` proves `ListenerInv` and `CallerInv`. A
session is named by one of the request, the completion, the `Finish` and the
dispatcher (`TokensInv`), all of them in the table or about to be entered
(`TableInv`, giving `StopFindsThem`); a session that was connected has a call
until it is answered (`CallsInv`), and the server's shutdown, which waits for
the calls that are open, comes before that of the queue (`DownInv`): what is left
then are dropped calls, hence `LateCallsAreDropped`.
`NeverDeaf` needs all of it: the successor is constructed in the step that takes
the completion of its predecessor.

**ThreadLists.** `ThreadsInvariant` proves `ThreadsInv`, for lists of any length:
the lists are dense; an object that is not deleted is where its `listIdx` says
(`Located`), and as long as no list was overrun a place names nothing else, but
for the places a loop of the shutdown has passed, which name what it deleted
(`PlacesRight`; both are `ListsAreLive`, theorem `ListsHoldTheLive`); `DeleteAllThread` has joined all threads above the place it
is at (`Joined`); mutual exclusion, with what an adder has read still the sum
(`LockInv`); and the sum is the number of additions made, counted as a set of
pairs so that no recursion is needed (`SumInv`). `SumExact` then counts the
additions of the threads that succeeded.

**RtTui.** `RowsInvariant` proves `RowsInv`. `SetterInv`: only the row being set
differs in label and text, and its setter either writes the buffer to be written
or had loaded the index before the swap, in which case the row is in `late`.
`DueInv`: what was set whole since the swap is in the buffer to write, whose flag
is up, and what is due is in the buffer to draw. `DrawnInv`: what has been drawn
is what is in the buffer, or newer. The order of the code's stores carries the
proof: data before the flag, the index before the flag is cleared, and the
cleared flag is that of the buffer which is drawn (`FramesAreFresh`,
`TornOnlyAtSwap`).

`ViewInvariant` proves the invariant of the view. `QueueInv`: the TUI's queue holds
the messages after those that were drained, in order. `Holds`: the ring holds, in
order from the head on, the newest of those drained, so that overwriting the place
at the head drops the oldest (`NewestMessagesKept`). `FrameInv` relates the last
frame to the scroll offset: each message drained while the view is paused moves the
offset by one, up to the oldest line (`PausedViewStands`). The drain is a recursive
function, so what it does to the ring is shown for one message and carried to all
by induction. `LayoutsReached` counts the steps from any layout round the end of
those that are defined.

**Outputs.** Four invariants, one for each part, proved side by side.

- `StdoutInvariant` proves `SinkInv`: what got out is in order and older than what
  the buffer holds, and the buffer holds every byte since its oldest that was not
  cut, whatever part of it `write` takes and whatever `AppendData` discards at its
  front (`StdoutKeepsNewest`).
- `TuiOutputInvariant` proves `OutputInv`: until a write fails, screen and buffer
  are one sequence in order, no byte of it is beyond what was put together of
  the newest frame, and all the text of that frame is in it unless a part was cut
  off; for `snprintf` a text that fills the room is cut, its last byte is the zero.
  Whether a write failed or not, the buffer holds nothing of an earlier frame
  while a frame is put together (`ScreenKeepsOrder`). What is on the screen after
  a failed write is not claimed to be in order: the code writes a part of the
  buffer again (section 5).
- `McapInvariant` proves `McapInv`: the messages are in order over the files and
  the chunk after every outcome of `Rotate`, also when renaming or writing stops
  half-way; the count `_current_file_size` covers the payload of file 0, which
  bounds the payload of every file (`RotatorKeepsMessages`), not its size: see
  section 5. Each operation is shown to keep this for all the disks it may leave;
  the actions compose them.
- `StreamInvariant` proves `StreamInv`: the buffer is a sequence of runs in order
  that adds up to `m_pos` and leaves room for the zero. A piece is safe when it is
  whole, marked, or the text ends within three bytes of the end. Each helper keeps
  what was safe safe and makes safe the piece it is given; once an element of a
  vector does not fit, its mark stands for all that follow. A buffer with a safe
  piece is not empty, or has no room for any, so the destructor submits it; a
  statement that has not submitted has no entry, so that is the only one
  (`LossesAreMarked`). Statements with `printf` or `format` of `LOG` and
  `LOG_NAMED` are exempt: what they stream is dropped (section 5).

`TypesCorrect` puts the four together: no buffer is overrun.

Sums and loops over sequences are recursive functions (`TextSize`, `Size`,
`Elements`, `Stored`, `DrainUpTo`). The library's induction principle takes an
operator the provers cannot instantiate, so induction is stated for sets: a set
that holds 0 and with each number its successor holds all natural numbers, as
their order is well-founded (`NatSetInduction`). That each of these functions
exists, and so satisfies its own equation, is proved the same way.

Assumptions: the named `ASSUME` of each module, which TLC evaluates on every
run: positive capacities and bounds, capacity dividing the modulus, distinct
special values, disjoint finite sets of threads, semaphores and
mutexes.

**Only model-checked**: liveness, which the prover does not do: `EveryEntryPopped`,
`SyncReturns`, `TerminateReturns`, `EntriesGetOut`, `StatesDelivered`, the
`StopReturns` of publisher and subscriber, `Reconnects`, `CallsEnd`, `StopsReturn`
and `ShutdownEnds`. In these an abort by gRPC counts as the end of a `Stop`, and a
response found in the wrong state as the end of a call: what they show is that
nothing waits for ever. Every safety property of a passing run is a theorem.

## 5. Findings

1. `rtlog_sync`: the drain thread acknowledges a `Sync` that came, with its
   entries, after it last looked at the queue (dtRtLog.cpp:643).
2. `state_pub_stop`: `Stop` passes a session whose client has just connected,
   or connects before the server shuts down; nothing cancels that call, and
   `Shutdown` waits for the client to leave (dtStatePublisherGrpc.hpp:233).

Met while modelling, without a run of their own.

Logger and sinks:
- a ring of one slot, which the `static_assert` of dtLogQueue.hpp:28 admits,
  accepts a second entry when it is full (line 93);
- `SetLogPattern` between `set_pattern("%v")` and the log call of
  `FlushContLines` gives a continuation a prefix (dtRtLog.cpp:812);
- the file sink keeps `maxFiles` rotated files beside the base file
  (dtRtLog.hpp:612), where README.md:35 calls `maxFiles` the "max log file
  number", and rotates an empty file away for a message above the maximum size
  (line 464);
- `m_dropCount`, "the true number of lost entries" of dtRtLog.cpp:819, also
  counts a line that was printed when the `set_pattern` behind it throws (line
  814, `overcounted`), and misses the chunks that find `m_contBuf` full (line 704);
- `printf` of a log stream is described as "printf-style append into the stream
  buffer" (dtRtLog.hpp:1005); it submits an entry of its own, and so does
  `format`; the destructor then drops what was streamed, without a mark;
- a part longer than the whole buffer of the stdout sink is cut.

gRPC:
- the dispatcher of the publisher may be about to request a client or to write
  when the completion queue is closed, and aborts (`NewSession`,
  `WrittenAborts`); its sessions are never removed, as `WAIT_FINISH` is never
  entered;
- `Stop` of the subscriber posts `Finish` with a read under way
  (dtStateSubscriberGrpc.hpp:273), where gRPC wants it alone; and the dispatcher
  leaves with one of them outstanding (`left`), so that the completion queue is
  destroyed without being drained, as gRPC asks, and the session perhaps while
  the read still has its `_msg`;
- in `WAIT_FINISH` the subscriber's dispatcher takes the completion of that read
  for that of `Finish` (line 245), drops its message and leaves;
- a subscriber stopped while its call has not been seen to start may read on a
  queue that is shut down, with the same end (`app = "aborted"`, only if
  `early`);
- the listener, too, may ask for a call or answer on a closed queue and be
  aborted (`ConnectedAborts`, `InsertAndFinish`), for a call whose client hung up
  before `Stop`: `Shutdown` does not wait for it, and its handler is still to run;
- the constructor of the example's call posts `Finish` before it stores
  `WAIT_FINISH` (example_grpc_service_caller.cpp:26, 27); a response in between
  runs into the `ABSL_ASSERT` of line 55, and in a release build is not handled
  (`outcome` is then "invalid");
- a session of the listener that is over before `AddSession` enters it stays in
  the table (dtServiceListenerGrpc.hpp:170).

TUI and MCAP:
- after a write error "remaining bytes" are to be discarded (dtRtTui.cpp:994);
  `m_outPos = written` (line 1005) keeps those that were written, at the front of
  the buffer, and they are written again;
- when a text of `SafeSnprintf` fills the room left, its last byte is the
  terminating zero, which is sent to the terminal (dtRtTui.hpp:279);
- keys 1 to 9 are documented to select layouts (dtRtTui.hpp:34, 114); only `[`
  and `]` do, and `[` also when a cursor key's sequence is split over two reads;
- the flag of a buffer may be left up by a setter that loaded the old index: the
  next swap then shows older rows; rows set once vanish with the next swap; a new
  row appears one frame late, as the height comes from the buffer drawn last; two
  setters race on `nrows`; a cleared screen is forgotten if the terminal is full;
  messages are lost when the TUI's queue is full, and the last ones before
  `Terminate` are not drawn;
- the rotator compares `_max_file_size` with the payloads it counts
  (dtDataSinkPBMcapRotator.hpp:54-57); header, schema, channel, records and index
  come on top, so that files grow beyond the "file maximum size" of RELEASE.md:171;
  a write that fails leaves a part of a chunk in the file, and only a log line;
- the constructor of the MCAP rotator ignores `truncate`, and
  `throw("..." + ..., errno)` throws the `int`.

Threads and helpers:
- `DeleteAllThread` never clears the list although its comment says so
  (threadImp.h:148, threadImp.cpp:303-322); `threadNum` has no lock and
  `threadList[32]` no check; deleting an object that was never created empties
  place 0; a thread whose attribute cannot be destroyed runs unlisted; two waiters
  of one semaphore are posted once;
- `Watchdog` is used by two threads in its example, on an `int`: a reset
  between the load and the store of a decrement is lost.

## 6. Not modelled

- Of `RtLog`: named loggers (`Create` and the overloads with a logger's name),
  `LogRaw`, the readers of statistics, a failing `pthread_join`, two threads in
  `Initialize` or `Terminate` at once, data races on `shared_ptr` and
  `std::string` (outside a model whose steps are atomic). The lines that
  `Initialize`, `Terminate` and `DeleteThread` log are those of any thread.
- Of the streams: the operators for Eigen and dt::Math types, which format like
  a vector. The syslog sink, which keeps no state.
- Of the MCAP sink: the bytes of the format, hence the size of a file, and what a
  reader makes of a file with a message cut off.
- Of `FileSink`: the endless retry when `write` returns 0 with `errno` left at
  `EINTR`.
- Of the publisher: `Publish` during the destructor, failing mutex and thread
  creation. Of the gRPC classes in general: failing creation of threads and
  servers.
- Of `RtTui`: more than one group of one layout with rows, two setters of one
  layout at once, colours, columns and borders.
- Of the threads: affinity, priorities and stack sizes; creation and deletion by
  several threads, which nothing in the code makes safe; what happens after a list
  is overrun; two waiters of one semaphore.
- `Watchdog`: a counter whose one hazard is in section 5.
- The DAQ registries, the eCAL and HDF5 adapters, the legacy logger, the
  helpers and dtProto: filled at start-up, sequential, pure I/O or generated;
  each has its reason in `PROJECT.json`.

## 7. What is left

1. The composition of `StatePublisher` and `StateSubscriber` through the writes
   of one call, in place of `Connect`, `Disconnect` and `WriteDone`, refining
   `StateStream` end to end.
2. `FileSink` and `StdoutSink` in place of the abstract sinks of `RtLog`, and
   `RtTui` ticked by its `Poll`.
3. Two kinds of session in `service`, and two setters in `tui`, both of which
   multiply the states beyond what a run can hold with their liveness or with
   the view; the view could become a run of its own.
4. Named loggers, and a monitor thread that reads the statistics while the ring
   is in use.
