--------------------------- MODULE StatePublisher ---------------------------
(***************************************************************************)
(* StatePublisherGrpc: one thread publishes the states of a topic to every *)
(* connected client, and a dispatcher thread handles the completions that  *)
(* gRPC puts in the completion queue.  Each client has a session with a    *)
(* queue of its own, and one further session waits for the next client.    *)
(*                                                                         *)
(* The two threads share the sessions: _session_mtx protects the table     *)
(* _sessions, and _proc_mtx the state of one session, but _call_state is   *)
(* read before _proc_mtx is locked.  What gRPC does (accept a client,      *)
(* complete an operation, fail, shut down) is modelled from the calls.     *)
(*                                                                         *)
(* A state is its number in the order of publication.                      *)
(***************************************************************************)
EXTENDS Integers, Sequences, FiniteSets

CONSTANTS
  MaxSessions,   (* bound on the sessions constructed                      *)
  MaxMessages,   (* bound on the states published                          *)
  QueueSizes     (* the values of queue_size, negative for no limit        *)

ASSUME StatePublisherAssumption ==
  /\ MaxSessions \in Nat \ {0}
  /\ MaxMessages \in Nat
  /\ QueueSizes \subseteq Int /\ QueueSizes # {}

VARIABLES
  queueSize,   (* _msg_queue_size                                          *)
  sessions,    (* the keys of _sessions                                    *)
  state,       (* _call_state of each session                              *)
  queue,       (* _msg_queue of each session                               *)
  published,   (* the number of states published                           *)
  app,         (* where the publishing thread is                           *)
  left,        (* the sessions its loop over _sessions has not visited     *)
  rpc,         (* where the dispatcher is, and with which session          *)
  requested,   (* gRPC: the sessions with a request for a client           *)
  writes,      (* gRPC: the states given to Write and not completed        *)
  wire,        (* gRPC: the states sent to the client                      *)
  call,        (* gRPC: the call of a session, "none", "open" or "dead"    *)
  cq,          (* gRPC: the completions not yet taken out                  *)
  down         (* gRPC: what is shut down, "server" and "cq"               *)

sessionVars == <<sessions, state, queue>>
appVars     == <<published, app, left>>
grpcVars    == <<requested, writes, wire, call, cq, down>>
vars == <<queueSize, sessionVars, appVars, rpc, grpcVars>>

Ids     == 1..MaxSessions
States  == 1..MaxMessages
Idle    == [at |-> "next", of |-> 0]
Created == {s \in Ids : state[s] # "none"}
Newest  == Cardinality(Created)

(* The constructor makes the first session before it starts the thread.    *)
Init ==
  /\ queueSize \in QueueSizes
  /\ sessions = {1}
  /\ state = [s \in Ids |-> IF s = 1 THEN "WAIT_CONNECT" ELSE "none"]
  /\ queue = [s \in Ids |-> <<>>]
  /\ published = 0 /\ app = "idle" /\ left = {}
  /\ rpc = Idle
  /\ requested = {1}
  /\ writes = [s \in Ids |-> <<>>]
  /\ wire = [s \in Ids |-> <<>>]
  /\ call = [s \in Ids |-> "none"]
  /\ cq = {} /\ down = {}

Enter(s, st) == state' = [state EXCEPT ![s] = st]

Goto(at, s) == rpc' = [at |-> at, of |-> s]

(* The thread that iterates over _sessions holds _session_mtx.             *)
SessionMutexFree == app \notin {"publish", "cancel"}

(* A completion queue that is shut down takes no further operation once    *)
(* none is pending: gRPC aborts the process that starts one.               *)
QueueClosed == "cq" \in down /\ requested = {} /\ \A s \in Ids : writes[s] = <<>>

(* Write serializes the state and leaves a completion to wait for.         *)
Write(s, m) == writes' = [writes EXCEPT ![s] = Append(@, m)]

-----------------------------------------------------------------------------
(* What gRPC does, as the code relies on it.                               *)

(* A client calls the service: the session that waits gets it.  The bound  *)
(* leaves a number for the session that AddSession makes next.             *)
Connect(s) ==
  /\ s \in requested /\ Newest < MaxSessions
  /\ requested' = requested \ {s}
  /\ call' = [call EXCEPT ![s] = "open"]
  /\ cq' = cq \union {[of |-> s, ok |-> TRUE]}
  /\ UNCHANGED <<queueSize, sessionVars, appVars, rpc, writes, wire, down>>

(* The client cancels or dies, or the connection breaks.                   *)
Disconnect(s) ==
  /\ call[s] = "open"
  /\ call' = [call EXCEPT ![s] = "dead"]
  /\ UNCHANGED <<queueSize, sessionVars, appVars, rpc, requested, writes, wire, cq, down>>

(* A write on an open call succeeds, one on a dead call fails.             *)
WriteDone(s) ==
  /\ writes[s] # <<>>
  /\ writes' = [writes EXCEPT ![s] = Tail(@)]
  /\ \/ /\ call[s] = "open"
        /\ wire' = [wire EXCEPT ![s] = Append(@, Head(writes[s]))]
        /\ cq' = cq \union {[of |-> s, ok |-> TRUE]}
     \/ /\ call[s] = "dead"
        /\ cq' = cq \union {[of |-> s, ok |-> FALSE]}
        /\ UNCHANGED wire
  /\ UNCHANGED <<queueSize, sessionVars, appVars, rpc, requested, call, down>>

-----------------------------------------------------------------------------
(* The dispatcher: the loop of Run.                                        *)

Take(s, ok) ==
  /\ rpc = Idle
  /\ [of |-> s, ok |-> ok] \in cq
  /\ cq' = cq \ {[of |-> s, ok |-> ok]}
  /\ UNCHANGED <<queueSize, sessionVars, appVars, requested, writes, wire, down>>

OnConnected(s) ==
  /\ Take(s, TRUE)
  /\ state[s] = "WAIT_CONNECT"
  /\ Goto("construct", s)
  /\ UNCHANGED call

OnWritten(s) ==
  /\ Take(s, TRUE)
  /\ state[s] = "WAIT_WRITE_DONE"
  /\ Goto("written", s)
  /\ UNCHANGED call

(* WAIT_FINISH is never entered, and the other states ignore completions.  *)
OnOther(s) ==
  /\ Take(s, TRUE)
  /\ state[s] \notin {"WAIT_CONNECT", "WAIT_WRITE_DONE"}
  /\ UNCHANGED <<rpc, call>>

Cancellable(s) == state[s] \notin {"WAIT_CONNECT", "FINISHED"}

TryCancel(s) == call' = [call EXCEPT ![s] = IF @ = "open" THEN "dead" ELSE @]

OnFailed(s) ==
  /\ Take(s, FALSE)
  /\ IF Cancellable(s)
     THEN TryCancel(s) /\ Goto("finish", s)
     ELSE UNCHANGED <<rpc, call>>

Finish ==
  /\ rpc.at = "finish"
  /\ Enter(rpc.of, "FINISHED")
  /\ rpc' = Idle
  /\ UNCHANGED <<queueSize, sessions, queue, appVars, grpcVars>>

(* AddSession constructs a session, which requests the next client.  The   *)
(* request fails when the server is down.                                  *)
NewSession ==
  /\ rpc.at = "construct"
  /\ IF QueueClosed
     THEN Goto("aborted", rpc.of) /\ UNCHANGED <<state, requested, cq>>
     ELSE /\ Goto("insert", rpc.of)
          /\ Enter(Newest + 1, "WAIT_CONNECT")
          /\ IF "server" \in down
             THEN /\ cq' = cq \union {[of |-> Newest + 1, ok |-> FALSE]}
                  /\ UNCHANGED requested
             ELSE requested' = requested \union {Newest + 1} /\ UNCHANGED cq
  /\ UNCHANGED <<queueSize, sessions, queue, appVars, writes, wire, call, down>>

AddSession ==
  /\ rpc.at = "insert"
  /\ SessionMutexFree
  /\ sessions' = sessions \union {Newest}
  /\ Goto("ready", rpc.of)
  /\ UNCHANGED <<queueSize, state, queue, appVars, grpcVars>>

ReadyToWrite ==
  /\ rpc.at = "ready"
  /\ Enter(rpc.of, "READY_TO_WRITE")
  /\ rpc' = Idle
  /\ UNCHANGED <<queueSize, sessions, queue, appVars, grpcVars>>

(* Mutant: the newest state in the queue is written first.                 *)
WriteNextNewest(s) ==
  /\ Write(s, queue[s][Len(queue[s])])
  /\ queue' = [queue EXCEPT ![s] = SubSeq(@, 1, Len(@) - 1)]

WriteNext(s) ==
  /\ Write(s, Head(queue[s]))
  /\ queue' = [queue EXCEPT ![s] = Tail(@)]

(* Mutant: the queue waits for the next call of Publish.                   *)
WrittenOnly ==
  /\ rpc.at = "written"
  /\ Enter(rpc.of, "READY_TO_WRITE")
  /\ rpc' = Idle
  /\ UNCHANGED <<queueSize, sessions, queue, appVars, grpcVars>>

(* With _proc_mtx: the next state in the queue, or nothing to write.       *)
Written ==
  /\ rpc.at = "written"
  /\ queue[rpc.of] # <<>> => ~QueueClosed
  /\ IF queue[rpc.of] # <<>>
     THEN WriteNext(rpc.of) /\ Enter(rpc.of, "WAIT_WRITE_DONE")
     ELSE Enter(rpc.of, "READY_TO_WRITE") /\ UNCHANGED <<queue, writes>>
  /\ rpc' = Idle
  /\ UNCHANGED <<queueSize, sessions, appVars, requested, wire, call, cq, down>>

WrittenAborts ==
  /\ rpc.at = "written"
  /\ queue[rpc.of] # <<>> /\ QueueClosed
  /\ Goto("aborted", rpc.of)
  /\ UNCHANGED <<queueSize, sessionVars, appVars, grpcVars>>

(* Next returns false when the queue is shut down and drained.             *)
Drained == QueueClosed /\ cq = {}

Exit ==
  /\ rpc = Idle /\ Drained
  /\ Goto("exited", 0)
  /\ UNCHANGED <<queueSize, sessionVars, appVars, grpcVars>>

-----------------------------------------------------------------------------
(* The publishing thread.                                                  *)

Publish ==
  /\ app = "idle" /\ published < MaxMessages
  /\ published' = published + 1
  /\ app' = "publish" /\ left' = sessions
  /\ UNCHANGED <<queueSize, sessionVars, rpc, grpcVars>>

(* Mutant: a full queue keeps what it holds.                               *)
EnqueueKeepsOldest(s) ==
  queue' = [queue EXCEPT ![s] =
    IF queueSize > 0 /\ Len(@) >= queueSize THEN @ ELSE Append(@, published)]

(* A full queue loses its oldest state.                                    *)
Enqueue(s) ==
  queue' = [queue EXCEPT ![s] =
    Append(IF queueSize > 0 /\ Len(@) >= queueSize THEN Tail(@) ELSE @, published)]

WriteNow(s) ==
  /\ state[s] = "READY_TO_WRITE"
  /\ Enter(s, "WAIT_WRITE_DONE")
  /\ Write(s, published)
  /\ UNCHANGED queue

WriteLater(s) ==
  /\ state[s] = "WAIT_WRITE_DONE"
  /\ IF queueSize = 0 THEN UNCHANGED queue ELSE Enqueue(s)
  /\ UNCHANGED <<state, writes>>

(* Session::Publish, with _proc_mtx.                                       *)
PublishTo(s) ==
  /\ app = "publish" /\ s \in left
  /\ left' = left \ {s}
  /\ \/ WriteNow(s)
     \/ WriteLater(s)
     \/ /\ state[s] \notin {"READY_TO_WRITE", "WAIT_WRITE_DONE"}
        /\ UNCHANGED <<state, queue, writes>>
  /\ UNCHANGED <<queueSize, sessions, published, app, rpc, requested, wire, call, cq, down>>

Published ==
  /\ app = "publish" /\ left = {}
  /\ app' = "idle"
  /\ UNCHANGED <<queueSize, sessionVars, published, left, rpc, grpcVars>>

(* The destructor.                                                         *)
Stop ==
  /\ app = "idle"
  /\ app' = "cancel" /\ left' = sessions
  /\ UNCHANGED <<queueSize, sessionVars, published, rpc, grpcVars>>

(* TryCancelCallAndShutdown, up to the lock of _proc_mtx.  The loop stays  *)
(* at a session it cancels until it has entered FINISHED.                  *)
StopCancels(s) ==
  /\ app = "cancel" /\ s \in left
  /\ Cancellable(s) /\ call[s] # "dead"
  /\ TryCancel(s)
  /\ UNCHANGED <<queueSize, sessionVars, appVars, rpc, requested, writes, wire, cq, down>>

StopFinishes(s) ==
  /\ app = "cancel" /\ s \in left
  /\ call[s] = "dead" \/ ~Cancellable(s)
  /\ left' = left \ {s}
  /\ IF Cancellable(s) THEN Enter(s, "FINISHED") ELSE UNCHANGED state
  /\ UNCHANGED <<queueSize, sessions, queue, published, app, rpc, grpcVars>>

(* Shutdown of the server fails the requests for clients.                  *)
StopServer ==
  /\ app = "cancel" /\ left = {}
  /\ app' = "shutdown"
  /\ down' = {"server"}
  /\ requested' = {}
  /\ cq' = cq \union [of : requested, ok : {FALSE}]
  /\ UNCHANGED <<queueSize, sessionVars, published, left, rpc, writes, wire, call>>

(* Mutant: the completion queue is not shut down.                          *)
StopQueueForgotten ==
  /\ app = "shutdown"
  /\ \A s \in Ids : call[s] # "open"
  /\ app' = "join"
  /\ UNCHANGED <<queueSize, sessionVars, published, left, rpc, grpcVars>>

(* It returns when no call is open; then the completion queue follows.     *)
StopQueue ==
  /\ app = "shutdown"
  /\ \A s \in Ids : call[s] # "open"
  /\ app' = "join"
  /\ down' = down \union {"cq"}
  /\ UNCHANGED <<queueSize, sessionVars, published, left, rpc, requested, writes, wire, call, cq>>

Stopped ==
  /\ app = "join" /\ rpc.at = "exited"
  /\ app' = "stopped"
  /\ UNCHANGED <<queueSize, sessionVars, published, left, rpc, grpcVars>>

-----------------------------------------------------------------------------
TryCancelCallAndShutdown(s) == StopCancels(s) \/ StopFinishes(s)

OnCompletionEvent(s) == OnConnected(s) \/ OnWritten(s) \/ OnOther(s)

Dispatch ==
  \/ \E s \in Ids : OnCompletionEvent(s) \/ OnFailed(s)
  \/ Finish \/ NewSession \/ AddSession \/ ReadyToWrite \/ Written \/ WrittenAborts \/ Exit

Application ==
  \/ Publish \/ Published \/ \E s \in Ids : PublishTo(s)
  \/ Stop \/ StopServer \/ StopQueue \/ Stopped
  \/ \E s \in Ids : TryCancelCallAndShutdown(s)

Network == \E s \in Ids : Connect(s) \/ Disconnect(s) \/ WriteDone(s)

Next == Dispatch \/ Application \/ Network

Spec == Init /\ [][Next]_vars

(* The two threads run, and gRPC completes what it was given.  Clients     *)
(* come and go as they like, and the application need not publish or stop. *)
Fairness ==
  /\ WF_vars(Dispatch)
  /\ WF_vars(Application /\ app # "idle")
  /\ \A s \in Ids : WF_vars(WriteDone(s))

FairSpec == Spec /\ Fairness

=============================================================================
