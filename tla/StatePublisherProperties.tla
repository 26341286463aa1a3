---------------------- MODULE StatePublisherProperties ----------------------
(***************************************************************************)
(* What the publisher owes to its clients and to the thread that stops it. *)
(***************************************************************************)
EXTENDS StatePublisher

Events == [of : Ids, ok : BOOLEAN]

Completions(s) == {e \in cq : e.of = s}

(* The writes of a session that the dispatcher has not dealt with.         *)
Outstanding(s) ==
  Len(writes[s])
  + (IF state[s] = "WAIT_CONNECT" THEN 0 ELSE Cardinality(Completions(s)))
  + (IF rpc.of = s /\ rpc.at \in {"written", "finish", "aborted"} THEN 1 ELSE 0)

(* What a client has got and is still to get, if it stays.                 *)
Stream(s) == (wire[s] \o writes[s]) \o queue[s]

Serving(s) == state[s] \in {"READY_TO_WRITE", "WAIT_WRITE_DONE"}

SessionsOK ==
  /\ state \in [Ids -> {"none", "WAIT_CONNECT", "READY_TO_WRITE", "WAIT_WRITE_DONE", "FINISHED"}]
  /\ Newest \in Ids /\ Created = 1..Newest
  /\ sessions \subseteq Created /\ left \subseteq sessions /\ requested \subseteq Created

QueuesOK ==
  /\ queueSize \in QueueSizes
  /\ queue \in [Ids -> Seq(States)]
  /\ \A s \in Ids : queueSize >= 0 => Len(queue[s]) <= queueSize

ThreadsOK ==
  /\ published \in 0..MaxMessages
  /\ app \in {"idle", "publish", "cancel", "shutdown", "join", "stopped"}
  /\ rpc \in [at : {"next", "construct", "insert", "ready", "written", "finish", "aborted", "exited"},
              of : Ids \union {0}]

GrpcOK ==
  /\ writes \in [Ids -> Seq(States)]
  /\ wire \in [Ids -> Seq(States)]
  /\ call \in [Ids -> {"none", "open", "dead"}]
  /\ cq \subseteq Events
  /\ down \subseteq {"server", "cq"}

TypeOK == SessionsOK /\ QueuesOK /\ ThreadsOK /\ GrpcOK

(* gRPC allows one write at a time per call.  A session that waits for its *)
(* write to be done has one under way, so it is never stuck, and a session *)
(* that is ready has none.                                                 *)
OneWrite ==
  \A s \in Ids :
    /\ Outstanding(s) <= 1
    /\ state[s] = "WAIT_WRITE_DONE" => Outstanding(s) = 1
    /\ state[s] = "READY_TO_WRITE" => Outstanding(s) = 0

(* Each client gets the states in the order of publication, none twice.    *)
StreamInOrder ==
  \A s \in Ids : \A i, j \in 1..Len(Stream(s)) : i < j => Stream(s)[i] < Stream(s)[j]

(* The newest state that the session s may have got.                       *)
Current(s) == IF app = "publish" /\ s \in left THEN published - 1 ELSE published

Consecutive(q) == \A i \in 1..(Len(q) - 1) : q[i + 1] = q[i] + 1

(* A session with a queue, a client that listens, and a state sent to it.  *)
Owed(s) == queueSize # 0 /\ Serving(s) /\ call[s] = "open" /\ Stream(s) # <<>>

Kept(s) ==
  /\ Stream(s)[Len(Stream(s))] = Current(s)
  /\ Consecutive(queue[s])
  /\ queueSize < 0 => Consecutive(Stream(s))

(* A client that is served never misses the newest state, unless there is  *)
(* no queue: a full queue drops its oldest one.  With no limit on the      *)
(* queue, it misses none since it began, and with a limit what waits is an *)
(* unbroken stretch.                                                       *)
NewestKept == \A s \in Ids : Owed(s) => Kept(s)

(* Until the server is shut down there is always exactly one session for   *)
(* the next client: gRPC has its request, or its client has just come and  *)
(* the session after it is not constructed yet.                            *)
Welcoming ==
  {s \in Ids : /\ state[s] = "WAIT_CONNECT"
              /\ \/ s \in requested
                 \/ [of |-> s, ok |-> TRUE] \in cq
                 \/ rpc = [at |-> "construct", of |-> s]}

OneWelcoming == down = {} => Cardinality(Welcoming) = 1

-----------------------------------------------------------------------------
(* The inductive invariant.  Each session has one token at most: a request *)
(* for a client, a write under way, a completion, or the dispatcher's      *)
(* attention.  rpc.of is 0 when the dispatcher has no session.             *)
TokenAt(s) ==
  /\ Len(writes[s]) <= 1
  /\ \A e, f \in Completions(s) : e = f
  /\ writes[s] # <<>> => Completions(s) = {} /\ rpc.of # s /\ s \notin requested
  /\ Completions(s) # {} => rpc.of # s /\ s \notin requested
  /\ rpc.of = s => s \notin requested

(* What the state of a session says of its token, and of its queue.        *)
StateAt(s) ==
  /\ state[s] = "none" =>
       writes[s] = <<>> /\ Completions(s) = {} /\ rpc.of # s /\ s \notin requested
  /\ state[s] = "WAIT_CONNECT" => writes[s] = <<>>
  /\ state[s] = "READY_TO_WRITE" =>
       writes[s] = <<>> /\ Completions(s) = {} /\ rpc.of # s
  /\ state[s] = "WAIT_WRITE_DONE" =>
       writes[s] # <<>> \/ Completions(s) # {} \/ rpc.of = s
  /\ state[s] \in {"none", "WAIT_CONNECT", "READY_TO_WRITE"} => queue[s] = <<>>
  /\ s \in requested => state[s] = "WAIT_CONNECT"
  /\ rpc.of = s =>
       \/ rpc.at \in {"construct", "insert", "ready"} /\ state[s] = "WAIT_CONNECT"
       \/ rpc.at \in {"written", "finish"} /\ state[s] \in {"WAIT_WRITE_DONE", "FINISHED"}
       \/ rpc.at = "aborted" /\ state[s] \in {"WAIT_CONNECT", "WAIT_WRITE_DONE", "FINISHED"}

TokenInv == \A s \in Ids : TokenAt(s) /\ StateAt(s)

(* Sessions are constructed one after the other, each when the client of   *)
(* the one before has come, and only the newest waits.                     *)
NewestInv ==
  /\ state[Newest] = "WAIT_CONNECT"
  /\ rpc.at \in {"insert", "ready"} => rpc.of + 1 = Newest
  /\ \A s \in Ids : state[s] = "WAIT_CONNECT" =>
       s = Newest \/ (rpc.of = s /\ rpc.at \in {"insert", "ready"})
  /\ rpc.at = "construct" \/ [of |-> Newest, ok |-> TRUE] \in cq => Newest < MaxSessions
  /\ down = {} => Newest \in Welcoming /\ [of |-> Newest, ok |-> FALSE] \notin cq
  /\ rpc.at \in {"next", "exited"} <=> rpc.of = 0

(* Each of the three parts of a stream is in order, and so are the parts.  *)
Below(q, r) == \A i \in 1..Len(q), j \in 1..Len(r) : q[i] < r[j]

Increasing(q) == \A i, j \in 1..Len(q) : i < j => q[i] < q[j]

UpTo(q, n) == \A i \in 1..Len(q) : q[i] <= n

StreamAt(s) ==
  /\ Increasing(wire[s]) /\ Increasing(writes[s]) /\ Increasing(queue[s])
  /\ Below(wire[s], writes[s]) /\ Below(wire[s], queue[s]) /\ Below(writes[s], queue[s])
  /\ UpTo(wire[s], Current(s)) /\ UpTo(writes[s], Current(s)) /\ UpTo(queue[s], Current(s))

StreamInv == \A s \in Ids : StreamAt(s)

AppInv ==
  /\ app = "publish" => published > 0
  /\ app \in {"idle", "publish", "cancel"} => down = {}

PubInv == TypeOK /\ TokenInv /\ NewestInv /\ StreamInv /\ AppInv

(* The strengthening of NewestKept: a session begins with nothing sent,    *)
(* the loop of Publish visits each session that has been served, and a     *)
(* session that Written brings back from FINISHED has no client.           *)
ServedInv ==
  /\ \A s \in Ids : state[s] \in {"none", "WAIT_CONNECT"} => wire[s] = <<>>
  /\ \A s \in Ids : state[s] = "FINISHED" => call[s] # "open"
  /\ rpc.at = "finish" => call[rpc.of] # "open"
  /\ Created \ {Newest} \subseteq sessions
  /\ rpc.at # "insert" => Newest \in sessions

KeptInv == NewestKept /\ ServedInv

-----------------------------------------------------------------------------
(* A state that waits in the queue of a client gets to the client, without *)
(* any further call of Publish, unless the call dies, or newer states push *)
(* it out of a limited queue.                                              *)
StatesDelivered ==
  \A s \in Ids : \A m \in States :
    (\E i \in 1..Len(queue[s]) : queue[s][i] = m) /\ queueSize < 0
      ~> (\E i \in 1..Len(wire[s]) : wire[s][i] = m) \/ call[s] = "dead"

(* Once Stop has begun and no client's call is open, Stop returns, unless  *)
(* the dispatcher has aborted: it was about to request a client or to      *)
(* write when the completion queue closed.                                 *)
StopReturns ==
  app = "shutdown" /\ (\A s \in Ids : call[s] # "open")
    ~> app = "stopped" \/ rpc.at = "aborted"

-----------------------------------------------------------------------------
(* "Stop all pending rpc calls and close sessions": when the loop of Stop  *)
(* is through, no call is open, as the shutdown of the server waits for    *)
(* the calls that are.                                                     *)
StopCancelsAll ==
  app = "shutdown" => \A s \in Ids : call[s] # "open"

=============================================================================
