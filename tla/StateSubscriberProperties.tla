---------------------- MODULE StateSubscriberProperties ----------------------
(***************************************************************************)
(* What StateSubscriber should satisfy.                                    *)
(***************************************************************************)
EXTENDS StateSubscriber

(* Every variable has its type.                                            *)
TypeOK ==
  /\ state \in {"WAIT_START", "WAIT_READ_DONE", "WAIT_FINISH", "FINISHED"}
  /\ running \in BOOLEAN /\ final \in BOOLEAN /\ early \in BOOLEAN /\ down \in BOOLEAN
  /\ app \in {"create", "spawn", "idle", "cancel", "shutdown", "join", "gone", "aborted"}
  /\ rpc \in {"none", "next", "event", "handler", "cancel", "leave", "exited", "aborted"}
  /\ event \in Events \union {Nothing} /\ cq \subseteq Events
  /\ handled \in Seq(States) /\ sent \in Seq(States)
  /\ published \in 0..MaxStates /\ left \subseteq Ops
  /\ call \in {"none", "starting", "open", "dead"}
  /\ pending \in [Ops -> 0..1]

(* All completions carry the same tag and two threads may cancel: still,   *)
(* no operation is started twice on a call, and the dispatcher takes a     *)
(* completion for what it is, a start in WAIT_START and a read in          *)
(* WAIT_READ_DONE.  gRPC wants Finish alone: a read is under way with it   *)
(* only when Stop posted it, and none is started after it.  Stop shuts the *)
(* queue down while the dispatcher may be at work: an operation is started *)
(* on the closed queue, which ends the process, only if Stop came before   *)
(* the dispatcher saw the call start.  The dispatcher always meets an      *)
(* event to leave by, and leaves at the first that is no success, without  *)
(* draining the queue: of the operations of the call one at most is left   *)
(* to be destroyed with the session, never its start.                      *)
Completions(op) == {e \in cq \union {event} : e.op = op}
OneOfEach ==
  \A op \in Ops : /\ pending[op] = 1 => Completions(op) = {}
                  /\ \A e, f \in Completions(op) : e = f
Outstanding(op) == pending[op] = 1 \/ Completions(op) # {}
ReadComesNext ==
  rpc = "handler" \/ (rpc = "event" /\ state \in {"WAIT_START", "WAIT_READ_DONE"})
CallContract ==
  /\ OneOfEach
  /\ rpc = "event" /\ state = "WAIT_START" => event.op = "start"
  /\ rpc = "event" /\ state = "WAIT_READ_DONE" => event.op = "read"
  /\ Outstanding("finish") /\ Outstanding("read") => app \notin {"spawn", "idle", "cancel"}
  /\ ReadComesNext => ~Outstanding("finish")
  /\ app = "aborted" => early
  /\ rpc = "next" => ~NoEventComes
  /\ left \in {{}, {"read"}, {"finish"}}

(* The handler sees published states, once each and in order, across any   *)
(* number of reconnections: the session is joined before the next begins.  *)
Stream == INSTANCE StateStream
ImplementsStateStream == Stream!Spec

(* IsRunning is what the example's reconnector goes by: while no stop is   *)
(* under way, _running is false exactly when the dispatcher has left.      *)
RunningTellsExit == app = "idle" => (running <=> rpc # "exited")

(* A lost connection does not stay lost: dispatcher, reconnector and gRPC  *)
(* bring the call back, until the subscriber is destroyed.                 *)
Reconnects == []<>(call = "open" \/ app \in {"gone", "aborted"})

(* Reconnect and the destructor return: the dispatcher is never left       *)
(* waiting for a completion that does not come.                            *)
StopReturns == app = "cancel" ~> app \in {"create", "gone", "aborted"}

-----------------------------------------------------------------------------
(* The invariant that is inductive, in parts.                              *)

(* Where the two threads are.  Once the queue is to be shut down, only a   *)
(* stop that came early leaves a state in which operations are started.    *)
Active == app \notin {"create", "gone", "aborted"}
PhaseInv ==
  /\ rpc = "none" => app \in {"create", "spawn"}
  /\ app = "spawn" => rpc = "none"
  /\ app \in {"create", "gone"} => rpc \in {"none", "exited"}
  /\ rpc = "aborted" <=> app = "aborted"
  /\ app \in {"spawn", "idle", "cancel", "shutdown"} => ~down
  /\ Active => (running <=> rpc # "exited")
  /\ app \in {"shutdown", "join"} /\ state \in {"WAIT_START", "WAIT_READ_DONE"} => early
  /\ app = "aborted" => early
  /\ rpc = "event" => event # Nothing /\ event.ok
  /\ rpc \notin {"event", "cancel"} => event = Nothing
  /\ rpc = "handler" => state = "WAIT_READ_DONE"

(* Which operations are outstanding: _call_state tells, as all completions *)
(* carry the same tag; and the dispatcher never waits for none.            *)
TokenInv ==
  /\ OneOfEach /\ event \notin cq
  /\ Outstanding("start") => state = "WAIT_START"
  /\ Outstanding("read") => state # "WAIT_START" /\ rpc # "handler"
  /\ Outstanding("finish") => state \in {"WAIT_FINISH", "FINISHED"}
  /\ Outstanding("finish") /\ Outstanding("read") => app \notin {"spawn", "idle", "cancel"}
  /\ app = "spawn" => state = "WAIT_START" /\ Outstanding("start")
  /\ rpc = "next" => \/ state = "WAIT_START" /\ Outstanding("start")
                     \/ state = "WAIT_READ_DONE" /\ Outstanding("read")
                     \/ state = "WAIT_FINISH" /\ Outstanding("finish")

(* What is left when the dispatcher leaves: it has taken the completion of *)
(* one of the operations, or it came to a call that had only the start.    *)
LeavesAtMostOne == ~Outstanding("start") /\ ~(Outstanding("finish") /\ Outstanding("read"))
LeftInv ==
  /\ rpc = "cancel" => \/ event = Nothing /\ state = "FINISHED" /\ LeavesAtMostOne
                       \/ event \in Events /\ (state = "WAIT_READ_DONE" => event.op = "read")
  /\ rpc \in {"leave", "exited"} => state # "WAIT_READ_DONE" /\ LeavesAtMostOne
  /\ left \in {{}, {"read"}, {"finish"}}

(* What was handled, what was read and what is on its way are in order.    *)
Last == IF handled = <<>> THEN 0 ELSE handled[Len(handled)]
StreamInv ==
  /\ Last \in 0..published
  /\ \A i \in DOMAIN sent : Last < sent[i] /\ sent[i] <= published
  /\ \A i, j \in DOMAIN sent : i < j => sent[i] < sent[j]
  /\ \A e \in Completions("read") : e.ok =>
       Last < e.m /\ e.m <= published /\ \A i \in DOMAIN sent : e.m < sent[i]

SubInv == TypeOK /\ PhaseInv /\ TokenInv /\ LeftInv /\ StreamInv
=============================================================================
