--------------------------- MODULE StateSubscriber ---------------------------
(***************************************************************************)
(* StateSubscriberGrpc: a subscriber of a topic has one session at a time, *)
(* which is one streaming call with a completion queue and a dispatcher    *)
(* thread of its own.  The application stops the session when it           *)
(* reconnects or destroys the subscriber, and waits for the dispatcher.    *)
(*                                                                         *)
(* All completions carry the session as their tag: the dispatcher knows    *)
(* what completed only from _call_state.  What gRPC and the publisher do   *)
(* is modelled from the calls.  A state is its number in the order of      *)
(* publication.                                                            *)
(***************************************************************************)
EXTENDS Naturals, Sequences

CONSTANT MaxStates   (* bound on the states published                      *)

ASSUME StateSubscriberAssumption == MaxStates \in Nat

VARIABLES
  state,       (* _call_state                                              *)
  running,     (* _running                                                 *)
  app,         (* where the application's thread is                        *)
  final,       (* the session is stopped by the destructor                 *)
  early,       (* history: Stop came before the call was seen to start     *)
  rpc,         (* where the dispatcher is                                  *)
  event,       (* the completion it has taken                              *)
  handled,     (* the states given to _msg_handler                         *)
  left,        (* history: what the last session started and left behind   *)
  published,   (* the publisher: the number of states published            *)
  call,        (* gRPC: the call, "none", "starting", "open" or "dead"     *)
  sent,        (* gRPC: the states on their way to the subscriber          *)
  pending,     (* gRPC: how many of each operation are not completed       *)
  cq,          (* gRPC: the completions not yet taken out                  *)
  down         (* gRPC: the completion queue is shut down                  *)

sessionVars == <<state, running, rpc, event, handled>>
grpcVars    == <<call, sent, pending, cq, down>>
vars == <<app, final, early, published, left, sessionVars, grpcVars>>

States  == 1..MaxStates
Ops     == {"start", "read", "finish"}
Done(op, ok, m) == [op |-> op, ok |-> ok, m |-> m]
Nothing == Done("none", FALSE, 0)
Events  == [op : Ops, ok : BOOLEAN, m : 0..MaxStates]
NoOps   == [op \in Ops |-> 0]

(* The subscriber is constructed: its first session is about to begin.     *)
Init ==
  /\ state = "WAIT_START" /\ running = FALSE
  /\ app = "create" /\ final = FALSE /\ early = FALSE
  /\ rpc = "none" /\ event = Nothing /\ handled = <<>>
  /\ published = 0 /\ left = {}
  /\ call = "none" /\ sent = <<>> /\ pending = NoOps /\ cq = {} /\ down = FALSE

(* A completion queue that is shut down takes no further operation once    *)
(* none is pending: gRPC aborts the process that starts one.               *)
QueueClosed == down /\ pending = NoOps

(* The handler runs with _call_mtx locked.                                 *)
CallMutexFree == rpc # "handler"

Post(op) == pending' = [pending EXCEPT ![op] = @ + 1]

Complete(op, ok, m) ==
  /\ pending' = [pending EXCEPT ![op] = @ - 1]
  /\ cq' = cq \union {Done(op, ok, m)}

-----------------------------------------------------------------------------
(* What the publisher and gRPC do, as the code relies on it.               *)

(* A state is published; an open call may get it or miss it.               *)
Publish ==
  /\ published < MaxStates
  /\ published' = published + 1
  /\ \/ call = "open" /\ sent' = Append(sent, published + 1)
     \/ UNCHANGED sent
  /\ UNCHANGED <<app, final, early, left, sessionVars, call, pending, cq, down>>

StartSucceeds ==
  /\ pending["start"] > 0 /\ call = "starting"
  /\ call' = "open"
  /\ Complete("start", TRUE, 0)
  /\ UNCHANGED <<app, final, early, published, left, sessionVars, sent, down>>

(* The publisher is not there, or the call is cancelled: a cancelled call  *)
(* may still report its start as a success.                                *)
StartFails ==
  /\ pending["start"] > 0
  /\ call' = "dead"
  /\ \E ok \in BOOLEAN : (ok => call = "dead") /\ Complete("start", ok, 0)
  /\ UNCHANGED <<app, final, early, published, left, sessionVars, sent, down>>

(* The publisher stops or the connection breaks.                           *)
Break ==
  /\ call = "open"
  /\ call' = "dead"
  /\ UNCHANGED <<app, final, early, published, left, sessionVars, sent, pending, cq, down>>

(* A read gets the next state, or fails when the call is dead.             *)
ReadDone ==
  /\ pending["read"] > 0
  /\ \/ /\ sent # <<>>
        /\ Complete("read", TRUE, Head(sent)) /\ sent' = Tail(sent)
     \/ /\ call = "dead"
        /\ Complete("read", FALSE, 0) /\ UNCHANGED sent
  /\ UNCHANGED <<app, final, early, published, left, sessionVars, call, down>>

FinishDone ==
  /\ pending["finish"] > 0 /\ call = "dead"
  /\ Complete("finish", TRUE, 0)
  /\ UNCHANGED <<app, final, early, published, left, sessionVars, call, sent, down>>

-----------------------------------------------------------------------------
(* TryCancelCallAndShutdown, under _call_mtx.                              *)

(* Mutant: Finish again although it was started.                           *)
CanFinishTwice == state # "WAIT_START"

CanFinish == state \notin {"WAIT_START", "WAIT_FINISH", "FINISHED"}

(* Mutant: Cancel forgets TryCancel: Finish waits for the publisher.       *)
TryCancelCallForgotten == UNCHANGED call

TryCancelCall == call' = "dead"

TryCancelCallAndShutdown(then) ==
  /\ CallMutexFree
  /\ TryCancelCall
  /\ IF CanFinish THEN state' = "WAIT_FINISH" /\ Post("finish")
                  ELSE UNCHANGED <<state, pending>>
  /\ app' = IF CanFinish /\ QueueClosed THEN "aborted" ELSE then
  /\ UNCHANGED <<sent, cq>>

-----------------------------------------------------------------------------
(* The dispatcher: the loop of InitRequest and OnCompletionEvent.          *)

Leave(at) == rpc' = at /\ event' = Nothing

(* Next returns false on a queue that is shut down and drained.  The loop   *)
(* would end, but CallContract shows that it has always ended before.      *)
NoEventComes == QueueClosed /\ cq = {}

NextEvent ==
  /\ rpc = "next"
  /\ \E e \in cq : /\ cq' = cq \ {e} /\ event' = e
                   /\ rpc' = IF e.ok THEN "event" ELSE "cancel"
  /\ UNCHANGED <<app, final, early, published, left, state, running, handled, call, sent, pending, down>>

(* Read on a queue that takes no operation ends the process.               *)
Read ==
  IF QueueClosed THEN app' = "aborted" /\ Leave("aborted") /\ UNCHANGED <<state, pending>>
  ELSE /\ Post("read") /\ state' = "WAIT_READ_DONE"
       /\ Leave("next") /\ UNCHANGED app

Started ==
  /\ rpc = "event" /\ state = "WAIT_START"
  /\ Read
  /\ UNCHANGED <<final, early, published, left, running, handled, call, sent, cq, down>>

GotMessage ==
  /\ rpc = "event" /\ state = "WAIT_READ_DONE"
  /\ handled' = Append(handled, event.m)
  /\ rpc' = "handler" /\ event' = Nothing
  /\ UNCHANGED <<app, final, early, published, left, state, running, grpcVars>>

(* The handler returns, still under _call_mtx.                             *)
HandlerReturns ==
  /\ rpc = "handler"
  /\ Read
  /\ UNCHANGED <<final, early, published, left, running, handled, call, sent, cq, down>>

(* In WAIT_FINISH the event is taken for the completion of Finish.         *)
Finished ==
  /\ rpc = "event" /\ state \notin {"WAIT_START", "WAIT_READ_DONE"}
  /\ state' = "FINISHED" /\ Leave("cancel")
  /\ UNCHANGED <<app, final, early, published, left, running, handled, grpcVars>>

CancelAfterEvent ==
  /\ rpc = "cancel"
  /\ TryCancelCallAndShutdown(app)
  /\ Leave(IF CanFinish /\ QueueClosed THEN "aborted" ELSE "leave")
  /\ UNCHANGED <<final, early, published, left, running, handled, down>>

(* Mutant: The dispatcher leaves without telling.                          *)
DispatcherExitsSilently ==
  /\ rpc = "leave"
  /\ Leave("exited")
  /\ UNCHANGED <<app, final, early, published, left, state, running, handled, grpcVars>>

DispatcherExits ==
  /\ rpc = "leave"
  /\ running' = FALSE /\ Leave("exited")
  /\ UNCHANGED <<app, final, early, published, left, state, handled, grpcVars>>

-----------------------------------------------------------------------------
(* The application: constructor, Reconnect and destructor.                 *)

(* Mutant: One completion queue for all sessions: what is left of the last stays.*)
InitRequestSharedQueue ==
  /\ app = "create"
  /\ state' = "WAIT_START" /\ running' = TRUE /\ rpc' = "none" /\ event' = Nothing
  /\ call' = "starting" /\ sent' = <<>> /\ down' = FALSE
  /\ pending' = [NoOps EXCEPT !["start"] = 1]
  /\ app' = "spawn"
  /\ UNCHANGED <<final, early, published, left, handled, cq>>

(* InitRequest: the call is started before the dispatcher's thread.  The   *)
(* session is a new object: its context, queue and call are its own, what  *)
(* the last one left is in `left`.                                         *)
InitRequest ==
  /\ app = "create"
  /\ state' = "WAIT_START" /\ running' = TRUE /\ rpc' = "none" /\ event' = Nothing
  /\ call' = "starting" /\ sent' = <<>> /\ down' = FALSE
  /\ pending' = [NoOps EXCEPT !["start"] = 1]
  /\ cq' = {}
  /\ app' = "spawn"
  /\ UNCHANGED <<final, early, published, left, handled>>

(* Mutant: The dispatcher's thread is made first, _running is set afterwards.*)
CreateThreadThenRun ==
  /\ app = "spawn"
  /\ running' = TRUE
  /\ \/ rpc = "none" /\ rpc' = "next" /\ UNCHANGED app
     \/ rpc # "none" /\ app' = "idle" /\ UNCHANGED rpc
  /\ UNCHANGED <<final, early, published, left, state, event, handled, grpcVars>>

CreateThread ==
  /\ app = "spawn"
  /\ rpc' = "next" /\ app' = "idle"
  /\ UNCHANGED <<final, early, published, left, state, running, event, handled, grpcVars>>

(* Reconnect, and the destructor, reset the session.                       *)
Reconnect ==
  /\ app = "idle"
  /\ app' = "cancel"
  /\ UNCHANGED <<final, early, published, left, sessionVars, grpcVars>>

Destroy ==
  /\ app = "idle"
  /\ app' = "cancel" /\ final' = TRUE
  /\ UNCHANGED <<early, published, left, sessionVars, grpcVars>>

StopCancel ==
  /\ app = "cancel"
  /\ TryCancelCallAndShutdown("shutdown")
  /\ early' = (state = "WAIT_START")
  /\ UNCHANGED <<final, published, left, running, rpc, event, handled, down>>

StopQueue ==
  /\ app = "shutdown"
  /\ down' = TRUE /\ app' = "join"
  /\ UNCHANGED <<final, early, published, left, sessionVars, call, sent, pending, cq>>

(* pthread_join.  The dispatcher leaves its loop at the first event that   *)
(* is no success, without draining the queue: the session and its queue    *)
(* are destroyed with what is not completed or not taken out.              *)
Unfinished == {op \in Ops : pending[op] > 0 \/ \E e \in cq : e.op = op}
Join ==
  /\ app = "join" /\ rpc = "exited"
  /\ left' = Unfinished
  /\ app' = IF final THEN "gone" ELSE "create"
  /\ UNCHANGED <<final, early, published, sessionVars, grpcVars>>

Dispatcher ==
  \/ NextEvent \/ Started \/ GotMessage \/ HandlerReturns
  \/ Finished \/ CancelAfterEvent \/ DispatcherExits
Grpc == StartSucceeds \/ StartFails \/ ReadDone \/ FinishDone
App  == InitRequest \/ CreateThread \/ StopCancel \/ StopQueue \/ Join

Next ==
  Dispatcher \/ Grpc \/ App \/ Publish \/ Break \/ Reconnect \/ Destroy

Spec == Init /\ [][Next]_vars

(* The threads run, gRPC completes what was started, and the application   *)
(* reconnects when IsRunning is false, as the example's loop does.  The    *)
(* publisher is there again and again while the subscriber keeps trying.   *)
Fairness ==
  /\ WF_vars(Dispatcher)
  /\ WF_vars(StartFails)
  /\ WF_vars(ReadDone)
  /\ WF_vars(FinishDone)
  /\ WF_vars(App)
  /\ WF_vars(~running /\ Reconnect)
  /\ SF_vars(StartSucceeds)

FairSpec == Spec /\ Fairness
=============================================================================
