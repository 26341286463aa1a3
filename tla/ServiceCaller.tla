---------------------------- MODULE ServiceCaller ----------------------------
(***************************************************************************)
(* ServiceCallerGrpc: a client that makes asynchronous calls.  StartCall   *)
(* constructs a call, whose constructor starts the RPC with the call as    *)
(* tag and then sets _call_state; only then is the call entered in the     *)
(* table.  The dispatcher may handle the response at any moment in         *)
(* between.  The calls behave as OnQueryRobotInfo of the example does.     *)
(***************************************************************************)
EXTENDS Naturals

CONSTANT MaxCalls    (* bound on the calls started                         *)

VARIABLES
  state,      (* _call_state of each call, "none" when not constructed     *)
  calls,      (* the keys of _calls                                        *)
  main,       (* where the application's thread is                         *)
  rpc,        (* where the dispatcher is, and with which call              *)
  waiting,    (* gRPC: the calls whose Finish is not completed             *)
  cancelled,  (* gRPC: the calls cancelled by Stop                         *)
  cq,         (* gRPC: the calls whose Finish is completed, not taken out  *)
  down,       (* gRPC: the completion queue is shut down                   *)
  outcome     (* history: what the handler did with the response           *)

vars == <<state, calls, main, rpc, waiting, cancelled, cq, down, outcome>>

Ids == 1..MaxCalls
At(at, c) == [at |-> at, of |-> c]

Init ==
  /\ state = [c \in Ids |-> "none"] /\ calls = {}
  /\ main = At("idle", 0) /\ rpc = At("next", 0)
  /\ waiting = {} /\ cancelled = {} /\ cq = {} /\ down = FALSE
  /\ outcome = [c \in Ids |-> "none"]

(* The constructor of the call: StartCall and Finish.                      *)
StartCall(c) ==
  /\ main.at = "idle" /\ state[c] = "none" /\ \A d \in 1..(c - 1) : state[d] # "none"
  /\ state' = [state EXCEPT ![c] = "WAIT_CONNECT"]
  /\ waiting' = waiting \union {c}
  /\ main' = At("started", c)
  /\ UNCHANGED <<calls, rpc, cancelled, cq, down, outcome>>

(* Its last statement that matters.                                        *)
WaitFinish ==
  /\ main.at = "started"
  /\ state' = [state EXCEPT ![main.of] = "WAIT_FINISH"]
  /\ main' = At("insert", main.of)
  /\ UNCHANGED <<calls, rpc, waiting, cancelled, cq, down, outcome>>

InsertCall ==
  /\ main.at = "insert"
  /\ calls' = calls \union {main.of}
  /\ main' = At("idle", 0)
  /\ UNCHANGED <<state, rpc, waiting, cancelled, cq, down, outcome>>

(* Stop cancels every call in the table, whatever its state.               *)
StopCalls ==
  /\ main.at = "idle"
  /\ cancelled' = cancelled \union calls
  /\ main' = At("queue", 0)
  /\ UNCHANGED <<state, calls, rpc, waiting, cq, down, outcome>>

(* Mutant: Stop waits for the dispatcher without closing the queue.        *)
StopQueueOpen ==
  /\ main.at = "queue"
  /\ main' = At("join", 0)
  /\ UNCHANGED <<state, calls, rpc, waiting, cancelled, cq, down, outcome>>

StopQueue ==
  /\ main.at = "queue"
  /\ down' = TRUE
  /\ main' = At("join", 0)
  /\ UNCHANGED <<state, calls, rpc, waiting, cancelled, cq, outcome>>

Join ==
  /\ main.at = "join" /\ rpc.at = "exited"
  /\ main' = At("stopped", 0)
  /\ UNCHANGED <<state, calls, rpc, waiting, cancelled, cq, down, outcome>>

(* gRPC completes Finish of a call, always as ok: the status tells.        *)
Respond(c) ==
  /\ c \in waiting
  /\ waiting' = waiting \ {c} /\ cq' = cq \union {c}
  /\ UNCHANGED <<state, calls, main, rpc, cancelled, down, outcome>>

(* OnCompletionEvent returns false whether or not the state is valid.      *)
OnCompletionEvent(c) ==
  /\ rpc.at = "next" /\ c \in cq
  /\ cq' = cq \ {c}
  /\ IF state[c] = "WAIT_FINISH"
     THEN /\ state' = [state EXCEPT ![c] = "FINISHED"]
          /\ outcome' = [outcome EXCEPT ![c] = "handled"]
     ELSE /\ outcome' = [outcome EXCEPT ![c] = "invalid"]
          /\ UNCHANGED state
  /\ rpc' = At("remove", c)
  /\ UNCHANGED <<calls, main, waiting, cancelled, down>>

RemoveCall ==
  /\ rpc.at = "remove"
  /\ calls' = calls \ {rpc.of}
  /\ rpc' = At("next", 0)
  /\ UNCHANGED <<state, main, waiting, cancelled, cq, down, outcome>>

QueueDrained ==
  /\ rpc.at = "next" /\ down /\ cq = {} /\ waiting = {}
  /\ rpc' = At("exited", 0)
  /\ UNCHANGED <<state, calls, main, waiting, cancelled, cq, down, outcome>>

-----------------------------------------------------------------------------
Dispatcher == RemoveCall \/ QueueDrained \/ \E c \in Ids : OnCompletionEvent(c)
Starting   == WaitFinish \/ InsertCall
Stop       == StopQueue \/ Join
=============================================================================
