--------------------------- MODULE ServiceListener ---------------------------
(***************************************************************************)
(* ServiceListenerGrpc: a server that handles calls of several kinds of    *)
(* service.  A session stands for one call; it is made before the call     *)
(* arrives and asks gRPC for the next call of its kind.  The application's *)
(* thread adds the first session of each kind and stops the server, the    *)
(* dispatcher handles the completions and adds the next session of a kind  *)
(* when one is connected.  AddSession constructs the session, which starts *)
(* its request, before it locks the table and enters it.                   *)
(*                                                                         *)
(* The sessions behave as OnControlCmd and OnQueryRobotInfo of the         *)
(* example do; what gRPC does is modelled from the calls.                  *)
(***************************************************************************)
EXTENDS Naturals, FiniteSets

CONSTANTS
  Kinds,         (* the kinds of session the application adds              *)
  MaxSessions    (* bound on the sessions constructed                      *)

VARIABLES
  kind,       (* the kind of each session, "none" when not constructed     *)
  state,      (* _call_state of each session                               *)
  sessions,   (* the keys of _sessions                                     *)
  main,       (* where the application's thread is, and with which session *)
  rpc,        (* where the dispatcher is, and with which session           *)
  request,    (* gRPC: the sessions that wait for a call                   *)
  call,       (* gRPC: the call of a session                               *)
  finish,     (* gRPC: the sessions whose Finish is not completed          *)
  cq,         (* gRPC: the completions not yet taken out                   *)
  down,       (* gRPC: what is shut down, "server" and "cq"                *)
  over        (* history: the sessions whose handler returned false        *)

grpcVars == <<request, call, finish, cq, down>>
vars == <<kind, state, sessions, main, rpc, grpcVars, over>>

Ids == 1..MaxSessions
At(at, s) == [at |-> at, of |-> s]
Idle == [at |-> "next", of |-> 0, new |-> 0]
Done(s, ok) == [of |-> s, ok |-> ok]
Constructed == {s \in Ids : kind[s] # "none"}
New == CHOOSE n \in 1..(MaxSessions + 1) : Constructed = 1..(n - 1)

Init ==
  /\ kind = [s \in Ids |-> "none"] /\ state = [s \in Ids |-> "none"]
  /\ sessions = {}
  /\ main = At("idle", 0) /\ rpc = Idle
  /\ request = {} /\ call = [s \in Ids |-> "none"] /\ finish = {}
  /\ cq = {} /\ down = {} /\ over = {}

(* The constructor of a session asks for a call with the session as tag:   *)
(* a server that is shut down refuses at once.                             *)
Construct(k, queue) ==
  /\ kind' = [kind EXCEPT ![New] = k]
  /\ state' = [state EXCEPT ![New] = "WAIT_CONNECT"]
  /\ IF "server" \in down THEN cq' = queue \union {Done(New, FALSE)} /\ UNCHANGED request
                          ELSE cq' = queue /\ request' = request \union {New}

-----------------------------------------------------------------------------
(* The application: AddSession for each kind, then Stop.                   *)

AddSession(k) ==
  /\ main.at = "idle" /\ New \in Ids
  /\ ~\E s \in Ids : kind[s] = k
  /\ Construct(k, cq)
  /\ main' = At("insert", New)
  /\ UNCHANGED <<sessions, rpc, call, finish, down, over>>

InsertSession ==
  /\ main.at = "insert"
  /\ sessions' = sessions \union {main.of}
  /\ main' = At("idle", 0)
  /\ UNCHANGED <<kind, state, rpc, grpcVars, over>>

(* TryCancelCallAndShutdown leaves these states alone.                     *)
Cancels(s) == state[s] \notin {"WAIT_CONNECT", "WAIT_FINISH", "FINISHED"}

StopSessions ==
  /\ main.at = "idle"
  /\ state' = [s \in Ids |-> IF s \in sessions /\ Cancels(s) THEN "FINISHED" ELSE state[s]]
  /\ main' = At("server", 0)
  /\ UNCHANGED <<kind, sessions, rpc, grpcVars, over>>

(* Shutdown of the server refuses the requests and waits for the calls     *)
(* that are there; one the client dropped is not waited for.               *)
StopServer ==
  /\ main.at = "server"
  /\ down' = down \union {"server"}
  /\ request' = {}
  /\ cq' = cq \union {Done(s, FALSE) : s \in request}
  /\ main' = At("calls", 0)
  /\ UNCHANGED <<kind, state, sessions, rpc, call, finish, over>>

(* Mutant: Shutdown does not wait for the calls.                           *)
ServerNotWaitedFor == TRUE

ServerIsDown == \A s \in Ids : call[s] # "open"

StopQueue ==
  /\ main.at = "calls" /\ ServerIsDown
  /\ down' = down \union {"cq"}
  /\ main' = At("join", 0)
  /\ UNCHANGED <<kind, state, sessions, rpc, request, call, finish, cq, over>>

(* pthread_join; Stop then finds the queue drained.                        *)
Join ==
  /\ main.at = "join" /\ rpc.at = "exited"
  /\ main' = At("stopped", 0)
  /\ UNCHANGED <<kind, state, sessions, rpc, grpcVars, over>>

-----------------------------------------------------------------------------
(* The dispatcher: the loop of Run, OnCompletionEvent of the sessions.     *)

(* The queue refuses operations when it is shut down and has none left;    *)
(* gRPC then aborts the program.                                           *)
QueueClosed == "cq" \in down /\ request = {} /\ finish = {}
Aborts(s) ==
  /\ rpc' = [at |-> "aborted", of |-> s, new |-> 0]
  /\ main' = At("aborted", 0)

(* WAIT_FINISH, or no call will come: the handler returns false.           *)
Over(s, ok) ==
  /\ rpc.at = "next" /\ Done(s, ok) \in cq
  /\ state[s] = "WAIT_FINISH" \/ (state[s] = "WAIT_CONNECT" /\ ~ok)
  /\ cq' = cq \ {Done(s, ok)}
  /\ over' = over \union {s}
  /\ rpc' = [at |-> "remove", of |-> s, new |-> 0]
  /\ UNCHANGED <<kind, state, sessions, main, request, call, finish, down>>

(* Mutant: The handler adds no session for the next call.                  *)
ConnectedOnce(s) ==
  /\ state[s] = "WAIT_CONNECT"
  /\ rpc.at = "next" /\ Done(s, TRUE) \in cq
  /\ cq' = cq \ {Done(s, TRUE)}
  /\ rpc' = [at |-> "insert", of |-> s, new |-> s]
  /\ UNCHANGED <<kind, state, sessions, main, request, call, finish, down, over>>

(* A call came: the next session of the kind is added first.               *)
Connected(s) ==
  /\ state[s] = "WAIT_CONNECT"
  /\ rpc.at = "next" /\ Done(s, TRUE) \in cq /\ New \in Ids /\ ~QueueClosed
  /\ Construct(kind[s], cq \ {Done(s, TRUE)})
  /\ rpc' = [at |-> "insert", of |-> s, new |-> New]
  /\ UNCHANGED <<sessions, main, call, finish, down, over>>

(* The constructor of the next session asks the closed queue for a call.   *)
ConnectedAborts(s) ==
  /\ state[s] = "WAIT_CONNECT"
  /\ rpc.at = "next" /\ Done(s, TRUE) \in cq /\ QueueClosed
  /\ cq' = cq \ {Done(s, TRUE)}
  /\ Aborts(s)
  /\ UNCHANGED <<kind, state, sessions, request, call, finish, down, over>>

(* Mutant: AddSession does not enter the session.                          *)
FinishOnly ==
  /\ rpc.at = "insert"
  /\ state' = [state EXCEPT ![rpc.of] = "WAIT_FINISH"]
  /\ finish' = finish \union {rpc.of}
  /\ rpc' = Idle
  /\ UNCHANGED <<kind, sessions, main, request, call, cq, down, over>>

(* Mutant: The handler forgets Finish.                                     *)
InsertOnly ==
  /\ rpc.at = "insert"
  /\ sessions' = sessions \union {rpc.new}
  /\ state' = [state EXCEPT ![rpc.of] = "WAIT_FINISH"]
  /\ rpc' = Idle
  /\ UNCHANGED <<kind, main, grpcVars, over>>

(* The new session is entered and the response is given to Finish.         *)
InsertAndFinish ==
  /\ rpc.at = "insert"
  /\ sessions' = sessions \union {rpc.new}
  /\ state' = [state EXCEPT ![rpc.of] = "WAIT_FINISH"]
  /\ IF QueueClosed
     THEN Aborts(rpc.of) /\ UNCHANGED finish
     ELSE finish' = finish \union {rpc.of} /\ rpc' = Idle /\ UNCHANGED main
  /\ UNCHANGED <<kind, request, call, cq, down, over>>

RemoveSession ==
  /\ rpc.at = "remove"
  /\ sessions' = sessions \ {rpc.of}
  /\ rpc' = Idle
  /\ UNCHANGED <<kind, state, main, grpcVars, over>>

QueueDrained ==
  /\ rpc.at = "next" /\ "cq" \in down
  /\ cq = {} /\ request = {} /\ finish = {}
  /\ rpc' = [Idle EXCEPT !.at = "exited"]
  /\ UNCHANGED <<kind, state, sessions, main, grpcVars, over>>

-----------------------------------------------------------------------------
(* What gRPC and the clients do.                                           *)

(* A call of the kind arrives.  The bound leaves a number for every        *)
(* session that is still to be added.                                      *)
ToCome ==
  Cardinality({s \in Ids : call[s] # "none" /\ state[s] = "WAIT_CONNECT"})
    + Cardinality({k \in Kinds : \A s \in Ids : kind[s] # k})
Accept(s) ==
  /\ s \in request /\ New + ToCome \in Ids
  /\ request' = request \ {s}
  /\ call' = [call EXCEPT ![s] = "open"]
  /\ cq' = cq \union {Done(s, TRUE)}
  /\ UNCHANGED <<kind, state, sessions, main, rpc, finish, down, over>>

(* The client cancels or the connection breaks.                            *)
HangUp(s) ==
  /\ call[s] = "open"
  /\ call' = [call EXCEPT ![s] = "dead"]
  /\ UNCHANGED <<kind, state, sessions, main, rpc, request, finish, cq, down, over>>

FinishDone(s) ==
  /\ s \in finish
  /\ finish' = finish \ {s}
  /\ cq' = cq \union {Done(s, call[s] = "open")}
  /\ call' = [call EXCEPT ![s] = "over"]
  /\ UNCHANGED <<kind, state, sessions, main, rpc, request, down, over>>

-----------------------------------------------------------------------------
Dispatcher ==
  \/ \E s \in Ids : Connected(s) \/ ConnectedAborts(s) \/ \E ok \in BOOLEAN : Over(s, ok)
  \/ InsertAndFinish \/ RemoveSession \/ QueueDrained
Adding  == InsertSession \/ \E k \in Kinds : AddSession(k)
Stop    == StopServer \/ StopQueue \/ Join
=============================================================================
