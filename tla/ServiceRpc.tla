----------------------------- MODULE ServiceRpc ------------------------------
(***************************************************************************)
(* A ServiceCallerGrpc and a ServiceListenerGrpc that talk to each other:  *)
(* the calls the client starts are taken by the sessions of the server,    *)
(* and what a session gives to Finish completes the call.                  *)
(***************************************************************************)
EXTENDS Naturals

CONSTANTS
  Kinds,         (* the kinds of session at the server                     *)
  Asked,         (* the kind of service the client calls                   *)
  MaxSessions,   (* bound on the sessions constructed                      *)
  MaxCalls       (* bound on the calls started                             *)

ASSUME ServiceRpcAssumption ==
  /\ Asked \in Kinds /\ "none" \notin Kinds
  /\ MaxSessions \in Nat /\ MaxCalls \in Nat

VARIABLES
  lkind, lstate, sessions, lmain, lrpc, request, lcall, finish, lcq, ldown, over,
  cstate, calls, cmain, crpc, waiting, cancelled, ccq, cdown, outcome,
  peer           (* which call of the client a session serves, 0 for none  *)

L == INSTANCE ServiceListener WITH
       kind <- lkind, state <- lstate, main <- lmain, rpc <- lrpc,
       call <- lcall, cq <- lcq, down <- ldown
C == INSTANCE ServiceCaller WITH
       state <- cstate, main <- cmain, rpc <- crpc, cq <- ccq, down <- cdown

lvars == <<lkind, lstate, sessions, lmain, lrpc, request, lcall, finish, lcq, ldown, over>>
cvars == <<cstate, calls, cmain, crpc, waiting, cancelled, ccq, cdown, outcome>>
rpcvars == <<lvars, cvars, peer>>

RpcInit == L!Init /\ C!Init /\ peer = [s \in L!Ids |-> 0]

ListenerStep(A) == A /\ UNCHANGED <<cvars, peer>>
CallerStep(A)   == A /\ UNCHANGED <<lvars, peer>>

Serving(c, s) == peer[s] = c /\ lcall[s] = "open"

(* The call of the client reaches a session of its kind.                   *)
Deliver(c, s) ==
  /\ c \in waiting /\ lkind[s] = Asked /\ \A t \in L!Ids : peer[t] # c
  /\ L!Accept(s)
  /\ peer' = [peer EXCEPT ![s] = c]
  /\ UNCHANGED cvars

(* Finish of the session completes the call, when it is still there.       *)
Answer(s) ==
  /\ L!FinishDone(s)
  /\ IF lcall[s] = "open" THEN C!Respond(peer[s]) ELSE UNCHANGED cvars
  /\ UNCHANGED peer

(* The call fails: it was cancelled, the server is not there, the          *)
(* connection breaks.                                                      *)
Fail(c) ==
  /\ C!Respond(c)
  /\ IF \E s \in L!Ids : Serving(c, s)
     THEN \E s \in L!Ids : Serving(c, s) /\ L!HangUp(s)
     ELSE UNCHANGED lvars
  /\ UNCHANGED peer

RpcNext ==
  \/ ListenerStep(L!Dispatcher) \/ ListenerStep(L!Adding) \/ ListenerStep(L!Stop)
  \/ ListenerStep(L!StopSessions)
  \/ CallerStep(C!Dispatcher) \/ CallerStep(C!Starting) \/ CallerStep(C!Stop)
  \/ CallerStep(C!StopCalls)
  \/ \E c \in C!Ids : CallerStep(C!StartCall(c)) \/ Fail(c) \/ \E s \in L!Ids : Deliver(c, s)
  \/ \E s \in L!Ids : Answer(s)

RpcSpec == RpcInit /\ [][RpcNext]_rpcvars

(* The threads run, the server adds its sessions, and gRPC brings a call   *)
(* to a session that waits, or fails it when it is cancelled or the server *)
(* is down.                                                                *)
RpcFairness ==
  /\ WF_rpcvars(ListenerStep(L!Dispatcher)) /\ WF_rpcvars(CallerStep(C!Dispatcher))
  /\ WF_rpcvars(ListenerStep(L!Adding)) /\ WF_rpcvars(CallerStep(C!Starting))
  /\ WF_rpcvars(ListenerStep(L!Stop)) /\ WF_rpcvars(CallerStep(C!Stop))
  /\ \A c \in C!Ids :
       /\ WF_rpcvars(\E s \in L!Ids : Deliver(c, s))
       /\ WF_rpcvars((c \in cancelled \/ "server" \in ldown) /\ Fail(c))
  /\ \A s \in L!Ids : WF_rpcvars(Answer(s))

RpcFairSpec == RpcSpec /\ RpcFairness
=============================================================================
