------------------------- MODULE ServiceRpcProperties -------------------------
(***************************************************************************)
(* What the two ends of a service call should satisfy, alone and together. *)
(***************************************************************************)
EXTENDS ServiceRpc

(* Every variable has its type, and the sessions are numbered.             *)
Places == {"idle", "insert", "server", "calls", "join", "stopped", "aborted"}
Spots  == {"next", "insert", "remove", "exited", "aborted"}
Numbered == \E n \in 1..(MaxSessions + 1) : L!Constructed = 1..(n - 1)
ListenerTypeOK ==
  /\ lkind \in [L!Ids -> Kinds \union {"none"}]
  /\ lstate \in [L!Ids -> {"none", "WAIT_CONNECT", "WAIT_FINISH", "FINISHED"}]
  /\ lcall \in [L!Ids -> {"none", "open", "dead", "over"}]
  /\ sessions \in SUBSET L!Ids /\ request \in SUBSET L!Ids /\ finish \in SUBSET L!Ids
  /\ lmain \in [at : Places, of : 0..MaxSessions]
  /\ lrpc \in [at : Spots, of : 0..MaxSessions, new : 0..MaxSessions]
  /\ lcq \in SUBSET [of : L!Ids, ok : BOOLEAN] /\ ldown \in SUBSET {"server", "cq"}
  /\ Numbered
CallerTypeOK ==
  /\ cstate \in [C!Ids -> {"none", "WAIT_CONNECT", "WAIT_FINISH", "FINISHED"}]
  /\ calls \in SUBSET C!Ids /\ waiting \in SUBSET C!Ids /\ ccq \in SUBSET C!Ids
  /\ cmain.of \in 0..MaxCalls /\ crpc.of \in 0..MaxCalls

(* The service never goes deaf: until Stop, a kind that was added has a    *)
(* session that asked for a call and whose call, if one came, is still to  *)
(* be handled.                                                             *)
Asking == request \union {e.of : e \in lcq}
Welcoming ==
  lmain.at \in {"idle", "insert"} =>
    \A k \in Kinds : (\E s \in L!Ids : lkind[s] = k)
                       => \E s \in Asking : lkind[s] = k /\ lstate[s] = "WAIT_CONNECT"

(* Stop cancels what it finds in the table: everything gRPC still works on *)
(* is there, or is the one the thread in AddSession or StartCall is about  *)
(* to enter.                                                               *)
PendingInTable ==
  /\ request \union finish \subseteq sessions \union {lmain.of, lrpc.new}
  /\ waiting \subseteq calls \union {cmain.of}

(* Shutdown of the server waits for the calls that are there before Stop   *)
(* shuts the queue down: what the dispatcher still handles then is a call  *)
(* its client has dropped.  Only such a call can make it ask or answer on  *)
(* the queue when that is closed, where gRPC aborts the program; while the *)
(* client is there, the handler of its call never does.                    *)
Dropped(s) == lcall[s] = "dead"
LateOnlyIfDropped ==
  /\ lrpc.at = "aborted" => Dropped(lrpc.of)
  /\ "cq" \in ldown =>
       /\ request = {} /\ \A s \in finish : Dropped(s)
       /\ lrpc.at = "insert" => Dropped(lrpc.of)
       /\ \A e \in lcq : e.ok /\ lstate[e.of] = "WAIT_CONNECT" => Dropped(e.of)

(* Every call that is started comes to an end at the client, handled or    *)
(* found in the wrong state, whatever the server and the connection do.    *)
CallsEnd == \A c \in C!Ids : cstate[c] # "none" ~> outcome[c] # "none"

(* Stop returns at both ends, also when calls are under way, unless gRPC   *)
(* aborts the server for a dropped call.                                   *)
StopsReturn ==
  /\ lmain.at = "server" ~> lmain.at \in {"stopped", "aborted"}
  /\ cmain.at = "queue" ~> cmain.at = "stopped"

-----------------------------------------------------------------------------
(* The invariant that is inductive, in parts.                              *)

(* A session is named by one of the request, the completion, the Finish    *)
(* and the dispatcher.                                                     *)
PlacesInv ==
  /\ lmain.at = "insert" <=> lmain.of # 0
  /\ lrpc.at \in {"insert", "remove", "aborted"} <=> lrpc.of # 0
  /\ lrpc.at = "insert" <=> lrpc.new # 0
TokensInv ==
  /\ \A s \in request : s \notin finish /\ lrpc.of # s /\ \A e \in lcq : e.of # s
  /\ \A s \in finish : lrpc.of # s /\ \A e \in lcq : e.of # s
  /\ \A e \in lcq : lrpc.of # e.of /\ \A f \in lcq : e.of = f.of => e = f
NamedInv ==
  \A s \in Asking \union finish \union ({lmain.of, lrpc.of, lrpc.new} \ {0}) : lkind[s] # "none"

(* What is named is in the table, or about to be entered.                  *)
TableInv ==
  \A s \in Asking \union finish : s \in sessions \union {lmain.of, lrpc.new}
TakenInv ==
  lrpc.at = "insert" => lrpc.of \in sessions \union {lmain.of}

(* A session that has been connected has a call until it is answered, and  *)
(* the server waits for the calls that are there.                          *)
HasCall(s) == lcall[s] \in {"open", "dead"}
CallsInv ==
  /\ \A s \in finish : HasCall(s) /\ lstate[s] = "WAIT_FINISH"
  /\ lrpc.at \in {"insert", "aborted"} => HasCall(lrpc.of)
  /\ \A e \in lcq : lstate[e.of] = "WAIT_CONNECT" =>
       IF e.ok THEN HasCall(e.of) ELSE "server" \in ldown
DownInv ==
  /\ "server" \in ldown => request = {} /\ lmain.at \notin {"idle", "insert", "server"}
  /\ lmain.at = "calls" => "server" \in ldown
  /\ "cq" \in ldown => "server" \in ldown /\ \A s \in L!Ids : lcall[s] # "open"
  /\ lrpc.at = "aborted" => "cq" \in ldown

ListenerInv ==
  /\ ListenerTypeOK /\ PlacesInv /\ TokensInv /\ NamedInv /\ TableInv /\ TakenInv
  /\ CallsInv /\ DownInv /\ Welcoming

(* A call is named by one of gRPC, the completion and the dispatcher.      *)
CallerInv ==
  /\ CallerTypeOK
  /\ cmain.at \in {"started", "insert"} <=> cmain.of # 0
  /\ crpc.at # "remove" => crpc.of = 0
  /\ waiting \intersect ccq = {} /\ crpc.of \notin waiting \union ccq
  /\ \A c \in waiting \union ccq \union {crpc.of, cmain.of} : c # 0 => cstate[c] # "none"
  /\ waiting \subseteq calls \union {cmain.of}
=============================================================================
