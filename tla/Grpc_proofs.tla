---------------------------- MODULE Grpc_proofs -----------------------------
(***************************************************************************)
(* Proofs about the clients and servers of gRPC other than the publisher.  *)
(* A ServiceListenerGrpc always has a session that asks for a call, Stop   *)
(* finds in the table what gRPC works on, and nothing is started on a      *)
(* queue that is shut down, for any numbers of kinds, sessions and calls.  *)
(* The subscriber keeps the contract of its gRPC call, hands the states to *)
(* the handler in order and once each, and tells by IsRunning whether the  *)
(* dispatcher runs, for any number of states.                              *)
(***************************************************************************)
EXTENDS ServiceRpcProperties, StateSubscriberProperties, TLAPS

(* What the constants are.                                                 *)
LEMMA Constants ==
  /\ MaxSessions \in Nat /\ MaxCalls \in Nat /\ "none" \notin Kinds
  /\ L!Ids = 1..MaxSessions /\ C!Ids = 1..MaxCalls
  /\ 0 \notin L!Ids /\ 0 \notin C!Ids
BY ServiceRpcAssumption DEF L!Ids, C!Ids

-----------------------------------------------------------------------------
(* The listener.                                                           *)

(* Where no session is constructed, the numbers stay.                      *)
LEMMA SameNumbers == ASSUME Numbered, UNCHANGED lkind PROVE Numbered'
BY DEF Numbered, L!Constructed

(* Asking, when completions are added.                                     *)
LEMMA OfBoth ==
  ASSUME NEW S, NEW T
  PROVE  {e.of : e \in S \union T} = {e.of : e \in S} \union {e.of : e \in T}
OBVIOUS

(* The session of one completion.                                          *)
LEMMA OfDone == ASSUME NEW s, NEW ok PROVE {e.of : e \in {L!Done(s, ok)}} = {s}
BY DEF L!Done

(* The sessions of the requests refused.                                   *)
LEMMA OfRefused == ASSUME NEW S PROVE {e.of : e \in {L!Done(s, FALSE) : s \in S}} = S
<1> DEFINE D(s) == L!Done(s, FALSE)
<1>1. \A s \in S : D(s).of = s
  BY DEF L!Done
<1> HIDE DEF D
<1>2. {e.of : e \in {D(s) : s \in S}} = S
  BY <1>1
<1> QED
  BY <1>2 DEF D

(* The sessions constructed are those before New.                          *)
LEMMA NewIsNext ==
  ASSUME NEW n \in 1..(MaxSessions + 1), L!Constructed = 1..(n - 1) PROVE L!New = n
<1>1. \A m \in 1..(MaxSessions + 1) : 1..(m - 1) = 1..(n - 1) => m = n
  <2> TAKE m \in 1..(MaxSessions + 1)
  <2>1. m \in Nat /\ n \in Nat /\ m >= 1 /\ n >= 1
    BY Constants
  <2>2. CASE m < n
    BY <2>1, <2>2, m \in 1..(n - 1), m \notin 1..(m - 1)
  <2>3. CASE n < m
    BY <2>1, <2>3, n \in 1..(m - 1), n \notin 1..(n - 1)
  <2> QED
    BY <2>1, <2>2, <2>3
<1> QED
  BY <1>1 DEF L!New

(* New is a number, or the one after the last.                             *)
LEMMA NewType ==
  ASSUME ListenerTypeOK
  PROVE  L!New \in 1..(MaxSessions + 1) /\ L!Constructed = 1..(L!New - 1)
<1>1. PICK n \in 1..(MaxSessions + 1) : L!Constructed = 1..(n - 1)
  BY DEF ListenerTypeOK, Numbered
<1> QED
  BY <1>1, NewIsNext

(* A session constructed takes the next number.                            *)
LEMMA Constructs ==
  ASSUME ListenerTypeOK, L!New \in L!Ids, NEW k \in Kinds, NEW queue, L!Construct(k, queue)
  PROVE  \E n \in 1..MaxSessions :
         /\ L!New = n /\ lkind[n] = "none"
         /\ lkind' = [lkind EXCEPT ![n] = k] /\ lkind' \in [L!Ids -> Kinds \union {"none"}]
         /\ lstate' = [lstate EXCEPT ![n] = "WAIT_CONNECT"]
         /\ lstate' \in [L!Ids -> {"none", "WAIT_CONNECT", "WAIT_FINISH", "FINISHED"}]
         /\ Numbered'
         /\ \/ "server" \in ldown /\ request' = request /\ lcq' = queue \union {[of |-> n, ok |-> FALSE]}
            \/ "server" \notin ldown /\ lcq' = queue /\ request' = request \union {n}
<1> DEFINE n == L!New
<1>1. /\ n \in 1..MaxSessions /\ L!Constructed = 1..(n - 1) /\ MaxSessions \in Nat
      /\ lkind \in [L!Ids -> Kinds \union {"none"}] /\ L!Ids = 1..MaxSessions
      /\ lstate \in [L!Ids -> {"none", "WAIT_CONNECT", "WAIT_FINISH", "FINISHED"}]
  BY Constants, NewType DEF ListenerTypeOK
<1>2. lkind' = [lkind EXCEPT ![n] = k] /\ lstate' = [lstate EXCEPT ![n] = "WAIT_CONNECT"]
  BY DEF L!Construct
<1>3. IF "server" \in ldown THEN lcq' = queue \union {L!Done(n, FALSE)} /\ UNCHANGED request
                            ELSE lcq' = queue /\ request' = request \union {n}
  BY DEF L!Construct
<1> HIDE DEF n
<1>4. lkind[n] = "none"
  BY <1>1 DEF L!Constructed
<1>5. L!Constructed' = L!Constructed \union {n}
  BY <1>1, <1>2, Constants DEF L!Constructed
<1>6. L!Constructed' = 1..((n + 1) - 1) /\ n + 1 \in 1..(MaxSessions + 1)
  BY <1>1, <1>5
<1>9. lkind' \in [L!Ids -> Kinds \union {"none"}]
  BY <1>1, <1>2
<1>10. lstate' \in [L!Ids -> {"none", "WAIT_CONNECT", "WAIT_FINISH", "FINISHED"}]
  BY <1>1, <1>2
<1>11. Numbered'
  BY <1>6 DEF Numbered
<1>12. \/ "server" \in ldown /\ request' = request /\ lcq' = queue \union {[of |-> n, ok |-> FALSE]}
       \/ "server" \notin ldown /\ lcq' = queue /\ request' = request \union {n}
  BY <1>3 DEF L!Done
<1>13. L!New = n
  BY DEF n
<1> QED
  BY <1>1, <1>2, <1>4, <1>9, <1>10, <1>11, <1>12, <1>13
(* AddSession enters the session it constructed.                           *)
LEMMA KeepsInsertSession == ASSUME ListenerInv, L!InsertSession PROVE ListenerInv'
<1>1. ListenerTypeOK'
  <2>1. lkind' = lkind /\ lkind \in [L!Ids -> Kinds \union {"none"}] /\ Numbered
    BY Constants DEF ListenerInv, ListenerTypeOK, L!InsertSession, L!At, L!grpcVars
  <2>2. lstate' \in [L!Ids -> {"none", "WAIT_CONNECT", "WAIT_FINISH", "FINISHED"}]
    BY Constants DEF ListenerInv, ListenerTypeOK, L!InsertSession, L!At, L!grpcVars
  <2>3. lcall' \in [L!Ids -> {"none", "open", "dead", "over"}]
    BY Constants DEF ListenerInv, ListenerTypeOK, L!InsertSession, L!At, L!grpcVars
  <2>4. sessions' \in SUBSET L!Ids /\ request' \in SUBSET L!Ids /\ finish' \in SUBSET L!Ids
    <3>1. lmain.of \in L!Ids
      BY Constants DEF ListenerInv, ListenerTypeOK, PlacesInv, L!InsertSession
    <3> QED
      BY <3>1 DEF ListenerInv, ListenerTypeOK, L!InsertSession, L!grpcVars
  <2>5. lmain' \in [at : Places, of : 0..MaxSessions]
    BY Constants DEF Places, ListenerInv, ListenerTypeOK, L!InsertSession, L!At, L!grpcVars
  <2>6. lrpc' \in [at : Spots, of : 0..MaxSessions, new : 0..MaxSessions]
    BY Constants DEF Spots, ListenerInv, ListenerTypeOK, L!InsertSession, L!At, L!grpcVars
  <2>7. lcq' \in SUBSET [of : L!Ids, ok : BOOLEAN]
    BY Constants DEF ListenerInv, ListenerTypeOK, L!InsertSession, L!At, L!grpcVars
  <2>8. ldown' \in SUBSET {"server", "cq"}
    BY Constants DEF ListenerInv, ListenerTypeOK, L!InsertSession, L!At, L!grpcVars
  <2> QED
    BY <2>1, <2>2, <2>3, <2>4, <2>5, <2>6, <2>7, <2>8, SameNumbers DEF ListenerTypeOK
<1>2. PlacesInv'
  BY Constants
  DEF ListenerTypeOK, ListenerInv, PlacesInv, L!InsertSession, L!At, L!grpcVars
<1>3. TokensInv'
  BY Constants
  DEF ListenerTypeOK, PlacesInv, ListenerInv, TokensInv, L!InsertSession, L!At,
      L!grpcVars
<1>4. NamedInv'
  BY Constants
  DEF ListenerTypeOK, TokensInv, PlacesInv, ListenerInv, NamedInv, Asking,
      L!InsertSession, L!At, L!grpcVars
<1>5. TableInv'
  BY Constants
  DEF ListenerTypeOK, TokensInv, PlacesInv, ListenerInv, TableInv, Asking,
      L!InsertSession, L!At, L!grpcVars
<1>6. TakenInv'
  BY Constants
  DEF ListenerTypeOK, TokensInv, PlacesInv, ListenerInv, TakenInv, L!InsertSession,
      L!At, L!grpcVars
<1>7. CallsInv'
  BY Constants
  DEF ListenerTypeOK, TokensInv, PlacesInv, ListenerInv, CallsInv, HasCall,
      L!InsertSession, L!At, L!grpcVars
<1>8. DownInv'
  BY Constants
  DEF ListenerTypeOK, TokensInv, PlacesInv, ListenerInv, DownInv, HasCall,
      L!InsertSession, L!At, L!grpcVars
<1>9. Welcoming'
  BY Constants
  DEF ListenerTypeOK, TokensInv, PlacesInv, ListenerInv, Welcoming, Asking,
      L!InsertSession, L!At, L!grpcVars
<1> QED
  BY <1>1, <1>2, <1>3, <1>4, <1>5, <1>6, <1>7, <1>8, <1>9 DEF ListenerInv

(* Stop walks over the table, which changes no state.                      *)
LEMMA KeepsStopSessions == ASSUME ListenerInv, L!StopSessions PROVE ListenerInv'
<1>1. ListenerTypeOK'
  <2>1. lkind' = lkind /\ lkind \in [L!Ids -> Kinds \union {"none"}] /\ Numbered
    BY Constants
    DEF ListenerInv, ListenerTypeOK, L!StopSessions, L!Cancels, L!At, L!grpcVars
  <2>2. lstate' \in [L!Ids -> {"none", "WAIT_CONNECT", "WAIT_FINISH", "FINISHED"}]
    BY Constants
    DEF ListenerInv, ListenerTypeOK, L!StopSessions, L!Cancels, L!At, L!grpcVars
  <2>3. lcall' \in [L!Ids -> {"none", "open", "dead", "over"}]
    BY Constants
    DEF ListenerInv, ListenerTypeOK, L!StopSessions, L!Cancels, L!At, L!grpcVars
  <2>4. sessions' \in SUBSET L!Ids /\ request' \in SUBSET L!Ids /\ finish' \in SUBSET L!Ids
    BY Constants
    DEF ListenerInv, ListenerTypeOK, L!StopSessions, L!Cancels, L!At, L!grpcVars,
        PlacesInv
  <2>5. lmain' \in [at : Places, of : 0..MaxSessions]
    BY Constants
    DEF Places, ListenerInv, ListenerTypeOK, L!StopSessions, L!Cancels, L!At, L!grpcVars
  <2>6. lrpc' \in [at : Spots, of : 0..MaxSessions, new : 0..MaxSessions]
    BY Constants
    DEF Spots, ListenerInv, ListenerTypeOK, L!StopSessions, L!Cancels, L!At, L!grpcVars
  <2>7. lcq' \in SUBSET [of : L!Ids, ok : BOOLEAN]
    BY Constants
    DEF ListenerInv, ListenerTypeOK, L!StopSessions, L!Cancels, L!At, L!grpcVars
  <2>8. ldown' \in SUBSET {"server", "cq"}
    BY Constants
    DEF ListenerInv, ListenerTypeOK, L!StopSessions, L!Cancels, L!At, L!grpcVars
  <2> QED
    BY <2>1, <2>2, <2>3, <2>4, <2>5, <2>6, <2>7, <2>8, SameNumbers DEF ListenerTypeOK
<1>2. PlacesInv'
  BY Constants
  DEF ListenerTypeOK, ListenerInv, PlacesInv, L!StopSessions, L!Cancels, L!At,
      L!grpcVars
<1>3. TokensInv'
  BY Constants
  DEF ListenerTypeOK, PlacesInv, ListenerInv, TokensInv, L!StopSessions, L!Cancels,
      L!At, L!grpcVars
<1>4. NamedInv'
  BY Constants
  DEF ListenerTypeOK, TokensInv, PlacesInv, ListenerInv, NamedInv, Asking,
      L!StopSessions, L!Cancels, L!At, L!grpcVars
<1>5. TableInv'
  BY Constants
  DEF ListenerTypeOK, TokensInv, PlacesInv, ListenerInv, TableInv, Asking,
      L!StopSessions, L!Cancels, L!At, L!grpcVars
<1>6. TakenInv'
  BY Constants
  DEF ListenerTypeOK, TokensInv, PlacesInv, ListenerInv, TakenInv, L!StopSessions,
      L!Cancels, L!At, L!grpcVars
<1>7. CallsInv'
  BY Constants
  DEF ListenerTypeOK, TokensInv, PlacesInv, ListenerInv, CallsInv, HasCall,
      L!StopSessions, L!Cancels, L!At, L!grpcVars
<1>8. DownInv'
  BY Constants
  DEF ListenerTypeOK, TokensInv, PlacesInv, ListenerInv, DownInv, HasCall,
      L!StopSessions, L!Cancels, L!At, L!grpcVars
<1>9. Welcoming'
  BY Constants
  DEF ListenerTypeOK, TokensInv, PlacesInv, ListenerInv, Welcoming, Asking,
      L!StopSessions, L!Cancels, L!At, L!grpcVars
<1> QED
  BY <1>1, <1>2, <1>3, <1>4, <1>5, <1>6, <1>7, <1>8, <1>9 DEF ListenerInv

(* The requests that are refused become completions.                       *)
LEMMA KeepsStopServer == ASSUME ListenerInv, L!StopServer PROVE ListenerInv'
<1>0. /\ Asking' = Asking /\ request' = {} /\ UNCHANGED <<lkind, lstate, finish, lrpc, lcall, sessions>>
      /\ \A e \in lcq' : e \in lcq \/ (e.of \in request /\ e = L!Done(e.of, FALSE))
      /\ "server" \in ldown' /\ lmain' = L!At("calls", 0) /\ lmain.of = 0
  <2>1. Asking' = Asking
    <3>1. lcq' = lcq \union {L!Done(s, FALSE) : s \in request} /\ request' = {}
      BY DEF L!StopServer
    <3>2. {e.of : e \in {L!Done(s, FALSE) : s \in request}} = request
      BY OfRefused
    <3> QED
      BY <3>1, <3>2, OfBoth DEF Asking
  <2>2. /\ request' = {} /\ UNCHANGED <<lkind, lstate, finish, lrpc, lcall, sessions>>
        /\ "server" \in ldown' /\ lmain' = L!At("calls", 0) /\ lmain.of = 0
    BY DEF L!StopServer, ListenerInv, PlacesInv
  <2>3. \A e \in lcq' : e \in lcq \/ (e.of \in request /\ e = L!Done(e.of, FALSE))
    BY DEF L!StopServer, L!Done
  <2> QED
    BY <2>1, <2>2, <2>3
<1>1. ListenerTypeOK'
  <2>1. lkind' = lkind /\ lkind \in [L!Ids -> Kinds \union {"none"}] /\ Numbered
    BY Constants DEF ListenerInv, ListenerTypeOK, L!StopServer, L!Done, L!At
  <2>2. lstate' \in [L!Ids -> {"none", "WAIT_CONNECT", "WAIT_FINISH", "FINISHED"}]
    BY Constants DEF ListenerInv, ListenerTypeOK, L!StopServer, L!Done, L!At
  <2>3. lcall' \in [L!Ids -> {"none", "open", "dead", "over"}]
    BY Constants DEF ListenerInv, ListenerTypeOK, L!StopServer, L!Done, L!At
  <2>4. sessions' \in SUBSET L!Ids /\ request' \in SUBSET L!Ids /\ finish' \in SUBSET L!Ids
    BY Constants DEF ListenerInv, ListenerTypeOK, L!StopServer, L!Done, L!At, PlacesInv
  <2>5. lmain' \in [at : Places, of : 0..MaxSessions]
    BY Constants DEF Places, ListenerInv, ListenerTypeOK, L!StopServer, L!Done, L!At
  <2>6. lrpc' \in [at : Spots, of : 0..MaxSessions, new : 0..MaxSessions]
    BY Constants DEF Spots, ListenerInv, ListenerTypeOK, L!StopServer, L!Done, L!At
  <2>7. lcq' \in SUBSET [of : L!Ids, ok : BOOLEAN]
    <3>1. lcq' = lcq \union {[of |-> s, ok |-> FALSE] : s \in request}
      BY DEF L!StopServer, L!Done
    <3>2. lcq \in SUBSET [of : L!Ids, ok : BOOLEAN] /\ request \in SUBSET L!Ids
      BY DEF ListenerInv, ListenerTypeOK
    <3>3. \A s \in request : [of |-> s, ok |-> FALSE] \in [of : L!Ids, ok : BOOLEAN]
      BY <3>2, Zenon
    <3> QED
      BY <3>1, <3>2, <3>3
  <2>8. ldown' \in SUBSET {"server", "cq"}
    BY Constants DEF ListenerInv, ListenerTypeOK, L!StopServer, L!Done, L!At
  <2> QED
    BY <2>1, <2>2, <2>3, <2>4, <2>5, <2>6, <2>7, <2>8, SameNumbers DEF ListenerTypeOK
<1>2. PlacesInv'
  BY Constants DEF ListenerTypeOK, ListenerInv, PlacesInv, L!StopServer, L!Done, L!At
<1>3. TokensInv'
  <2>1. lcq \in SUBSET [of : L!Ids, ok : BOOLEAN]
    BY DEF ListenerInv, ListenerTypeOK
  <2>2. \A t \in request' : t \notin finish' /\ lrpc'.of # t /\ \A e \in lcq' : e.of # t
    BY <1>0, Constants DEF ListenerInv, TokensInv, L!Done
  <2>3. \A t \in finish' : lrpc'.of # t /\ \A e \in lcq' : e.of # t
    BY <1>0, Constants DEF ListenerInv, TokensInv, L!Done
  <2>4. ASSUME NEW e \in lcq' PROVE lrpc'.of # e.of
    BY <1>0, Constants DEF ListenerInv, TokensInv, L!Done
  <2>5. ASSUME NEW e \in lcq', NEW f \in lcq', e.of = f.of PROVE e = f
    BY <1>0, <2>5 DEF ListenerInv, TokensInv, L!Done
  <2> QED
    BY <2>2, <2>3, <2>4, <2>5 DEF TokensInv
<1>4. NamedInv'
  BY <1>0, Constants
  DEF ListenerInv, ListenerTypeOK, PlacesInv, TokensInv, NamedInv, L!Done, L!At,
      L!Idle
<1>5. TableInv'
  BY <1>0, Constants
  DEF ListenerInv, ListenerTypeOK, PlacesInv, TokensInv, TableInv, TakenInv, L!Done,
      L!At, L!Idle
<1>6. TakenInv'
  BY Constants
  DEF ListenerTypeOK, TokensInv, PlacesInv, ListenerInv, TakenInv, L!StopServer,
      L!Done, L!At
<1>7. CallsInv'
  BY Constants
  DEF ListenerTypeOK, TokensInv, PlacesInv, ListenerInv, CallsInv, HasCall,
      L!StopServer, L!Done, L!At
<1>8. DownInv'
  BY Constants
  DEF ListenerTypeOK, TokensInv, PlacesInv, ListenerInv, DownInv, HasCall,
      L!StopServer, L!Done, L!At
<1>9. Welcoming'
  BY <1>0, Constants
  DEF ListenerInv, ListenerTypeOK, PlacesInv, TokensInv, Welcoming, L!Done, L!At,
      L!Idle
<1> QED
  BY <1>1, <1>2, <1>3, <1>4, <1>5, <1>6, <1>7, <1>8, <1>9 DEF ListenerInv

(* The queue is shut down when no session has a call.                      *)
LEMMA KeepsStopQueue == ASSUME ListenerInv, L!StopQueue PROVE ListenerInv'
<1>1. ListenerTypeOK'
  <2>1. lkind' = lkind /\ lkind \in [L!Ids -> Kinds \union {"none"}] /\ Numbered
    BY Constants DEF ListenerInv, ListenerTypeOK, L!StopQueue, L!ServerIsDown, L!At
  <2>2. lstate' \in [L!Ids -> {"none", "WAIT_CONNECT", "WAIT_FINISH", "FINISHED"}]
    BY Constants DEF ListenerInv, ListenerTypeOK, L!StopQueue, L!ServerIsDown, L!At
  <2>3. lcall' \in [L!Ids -> {"none", "open", "dead", "over"}]
    BY Constants DEF ListenerInv, ListenerTypeOK, L!StopQueue, L!ServerIsDown, L!At
  <2>4. sessions' \in SUBSET L!Ids /\ request' \in SUBSET L!Ids /\ finish' \in SUBSET L!Ids
    BY Constants
    DEF ListenerInv, ListenerTypeOK, L!StopQueue, L!ServerIsDown, L!At, PlacesInv
  <2>5. lmain' \in [at : Places, of : 0..MaxSessions]
    BY Constants DEF Places, ListenerInv, ListenerTypeOK, L!StopQueue, L!ServerIsDown, L!At
  <2>6. lrpc' \in [at : Spots, of : 0..MaxSessions, new : 0..MaxSessions]
    BY Constants DEF Spots, ListenerInv, ListenerTypeOK, L!StopQueue, L!ServerIsDown, L!At
  <2>7. lcq' \in SUBSET [of : L!Ids, ok : BOOLEAN]
    BY Constants DEF ListenerInv, ListenerTypeOK, L!StopQueue, L!ServerIsDown, L!At
  <2>8. ldown' \in SUBSET {"server", "cq"}
    BY Constants DEF ListenerInv, ListenerTypeOK, L!StopQueue, L!ServerIsDown, L!At
  <2> QED
    BY <2>1, <2>2, <2>3, <2>4, <2>5, <2>6, <2>7, <2>8, SameNumbers DEF ListenerTypeOK
<1>2. PlacesInv'
  BY Constants
  DEF ListenerTypeOK, ListenerInv, PlacesInv, L!StopQueue, L!ServerIsDown, L!At
<1>3. TokensInv'
  BY Constants
  DEF ListenerTypeOK, PlacesInv, ListenerInv, TokensInv, L!StopQueue, L!ServerIsDown,
      L!At
<1>4. NamedInv'
  BY Constants
  DEF ListenerTypeOK, TokensInv, PlacesInv, ListenerInv, NamedInv, Asking, L!StopQueue,
      L!ServerIsDown, L!At
<1>5. TableInv'
  BY Constants
  DEF ListenerTypeOK, TokensInv, PlacesInv, ListenerInv, TableInv, Asking, L!StopQueue,
      L!ServerIsDown, L!At
<1>6. TakenInv'
  BY Constants
  DEF ListenerTypeOK, TokensInv, PlacesInv, ListenerInv, TakenInv, L!StopQueue,
      L!ServerIsDown, L!At
<1>7. CallsInv'
  BY Constants
  DEF ListenerTypeOK, TokensInv, PlacesInv, ListenerInv, CallsInv, HasCall,
      L!StopQueue, L!ServerIsDown, L!At
<1>8. DownInv'
  BY Constants
  DEF ListenerTypeOK, TokensInv, PlacesInv, ListenerInv, DownInv, HasCall, L!StopQueue,
      L!ServerIsDown, L!At
<1>9. Welcoming'
  BY Constants
  DEF ListenerTypeOK, TokensInv, PlacesInv, ListenerInv, Welcoming, Asking,
      L!StopQueue, L!ServerIsDown, L!At
<1> QED
  BY <1>1, <1>2, <1>3, <1>4, <1>5, <1>6, <1>7, <1>8, <1>9 DEF ListenerInv

(* Stop returns.                                                           *)
LEMMA KeepsJoin == ASSUME ListenerInv, L!Join PROVE ListenerInv'
<1>1. ListenerTypeOK'
  <2>1. lkind' = lkind /\ lkind \in [L!Ids -> Kinds \union {"none"}] /\ Numbered
    BY Constants DEF ListenerInv, ListenerTypeOK, L!Join, L!At, L!grpcVars
  <2>2. lstate' \in [L!Ids -> {"none", "WAIT_CONNECT", "WAIT_FINISH", "FINISHED"}]
    BY Constants DEF ListenerInv, ListenerTypeOK, L!Join, L!At, L!grpcVars
  <2>3. lcall' \in [L!Ids -> {"none", "open", "dead", "over"}]
    BY Constants DEF ListenerInv, ListenerTypeOK, L!Join, L!At, L!grpcVars
  <2>4. sessions' \in SUBSET L!Ids /\ request' \in SUBSET L!Ids /\ finish' \in SUBSET L!Ids
    BY Constants DEF ListenerInv, ListenerTypeOK, L!Join, L!At, L!grpcVars, PlacesInv
  <2>5. lmain' \in [at : Places, of : 0..MaxSessions]
    BY Constants DEF Places, ListenerInv, ListenerTypeOK, L!Join, L!At, L!grpcVars
  <2>6. lrpc' \in [at : Spots, of : 0..MaxSessions, new : 0..MaxSessions]
    BY Constants DEF Spots, ListenerInv, ListenerTypeOK, L!Join, L!At, L!grpcVars
  <2>7. lcq' \in SUBSET [of : L!Ids, ok : BOOLEAN]
    BY Constants DEF ListenerInv, ListenerTypeOK, L!Join, L!At, L!grpcVars
  <2>8. ldown' \in SUBSET {"server", "cq"}
    BY Constants DEF ListenerInv, ListenerTypeOK, L!Join, L!At, L!grpcVars
  <2> QED
    BY <2>1, <2>2, <2>3, <2>4, <2>5, <2>6, <2>7, <2>8, SameNumbers DEF ListenerTypeOK
<1>2. PlacesInv'
  BY Constants DEF ListenerTypeOK, ListenerInv, PlacesInv, L!Join, L!At, L!grpcVars
<1>3. TokensInv'
  BY Constants
  DEF ListenerTypeOK, PlacesInv, ListenerInv, TokensInv, L!Join, L!At, L!grpcVars
<1>4. NamedInv'
  BY Constants
  DEF ListenerTypeOK, TokensInv, PlacesInv, ListenerInv, NamedInv, Asking, L!Join,
      L!At, L!grpcVars
<1>5. TableInv'
  BY Constants
  DEF ListenerTypeOK, TokensInv, PlacesInv, ListenerInv, TableInv, Asking, L!Join,
      L!At, L!grpcVars
<1>6. TakenInv'
  BY Constants
  DEF ListenerTypeOK, TokensInv, PlacesInv, ListenerInv, TakenInv, L!Join, L!At,
      L!grpcVars
<1>7. CallsInv'
  BY Constants
  DEF ListenerTypeOK, TokensInv, PlacesInv, ListenerInv, CallsInv, HasCall, L!Join,
      L!At, L!grpcVars
<1>8. DownInv'
  BY Constants
  DEF ListenerTypeOK, TokensInv, PlacesInv, ListenerInv, DownInv, HasCall, L!Join,
      L!At, L!grpcVars
<1>9. Welcoming'
  BY Constants
  DEF ListenerTypeOK, TokensInv, PlacesInv, ListenerInv, Welcoming, Asking, L!Join,
      L!At, L!grpcVars
<1> QED
  BY <1>1, <1>2, <1>3, <1>4, <1>5, <1>6, <1>7, <1>8, <1>9 DEF ListenerInv

(* A completion is taken out and the session is to be removed.             *)
LEMMA KeepsOver ==
  ASSUME ListenerInv, NEW s \in L!Ids, NEW ok \in BOOLEAN, L!Over(s, ok)
  PROVE  ListenerInv'
<1>1. ListenerTypeOK'
  <2>1. lkind' = lkind /\ lkind \in [L!Ids -> Kinds \union {"none"}] /\ Numbered
    BY Constants DEF ListenerInv, ListenerTypeOK, L!Over, L!Done
  <2>2. lstate' \in [L!Ids -> {"none", "WAIT_CONNECT", "WAIT_FINISH", "FINISHED"}]
    BY Constants DEF ListenerInv, ListenerTypeOK, L!Over, L!Done
  <2>3. lcall' \in [L!Ids -> {"none", "open", "dead", "over"}]
    BY Constants DEF ListenerInv, ListenerTypeOK, L!Over, L!Done
  <2>4. sessions' \in SUBSET L!Ids /\ request' \in SUBSET L!Ids /\ finish' \in SUBSET L!Ids
    BY Constants DEF ListenerInv, ListenerTypeOK, L!Over, L!Done, PlacesInv
  <2>5. lmain' \in [at : Places, of : 0..MaxSessions]
    BY Constants DEF Places, ListenerInv, ListenerTypeOK, L!Over, L!Done
  <2>6. lrpc' \in [at : Spots, of : 0..MaxSessions, new : 0..MaxSessions]
    BY Constants DEF Spots, ListenerInv, ListenerTypeOK, L!Over, L!Done
  <2>7. lcq' \in SUBSET [of : L!Ids, ok : BOOLEAN]
    BY Constants DEF ListenerInv, ListenerTypeOK, L!Over, L!Done
  <2>8. ldown' \in SUBSET {"server", "cq"}
    BY Constants DEF ListenerInv, ListenerTypeOK, L!Over, L!Done
  <2> QED
    BY <2>1, <2>2, <2>3, <2>4, <2>5, <2>6, <2>7, <2>8, SameNumbers DEF ListenerTypeOK
<1>2. PlacesInv'
  BY Constants DEF ListenerTypeOK, ListenerInv, PlacesInv, L!Over, L!Done
<1>3. TokensInv'
  <2>1. /\ L!Done(s, ok) \in lcq /\ L!Done(s, ok).of = s /\ s # 0
        /\ lcq' \subseteq lcq /\ (\A e \in lcq' : e # L!Done(s, ok))
        /\ lrpc'.of = s /\ request' = request /\ finish' = finish
    BY Constants DEF L!Over, L!Done, L!Ids
  <2>2. TokensInv
    BY DEF ListenerInv
  <2>3. s \notin request /\ s \notin finish
    BY <2>1, <2>2 DEF TokensInv
  <2>4. \A e \in lcq' : e.of # s
    BY <2>1, <2>2 DEF TokensInv
  <2> QED
    BY <2>1, <2>2, <2>3, <2>4 DEF TokensInv
<1>4. NamedInv'
  BY Constants
  DEF ListenerTypeOK, TokensInv, PlacesInv, ListenerInv, NamedInv, Asking, L!Over,
      L!Done
<1>5. TableInv'
  BY Constants
  DEF ListenerTypeOK, TokensInv, PlacesInv, ListenerInv, TableInv, Asking, L!Over,
      L!Done
<1>6. TakenInv'
  BY Constants
  DEF ListenerTypeOK, TokensInv, PlacesInv, ListenerInv, TakenInv, L!Over, L!Done
<1>7. CallsInv'
  BY Constants
  DEF ListenerTypeOK, TokensInv, PlacesInv, ListenerInv, CallsInv, HasCall, L!Over,
      L!Done
<1>8. DownInv'
  BY Constants
  DEF ListenerTypeOK, TokensInv, PlacesInv, ListenerInv, DownInv, HasCall, L!Over,
      L!Done
<1>9. Welcoming'
  BY Constants
  DEF ListenerTypeOK, TokensInv, PlacesInv, CallsInv, DownInv, ListenerInv, Welcoming,
      Asking, L!Over, L!Done
<1> QED
  BY <1>1, <1>2, <1>3, <1>4, <1>5, <1>6, <1>7, <1>8, <1>9 DEF ListenerInv

(* The new session is entered, the connected one gives its response.       *)
LEMMA KeepsInsertAndFinish ==
  ASSUME ListenerInv, L!InsertAndFinish, ~L!QueueClosed PROVE ListenerInv'
<1>0. /\ finish' = finish \union {lrpc.of} /\ sessions' = sessions \union {lrpc.new} /\ lrpc.at = "insert" /\ lrpc' = L!Idle
      /\ UNCHANGED <<lkind, lmain, request, lcq, ldown, lcall>> /\ Asking' = Asking
      /\ lstate' = [lstate EXCEPT ![lrpc.of] = "WAIT_FINISH"]
  BY DEF L!InsertAndFinish, Asking
<1>1. ListenerTypeOK'
  <2>1. lkind' = lkind /\ lkind \in [L!Ids -> Kinds \union {"none"}] /\ Numbered
    BY <1>0, Constants DEF ListenerInv, ListenerTypeOK, L!Idle
  <2>2. lstate' \in [L!Ids -> {"none", "WAIT_CONNECT", "WAIT_FINISH", "FINISHED"}]
    BY <1>0, Constants DEF ListenerInv, ListenerTypeOK, L!Idle
  <2>3. lcall' \in [L!Ids -> {"none", "open", "dead", "over"}]
    BY <1>0, Constants DEF ListenerInv, ListenerTypeOK, L!Idle
  <2>4. sessions' \in SUBSET L!Ids /\ request' \in SUBSET L!Ids /\ finish' \in SUBSET L!Ids
    <3>1. lrpc.of \in L!Ids /\ lrpc.new \in L!Ids
      BY <1>0, Constants DEF ListenerInv, ListenerTypeOK, PlacesInv
    <3> QED
      BY <1>0, <3>1 DEF ListenerInv, ListenerTypeOK
  <2>5. lmain' \in [at : Places, of : 0..MaxSessions]
    BY <1>0, Constants DEF Places, ListenerInv, ListenerTypeOK, L!Idle
  <2>6. lrpc' \in [at : Spots, of : 0..MaxSessions, new : 0..MaxSessions]
    BY <1>0, Constants DEF Spots, ListenerInv, ListenerTypeOK, L!Idle
  <2>7. lcq' \in SUBSET [of : L!Ids, ok : BOOLEAN]
    BY <1>0, Constants DEF ListenerInv, ListenerTypeOK, L!Idle
  <2>8. ldown' \in SUBSET {"server", "cq"}
    BY <1>0, Constants DEF ListenerInv, ListenerTypeOK, L!Idle
  <2> QED
    BY <2>1, <2>2, <2>3, <2>4, <2>5, <2>6, <2>7, <2>8, SameNumbers DEF ListenerTypeOK
<1>2. PlacesInv'
  BY <1>0, Constants DEF ListenerTypeOK, ListenerInv, PlacesInv, L!Idle
<1>3. TokensInv'
  BY <1>0, Constants
  DEF ListenerTypeOK, PlacesInv, ListenerInv, TokensInv, L!Idle
<1>4. NamedInv'
  BY <1>0, Constants
  DEF ListenerTypeOK, TokensInv, PlacesInv, ListenerInv, NamedInv, Asking, L!Idle
<1>5. TableInv'
  BY <1>0, Constants
  DEF ListenerInv, ListenerTypeOK, PlacesInv, TokensInv, TableInv, TakenInv, L!Done,
      L!At, L!Idle
<1>6. TakenInv'
  BY <1>0, Constants
  DEF ListenerTypeOK, TokensInv, PlacesInv, ListenerInv, TakenInv, L!Idle
<1>7. CallsInv'
  BY <1>0, Constants
  DEF ListenerTypeOK, TokensInv, PlacesInv, ListenerInv, CallsInv, HasCall, L!Idle
<1>8. DownInv'
  BY <1>0, Constants
  DEF ListenerTypeOK, TokensInv, PlacesInv, ListenerInv, DownInv, HasCall, L!Idle
<1>9. Welcoming'
  BY <1>0, Constants
  DEF ListenerTypeOK, TokensInv, PlacesInv, ListenerInv, Welcoming, Asking, L!Idle
<1> QED
  BY <1>1, <1>2, <1>3, <1>4, <1>5, <1>6, <1>7, <1>8, <1>9 DEF ListenerInv

(* The dispatcher is in the handler of a session with a call when gRPC     *)
(* aborts the program.                                                     *)
LEMMA KeepsAborts ==
  ASSUME ListenerInv, NEW s \in L!Ids, L!QueueClosed, L!Aborts(s), HasCall(s),
         lkind[s] # "none", UNCHANGED <<lkind, request, lcall, finish, ldown>>,
         lcq' \subseteq lcq, \A e \in lcq' : e.of # s,
         sessions \subseteq sessions', sessions' \subseteq L!Ids, lrpc.new \in sessions' \union {0},
         lstate' \in [L!Ids -> {"none", "WAIT_CONNECT", "WAIT_FINISH", "FINISHED"}],
         \A e \in lcq' : lstate'[e.of] = lstate[e.of]
  PROVE  ListenerInv'
<1>1. /\ lmain' = [at |-> "aborted", of |-> 0] /\ lrpc' = [at |-> "aborted", of |-> s, new |-> 0]
      /\ request' = {} /\ finish' = {} /\ "cq" \in ldown' /\ s # 0
  BY Constants DEF L!Aborts, L!At, L!QueueClosed
<1>2. lmain.of = 0
  BY DEF ListenerInv, DownInv, PlacesInv, L!QueueClosed
<1>3. ListenerTypeOK'
  <2>1. lmain' \in [at : Places, of : 0..MaxSessions]
    BY <1>1, Constants DEF Places
  <2>2. lrpc' \in [at : Spots, of : 0..MaxSessions, new : 0..MaxSessions]
    BY <1>1, Constants DEF Spots
  <2>3. Numbered'
    BY SameNumbers DEF ListenerInv, ListenerTypeOK
  <2> QED
    BY <2>1, <2>2, <2>3 DEF ListenerInv, ListenerTypeOK
<1>4. PlacesInv' /\ TokensInv' /\ TakenInv'
  BY <1>1 DEF ListenerInv, PlacesInv, TokensInv, TakenInv
<1>5. NamedInv' /\ TableInv'
  <2>1. Asking' \subseteq Asking
    BY DEF Asking
  <2>2. NamedInv'
    BY <1>1, <2>1 DEF ListenerInv, NamedInv
  <2>3. \A t \in Asking' : t \in L!Ids /\ t \in sessions \union {lmain.of, lrpc.new}
    BY <2>1 DEF ListenerInv, TableInv, ListenerTypeOK, Asking
  <2>4. \A t \in Asking' : t \in sessions'
    BY <1>2, <2>3, Constants
  <2> QED
    BY <1>1, <2>2, <2>4 DEF TableInv
<1>6. CallsInv' /\ DownInv'
  <2>1. DownInv'
    BY <1>1 DEF ListenerInv, DownInv
  <2>2. \A e \in lcq' : lstate'[e.of] = "WAIT_CONNECT" =>
           IF e.ok THEN HasCall(e.of) ELSE "server" \in ldown
    BY DEF ListenerInv, CallsInv
  <2> QED
    BY <1>1, <2>1, <2>2 DEF CallsInv, HasCall
<1>7. Welcoming'
  BY <1>1 DEF Welcoming
<1> QED
  BY <1>3, <1>4, <1>5, <1>6, <1>7 DEF ListenerInv

(* The queue is closed when the next session is constructed.               *)
LEMMA KeepsConnectedAborts ==
  ASSUME ListenerInv, NEW s \in L!Ids, L!ConnectedAborts(s)
  PROVE  ListenerInv'
<1>1. L!Done(s, TRUE).of = s /\ L!Done(s, TRUE).ok = TRUE /\ s # 0
  BY DEF L!Done, L!Ids
<1>2. /\ L!QueueClosed /\ L!Aborts(s) /\ L!Done(s, TRUE) \in lcq /\ lstate[s] = "WAIT_CONNECT"
      /\ UNCHANGED <<lkind, lstate, sessions, request, lcall, finish, ldown>>
      /\ lcq' = lcq \ {L!Done(s, TRUE)} /\ lrpc.at = "next"
  BY DEF L!ConnectedAborts
<1>3. HasCall(s) /\ lkind[s] # "none"
  BY <1>1, <1>2 DEF ListenerInv, CallsInv, NamedInv, Asking
<1>4. \A e \in lcq' : e.of # s
  BY <1>1, <1>2 DEF ListenerInv, TokensInv
<1>5. lrpc.new = 0
  BY <1>2 DEF ListenerInv, PlacesInv
<1>6. sessions' \subseteq L!Ids /\ lstate' \in [L!Ids -> {"none", "WAIT_CONNECT", "WAIT_FINISH", "FINISHED"}]
  BY <1>2 DEF ListenerInv, ListenerTypeOK
<1> QED
  BY <1>2, <1>3, <1>4, <1>5, <1>6, KeepsAborts

(* The new session is entered, and the queue is closed when the connected  *)
(* one gives its response.                                                 *)
LEMMA KeepsInsertAborts == ASSUME ListenerInv, L!InsertAndFinish, L!QueueClosed PROVE ListenerInv'
<1>1. /\ L!Aborts(lrpc.of) /\ lrpc.at = "insert" /\ sessions' = sessions \union {lrpc.new}
      /\ lstate' = [lstate EXCEPT ![lrpc.of] = "WAIT_FINISH"]
      /\ UNCHANGED <<lkind, request, lcall, finish, lcq, ldown>>
  BY DEF L!InsertAndFinish
<1>2. lrpc.of \in L!Ids /\ lrpc.new \in L!Ids
  BY <1>1, Constants DEF ListenerInv, ListenerTypeOK, PlacesInv
<1>3. HasCall(lrpc.of) /\ lkind[lrpc.of] # "none"
  BY <1>1, <1>2, Constants DEF ListenerInv, CallsInv, NamedInv
<1>4. \A e \in lcq' : e.of # lrpc.of
  BY <1>1 DEF ListenerInv, TokensInv
<1>5. /\ lstate' \in [L!Ids -> {"none", "WAIT_CONNECT", "WAIT_FINISH", "FINISHED"}]
      /\ \A e \in lcq' : lstate'[e.of] = lstate[e.of]
  BY <1>1, <1>4 DEF ListenerInv, ListenerTypeOK
<1>6. sessions \subseteq sessions' /\ sessions' \subseteq L!Ids /\ lrpc.new \in sessions'
  BY <1>1, <1>2 DEF ListenerInv, ListenerTypeOK
<1> QED
  BY <1>1, <1>2, <1>3, <1>4, <1>5, <1>6, KeepsAborts

(* The session that is over leaves the table.                              *)
LEMMA KeepsRemoveSession == ASSUME ListenerInv, L!RemoveSession PROVE ListenerInv'
<1>1. ListenerTypeOK'
  <2>1. lkind' = lkind /\ lkind \in [L!Ids -> Kinds \union {"none"}] /\ Numbered
    BY Constants DEF ListenerInv, ListenerTypeOK, L!RemoveSession, L!Idle, L!grpcVars
  <2>2. lstate' \in [L!Ids -> {"none", "WAIT_CONNECT", "WAIT_FINISH", "FINISHED"}]
    BY Constants DEF ListenerInv, ListenerTypeOK, L!RemoveSession, L!Idle, L!grpcVars
  <2>3. lcall' \in [L!Ids -> {"none", "open", "dead", "over"}]
    BY Constants DEF ListenerInv, ListenerTypeOK, L!RemoveSession, L!Idle, L!grpcVars
  <2>4. sessions' \in SUBSET L!Ids /\ request' \in SUBSET L!Ids /\ finish' \in SUBSET L!Ids
    BY Constants
    DEF ListenerInv, ListenerTypeOK, L!RemoveSession, L!Idle, L!grpcVars, PlacesInv
  <2>5. lmain' \in [at : Places, of : 0..MaxSessions]
    BY Constants DEF Places, ListenerInv, ListenerTypeOK, L!RemoveSession, L!Idle, L!grpcVars
  <2>6. lrpc' \in [at : Spots, of : 0..MaxSessions, new : 0..MaxSessions]
    BY Constants DEF Spots, ListenerInv, ListenerTypeOK, L!RemoveSession, L!Idle, L!grpcVars
  <2>7. lcq' \in SUBSET [of : L!Ids, ok : BOOLEAN]
    BY Constants DEF ListenerInv, ListenerTypeOK, L!RemoveSession, L!Idle, L!grpcVars
  <2>8. ldown' \in SUBSET {"server", "cq"}
    BY Constants DEF ListenerInv, ListenerTypeOK, L!RemoveSession, L!Idle, L!grpcVars
  <2> QED
    BY <2>1, <2>2, <2>3, <2>4, <2>5, <2>6, <2>7, <2>8, SameNumbers DEF ListenerTypeOK
<1>2. PlacesInv'
  BY Constants
  DEF ListenerTypeOK, ListenerInv, PlacesInv, L!RemoveSession, L!Idle, L!grpcVars
<1>3. TokensInv'
  BY Constants
  DEF ListenerTypeOK, PlacesInv, ListenerInv, TokensInv, L!RemoveSession, L!Idle,
      L!grpcVars
<1>4. NamedInv'
  BY Constants
  DEF ListenerTypeOK, TokensInv, PlacesInv, ListenerInv, NamedInv, Asking,
      L!RemoveSession, L!Idle, L!grpcVars
<1>5. TableInv'
  BY Constants
  DEF ListenerTypeOK, TokensInv, PlacesInv, ListenerInv, TableInv, Asking,
      L!RemoveSession, L!Idle, L!grpcVars
<1>6. TakenInv'
  BY Constants
  DEF ListenerTypeOK, TokensInv, PlacesInv, ListenerInv, TakenInv, L!RemoveSession,
      L!Idle, L!grpcVars
<1>7. CallsInv'
  BY Constants
  DEF ListenerTypeOK, TokensInv, PlacesInv, ListenerInv, CallsInv, HasCall,
      L!RemoveSession, L!Idle, L!grpcVars
<1>8. DownInv'
  BY Constants
  DEF ListenerTypeOK, TokensInv, PlacesInv, ListenerInv, DownInv, HasCall,
      L!RemoveSession, L!Idle, L!grpcVars
<1>9. Welcoming'
  BY Constants
  DEF ListenerTypeOK, TokensInv, PlacesInv, ListenerInv, Welcoming, Asking,
      L!RemoveSession, L!Idle, L!grpcVars
<1> QED
  BY <1>1, <1>2, <1>3, <1>4, <1>5, <1>6, <1>7, <1>8, <1>9 DEF ListenerInv

(* The dispatcher leaves its loop.                                         *)
LEMMA KeepsQueueDrained == ASSUME ListenerInv, L!QueueDrained PROVE ListenerInv'
<1>1. ListenerTypeOK'
  <2>1. lkind' = lkind /\ lkind \in [L!Ids -> Kinds \union {"none"}] /\ Numbered
    BY Constants DEF ListenerInv, ListenerTypeOK, L!QueueDrained, L!Idle, L!grpcVars
  <2>2. lstate' \in [L!Ids -> {"none", "WAIT_CONNECT", "WAIT_FINISH", "FINISHED"}]
    BY Constants DEF ListenerInv, ListenerTypeOK, L!QueueDrained, L!Idle, L!grpcVars
  <2>3. lcall' \in [L!Ids -> {"none", "open", "dead", "over"}]
    BY Constants DEF ListenerInv, ListenerTypeOK, L!QueueDrained, L!Idle, L!grpcVars
  <2>4. sessions' \in SUBSET L!Ids /\ request' \in SUBSET L!Ids /\ finish' \in SUBSET L!Ids
    BY Constants
    DEF ListenerInv, ListenerTypeOK, L!QueueDrained, L!Idle, L!grpcVars, PlacesInv
  <2>5. lmain' \in [at : Places, of : 0..MaxSessions]
    BY Constants DEF Places, ListenerInv, ListenerTypeOK, L!QueueDrained, L!Idle, L!grpcVars
  <2>6. lrpc' \in [at : Spots, of : 0..MaxSessions, new : 0..MaxSessions]
    BY Constants DEF Spots, ListenerInv, ListenerTypeOK, L!QueueDrained, L!Idle, L!grpcVars
  <2>7. lcq' \in SUBSET [of : L!Ids, ok : BOOLEAN]
    BY Constants DEF ListenerInv, ListenerTypeOK, L!QueueDrained, L!Idle, L!grpcVars
  <2>8. ldown' \in SUBSET {"server", "cq"}
    BY Constants DEF ListenerInv, ListenerTypeOK, L!QueueDrained, L!Idle, L!grpcVars
  <2> QED
    BY <2>1, <2>2, <2>3, <2>4, <2>5, <2>6, <2>7, <2>8, SameNumbers DEF ListenerTypeOK
<1>2. PlacesInv'
  BY Constants
  DEF ListenerTypeOK, ListenerInv, PlacesInv, L!QueueDrained, L!Idle, L!grpcVars
<1>3. TokensInv'
  BY Constants
  DEF ListenerTypeOK, PlacesInv, ListenerInv, TokensInv, L!QueueDrained, L!Idle,
      L!grpcVars
<1>4. NamedInv'
  BY Constants
  DEF ListenerTypeOK, TokensInv, PlacesInv, ListenerInv, NamedInv, Asking,
      L!QueueDrained, L!Idle, L!grpcVars
<1>5. TableInv'
  BY Constants
  DEF ListenerTypeOK, TokensInv, PlacesInv, ListenerInv, TableInv, Asking,
      L!QueueDrained, L!Idle, L!grpcVars
<1>6. TakenInv'
  BY Constants
  DEF ListenerTypeOK, TokensInv, PlacesInv, ListenerInv, TakenInv, L!QueueDrained,
      L!Idle, L!grpcVars
<1>7. CallsInv'
  BY Constants
  DEF ListenerTypeOK, TokensInv, PlacesInv, ListenerInv, CallsInv, HasCall,
      L!QueueDrained, L!Idle, L!grpcVars
<1>8. DownInv'
  BY Constants
  DEF ListenerTypeOK, TokensInv, PlacesInv, ListenerInv, DownInv, HasCall,
      L!QueueDrained, L!Idle, L!grpcVars
<1>9. Welcoming'
  BY Constants
  DEF ListenerTypeOK, TokensInv, PlacesInv, ListenerInv, Welcoming, Asking,
      L!QueueDrained, L!Idle, L!grpcVars
<1> QED
  BY <1>1, <1>2, <1>3, <1>4, <1>5, <1>6, <1>7, <1>8, <1>9 DEF ListenerInv

(* A request becomes a completion with a call.                             *)
LEMMA KeepsAccept == ASSUME ListenerInv, NEW s \in L!Ids, L!Accept(s) PROVE ListenerInv'
<1>0. /\ Asking' = Asking /\ request' = request \ {s} /\ s \in request /\ lcq' = lcq \union {L!Done(s, TRUE)}
      /\ UNCHANGED <<lkind, lstate, finish, lrpc, lmain, sessions, ldown>>
  <2>1. {e.of : e \in lcq'} = {e.of : e \in lcq} \union {s}
    <3>1. lcq' = lcq \union {L!Done(s, TRUE)}
      BY DEF L!Accept
    <3>2. {e.of : e \in {L!Done(s, TRUE)}} = {s}
      BY OfDone
    <3> QED
      BY <3>1, <3>2, OfBoth
  <2> QED
    BY <2>1 DEF L!Accept, Asking
<1>1. ListenerTypeOK'
  <2>1. lkind' = lkind /\ lkind \in [L!Ids -> Kinds \union {"none"}] /\ Numbered
    BY Constants DEF ListenerInv, ListenerTypeOK, L!Accept, L!Done
  <2>2. lstate' \in [L!Ids -> {"none", "WAIT_CONNECT", "WAIT_FINISH", "FINISHED"}]
    BY Constants DEF ListenerInv, ListenerTypeOK, L!Accept, L!Done
  <2>3. lcall' \in [L!Ids -> {"none", "open", "dead", "over"}]
    BY Constants DEF ListenerInv, ListenerTypeOK, L!Accept, L!Done
  <2>4. sessions' \in SUBSET L!Ids /\ request' \in SUBSET L!Ids /\ finish' \in SUBSET L!Ids
    BY Constants DEF ListenerInv, ListenerTypeOK, L!Accept, L!Done, PlacesInv
  <2>5. lmain' \in [at : Places, of : 0..MaxSessions]
    BY Constants DEF Places, ListenerInv, ListenerTypeOK, L!Accept, L!Done
  <2>6. lrpc' \in [at : Spots, of : 0..MaxSessions, new : 0..MaxSessions]
    BY Constants DEF Spots, ListenerInv, ListenerTypeOK, L!Accept, L!Done
  <2>7. lcq' \in SUBSET [of : L!Ids, ok : BOOLEAN]
    <3>1. lcq' = lcq \union {[of |-> s, ok |-> TRUE]} /\ lcq \in SUBSET [of : L!Ids, ok : BOOLEAN]
      BY DEF ListenerInv, ListenerTypeOK, L!Accept, L!Done
    <3>2. [of |-> s, ok |-> TRUE] \in [of : L!Ids, ok : BOOLEAN]
      BY Zenon
    <3> QED
      BY <3>1, <3>2
  <2>8. ldown' \in SUBSET {"server", "cq"}
    BY Constants DEF ListenerInv, ListenerTypeOK, L!Accept, L!Done
  <2> QED
    BY <2>1, <2>2, <2>3, <2>4, <2>5, <2>6, <2>7, <2>8, SameNumbers DEF ListenerTypeOK
<1>2. PlacesInv'
  BY Constants DEF ListenerTypeOK, ListenerInv, PlacesInv, L!Accept, L!Done
<1>3. TokensInv'
  <2>1. lcq \in SUBSET [of : L!Ids, ok : BOOLEAN]
    BY DEF ListenerInv, ListenerTypeOK
  <2>2. \A t \in request' : t \notin finish' /\ lrpc'.of # t /\ \A e \in lcq' : e.of # t
    BY <1>0, Constants DEF ListenerInv, TokensInv, L!Done
  <2>3. \A t \in finish' : lrpc'.of # t /\ \A e \in lcq' : e.of # t
    BY <1>0, Constants DEF ListenerInv, TokensInv, L!Done
  <2>4. ASSUME NEW e \in lcq' PROVE lrpc'.of # e.of
    BY <1>0, Constants DEF ListenerInv, TokensInv, L!Done
  <2>5. ASSUME NEW e \in lcq', NEW f \in lcq', e.of = f.of PROVE e = f
    <3>1. \A g \in lcq : g.of # s /\ \A h \in lcq : g.of = h.of => g = h
      BY <1>0 DEF ListenerInv, TokensInv
    <3>2. L!Done(s, TRUE).of = s
      BY DEF L!Done
    <3> QED
      BY <1>0, <2>5, <3>1, <3>2
  <2> QED
    BY <2>2, <2>3, <2>4, <2>5 DEF TokensInv
<1>4. NamedInv'
  BY <1>0, Constants
  DEF ListenerInv, ListenerTypeOK, PlacesInv, TokensInv, NamedInv, L!Done, L!At,
      L!Idle
<1>5. TableInv'
  BY <1>0, Constants
  DEF ListenerInv, ListenerTypeOK, PlacesInv, TokensInv, TableInv, TakenInv, L!Done,
      L!At, L!Idle
<1>6. TakenInv'
  BY Constants
  DEF ListenerTypeOK, TokensInv, PlacesInv, ListenerInv, TakenInv, L!Accept, L!Done
<1>7. CallsInv'
  BY Constants
  DEF ListenerTypeOK, TokensInv, PlacesInv, ListenerInv, CallsInv, HasCall, L!Accept,
      L!Done
<1>8. DownInv'
  BY Constants
  DEF ListenerTypeOK, TokensInv, PlacesInv, ListenerInv, DownInv, HasCall, L!Accept,
      L!Done
<1>9. Welcoming'
  BY <1>0, Constants
  DEF ListenerInv, ListenerTypeOK, PlacesInv, TokensInv, Welcoming, L!Done, L!At,
      L!Idle
<1> QED
  BY <1>1, <1>2, <1>3, <1>4, <1>5, <1>6, <1>7, <1>8, <1>9 DEF ListenerInv

(* A call that breaks is still a call.                                     *)
LEMMA KeepsHangUp == ASSUME ListenerInv, NEW s \in L!Ids, L!HangUp(s) PROVE ListenerInv'
<1>1. ListenerTypeOK'
  <2>1. lkind' = lkind /\ lkind \in [L!Ids -> Kinds \union {"none"}] /\ Numbered
    BY Constants DEF ListenerInv, ListenerTypeOK, L!HangUp
  <2>2. lstate' \in [L!Ids -> {"none", "WAIT_CONNECT", "WAIT_FINISH", "FINISHED"}]
    BY Constants DEF ListenerInv, ListenerTypeOK, L!HangUp
  <2>3. lcall' \in [L!Ids -> {"none", "open", "dead", "over"}]
    BY Constants DEF ListenerInv, ListenerTypeOK, L!HangUp
  <2>4. sessions' \in SUBSET L!Ids /\ request' \in SUBSET L!Ids /\ finish' \in SUBSET L!Ids
    BY Constants DEF ListenerInv, ListenerTypeOK, L!HangUp, PlacesInv
  <2>5. lmain' \in [at : Places, of : 0..MaxSessions]
    BY Constants DEF Places, ListenerInv, ListenerTypeOK, L!HangUp
  <2>6. lrpc' \in [at : Spots, of : 0..MaxSessions, new : 0..MaxSessions]
    BY Constants DEF Spots, ListenerInv, ListenerTypeOK, L!HangUp
  <2>7. lcq' \in SUBSET [of : L!Ids, ok : BOOLEAN]
    BY Constants DEF ListenerInv, ListenerTypeOK, L!HangUp
  <2>8. ldown' \in SUBSET {"server", "cq"}
    BY Constants DEF ListenerInv, ListenerTypeOK, L!HangUp
  <2> QED
    BY <2>1, <2>2, <2>3, <2>4, <2>5, <2>6, <2>7, <2>8, SameNumbers DEF ListenerTypeOK
<1>2. PlacesInv'
  BY Constants DEF ListenerTypeOK, ListenerInv, PlacesInv, L!HangUp
<1>3. TokensInv'
  BY Constants DEF ListenerTypeOK, PlacesInv, ListenerInv, TokensInv, L!HangUp
<1>4. NamedInv'
  BY Constants
  DEF ListenerTypeOK, TokensInv, PlacesInv, ListenerInv, NamedInv, Asking, L!HangUp
<1>5. TableInv'
  BY Constants
  DEF ListenerTypeOK, TokensInv, PlacesInv, ListenerInv, TableInv, Asking, L!HangUp
<1>6. TakenInv'
  BY Constants DEF ListenerTypeOK, TokensInv, PlacesInv, ListenerInv, TakenInv, L!HangUp
<1>7. CallsInv'
  BY Constants
  DEF ListenerTypeOK, TokensInv, PlacesInv, ListenerInv, CallsInv, HasCall, L!HangUp
<1>8. DownInv'
  BY Constants
  DEF ListenerTypeOK, TokensInv, PlacesInv, ListenerInv, DownInv, HasCall, L!HangUp
<1>9. Welcoming'
  BY Constants
  DEF ListenerTypeOK, TokensInv, PlacesInv, ListenerInv, Welcoming, Asking, L!HangUp
<1> QED
  BY <1>1, <1>2, <1>3, <1>4, <1>5, <1>6, <1>7, <1>8, <1>9 DEF ListenerInv

(* Finish becomes a completion, and the call is over.                      *)
LEMMA KeepsFinishDone ==
  ASSUME ListenerInv, NEW s \in L!Ids, L!FinishDone(s)
  PROVE  ListenerInv'
<1>0. /\ Asking' = Asking \union {s} /\ s \in finish /\ finish' = finish \ {s} /\ s # 0
      /\ UNCHANGED <<lkind, lstate, lrpc, lmain, sessions, request, ldown>>
  <2>1. {e.of : e \in lcq'} = {e.of : e \in lcq} \union {s}
    BY OfBoth, OfDone DEF L!FinishDone
  <2> QED
    BY <2>1, Constants DEF L!FinishDone, Asking
<1>1. ListenerTypeOK'
  <2>1. lkind' = lkind /\ lkind \in [L!Ids -> Kinds \union {"none"}] /\ Numbered
    BY Constants DEF ListenerInv, ListenerTypeOK, L!FinishDone, L!Done
  <2>2. lstate' \in [L!Ids -> {"none", "WAIT_CONNECT", "WAIT_FINISH", "FINISHED"}]
    BY Constants DEF ListenerInv, ListenerTypeOK, L!FinishDone, L!Done
  <2>3. lcall' \in [L!Ids -> {"none", "open", "dead", "over"}]
    BY Constants DEF ListenerInv, ListenerTypeOK, L!FinishDone, L!Done
  <2>4. sessions' \in SUBSET L!Ids /\ request' \in SUBSET L!Ids /\ finish' \in SUBSET L!Ids
    BY Constants DEF ListenerInv, ListenerTypeOK, L!FinishDone, L!Done, PlacesInv
  <2>5. lmain' \in [at : Places, of : 0..MaxSessions]
    BY Constants DEF Places, ListenerInv, ListenerTypeOK, L!FinishDone, L!Done
  <2>6. lrpc' \in [at : Spots, of : 0..MaxSessions, new : 0..MaxSessions]
    BY Constants DEF Spots, ListenerInv, ListenerTypeOK, L!FinishDone, L!Done
  <2>7. lcq' \in SUBSET [of : L!Ids, ok : BOOLEAN]
    <3> DEFINE b == lcall[s] = "open"
    <3>1. lcq' = lcq \union {[of |-> s, ok |-> b]} /\ lcq \in SUBSET [of : L!Ids, ok : BOOLEAN]
      BY DEF ListenerInv, ListenerTypeOK, L!FinishDone, L!Done
    <3>2. b \in BOOLEAN
      BY Zenon
    <3> HIDE DEF b
    <3>3. [of |-> s, ok |-> b] \in [of : L!Ids, ok : BOOLEAN]
      BY <3>2, Zenon
    <3> QED
      BY <3>1, <3>3
  <2>8. ldown' \in SUBSET {"server", "cq"}
    BY Constants DEF ListenerInv, ListenerTypeOK, L!FinishDone, L!Done
  <2> QED
    BY <2>1, <2>2, <2>3, <2>4, <2>5, <2>6, <2>7, <2>8, SameNumbers DEF ListenerTypeOK
<1>2. PlacesInv'
  BY Constants DEF ListenerTypeOK, ListenerInv, PlacesInv, L!FinishDone, L!Done
<1>3. TokensInv'
  BY Constants
  DEF ListenerTypeOK, PlacesInv, ListenerInv, TokensInv, L!FinishDone, L!Done
<1>4. NamedInv'
  BY <1>0, Constants
  DEF ListenerInv, ListenerTypeOK, PlacesInv, TokensInv, NamedInv, L!Done, L!At,
      L!Idle
<1>5. TableInv'
  BY <1>0, Constants
  DEF ListenerInv, ListenerTypeOK, PlacesInv, TokensInv, TableInv, TakenInv, L!Done,
      L!At, L!Idle
<1>6. TakenInv'
  BY Constants
  DEF ListenerTypeOK, TokensInv, PlacesInv, ListenerInv, TakenInv, L!FinishDone,
      L!Done
<1>7. CallsInv'
  BY Constants
  DEF ListenerTypeOK, TokensInv, PlacesInv, ListenerInv, CallsInv, HasCall,
      L!FinishDone, L!Done
<1>8. DownInv'
  BY Constants
  DEF ListenerTypeOK, TokensInv, PlacesInv, ListenerInv, DownInv, HasCall,
      L!FinishDone, L!Done
<1>9. Welcoming'
  BY Constants
  DEF ListenerTypeOK, TokensInv, PlacesInv, ListenerInv, Welcoming, Asking,
      L!FinishDone, L!Done
<1> QED
  BY <1>1, <1>2, <1>3, <1>4, <1>5, <1>6, <1>7, <1>8, <1>9 DEF ListenerInv

(* The first session of a kind asks for a call.                            *)
LEMMA KeepsAddSession ==
  ASSUME ListenerInv, NEW k \in Kinds, L!AddSession(k)
  PROVE  ListenerInv'
<1>0. ListenerTypeOK /\ L!New \in L!Ids /\ L!Construct(k, lcq)
  BY DEF L!AddSession, ListenerInv
<1>1. PICK n \in 1..MaxSessions : /\ L!New = n /\ lkind[n] = "none"
        /\ lkind' = [lkind EXCEPT ![n] = k] /\ lkind' \in [L!Ids -> Kinds \union {"none"}]
        /\ lstate' = [lstate EXCEPT ![n] = "WAIT_CONNECT"]
        /\ lstate' \in [L!Ids -> {"none", "WAIT_CONNECT", "WAIT_FINISH", "FINISHED"}]
        /\ Numbered'
        /\ \/ "server" \in ldown /\ request' = request /\ lcq' = lcq \union {[of |-> n, ok |-> FALSE]}
           \/ "server" \notin ldown /\ lcq' = lcq /\ request' = request \union {n}
  BY <1>0, Constructs
<1>2. /\ lkind' \in [L!Ids -> Kinds \union {"none"}] /\ Numbered'
      /\ lstate' \in [L!Ids -> {"none", "WAIT_CONNECT", "WAIT_FINISH", "FINISHED"}]
      /\ "server" \notin ldown /\ lcq' = lcq /\ request' = request \union {n}
  BY <1>1 DEF L!AddSession, ListenerInv, DownInv
<1>3. lmain' = L!At("insert", n) /\ lmain.at = "idle" /\ UNCHANGED <<sessions, lrpc, lcall, finish, ldown>>
  BY <1>1 DEF L!AddSession
<1>4. /\ n \in L!Ids /\ n # 0 /\ n \notin Asking \union finish /\ n # lrpc.of /\ n # lrpc.new
      /\ \A e \in lcq : e.of # n
  BY <1>1, Constants DEF ListenerInv, NamedInv, Asking
<1>5. \A s \in L!Ids : s # n => lkind'[s] = lkind[s] /\ lstate'[s] = lstate[s]
  BY <1>1 DEF ListenerInv, ListenerTypeOK
<1>6. lkind'[n] = k /\ lstate'[n] = "WAIT_CONNECT" /\ k # "none"
  BY <1>1, <1>4, Constants DEF ListenerInv, ListenerTypeOK
<1>7. ListenerTypeOK'
  <2>1. /\ lkind' \in [L!Ids -> Kinds \union {"none"}] /\ Numbered'
        /\ lstate' \in [L!Ids -> {"none", "WAIT_CONNECT", "WAIT_FINISH", "FINISHED"}]
    BY <1>2
  <2>2. lcall' \in [L!Ids -> {"none", "open", "dead", "over"}] /\ ldown' \in SUBSET {"server", "cq"}
    BY <1>3 DEF ListenerInv, ListenerTypeOK
  <2>3. sessions' \in SUBSET L!Ids /\ finish' \in SUBSET L!Ids
    BY <1>3 DEF ListenerInv, ListenerTypeOK
  <2>4. request' \in SUBSET L!Ids
    BY <1>1, <1>2, <1>3, Constants DEF ListenerInv, ListenerTypeOK
  <2>5. lmain' \in [at : Places, of : 0..MaxSessions]
    BY <1>1, <1>3, Constants DEF Places, ListenerInv, ListenerTypeOK, L!At
  <2>6. lrpc' \in [at : Spots, of : 0..MaxSessions, new : 0..MaxSessions]
    BY <1>1, <1>3, Constants DEF Spots, ListenerInv, ListenerTypeOK
  <2>7. lcq' \in SUBSET [of : L!Ids, ok : BOOLEAN]
    BY <1>2 DEF ListenerInv, ListenerTypeOK
  <2> QED
    BY <2>1, <2>2, <2>3, <2>4, <2>5, <2>6, <2>7 DEF ListenerTypeOK
<1>8. PlacesInv'
  BY <1>1, <1>2, <1>3, <1>4, <1>5, <1>6, Constants
  DEF ListenerInv, ListenerTypeOK, PlacesInv, L!Idle, L!At
<1>9. TokensInv'
  BY <1>1, <1>2, <1>3, <1>4, <1>5, <1>6, Constants
  DEF ListenerInv, ListenerTypeOK, PlacesInv, TokensInv, L!At
<1>10. NamedInv'
  BY <1>1, <1>2, <1>3, <1>4, <1>5, <1>6, Constants
  DEF ListenerInv, ListenerTypeOK, PlacesInv, NamedInv, Asking, L!At
<1>11. TableInv'
  BY <1>1, <1>2, <1>3, <1>4, <1>5, <1>6, Constants
  DEF ListenerInv, ListenerTypeOK, PlacesInv, TableInv, Asking, L!At
<1>12. TakenInv'
  BY <1>1, <1>2, <1>3, <1>4, <1>5, <1>6, Constants
  DEF ListenerInv, ListenerTypeOK, PlacesInv, TakenInv, TableInv, Asking, L!At
<1>13. CallsInv'
  BY <1>1, <1>2, <1>3, <1>4, <1>5, <1>6, Constants
  DEF ListenerInv, ListenerTypeOK, PlacesInv, CallsInv, HasCall, L!At
<1>14. DownInv'
  BY <1>1, <1>2, <1>3, <1>4, <1>5, <1>6, Constants
  DEF ListenerInv, ListenerTypeOK, PlacesInv, DownInv, HasCall, L!At
<1>15. Welcoming'
  BY <1>1, <1>2, <1>3, <1>4, <1>5, <1>6, Constants
  DEF ListenerInv, ListenerTypeOK, PlacesInv, Welcoming, Asking, L!At
<1> QED
  BY <1>7, <1>8, <1>9, <1>10, <1>11, <1>12, <1>13, <1>14, <1>15 DEF ListenerInv

(* The connected session names the one that follows it.                    *)
LEMMA KeepsConnected ==
  ASSUME ListenerInv, NEW s \in L!Ids, L!Connected(s)
  PROVE  ListenerInv'
<1> DEFINE queue == lcq \ {L!Done(s, TRUE)}
<1>0. /\ ListenerTypeOK /\ L!New \in L!Ids /\ L!Construct(lkind[s], queue)
      /\ L!Done(s, TRUE) \in lcq /\ s \in Asking /\ lkind[s] \in Kinds
  <2>1. ListenerTypeOK /\ L!New \in L!Ids /\ L!Construct(lkind[s], queue) /\ L!Done(s, TRUE) \in lcq
    BY DEF L!Connected, ListenerInv
  <2>2. L!Done(s, TRUE).of = s
    BY DEF L!Done
  <2>3. s \in Asking
    BY <2>1, <2>2 DEF Asking
  <2>4. lkind[s] \in Kinds
    BY <2>3 DEF ListenerInv, NamedInv, ListenerTypeOK
  <2> QED
    BY <2>1, <2>3, <2>4
<1>1. PICK n \in 1..MaxSessions :
        /\ L!New = n /\ lkind[n] = "none"
        /\ lkind' = [lkind EXCEPT ![n] = lkind[s]] /\ lkind' \in [L!Ids -> Kinds \union {"none"}]
        /\ lstate' = [lstate EXCEPT ![n] = "WAIT_CONNECT"]
        /\ lstate' \in [L!Ids -> {"none", "WAIT_CONNECT", "WAIT_FINISH", "FINISHED"}]
        /\ Numbered'
        /\ \/ "server" \in ldown /\ request' = request /\ lcq' = queue \union {[of |-> n, ok |-> FALSE]}
           \/ "server" \notin ldown /\ lcq' = queue /\ request' = request \union {n}
  <2> HIDE DEF queue
  <2> QED
    BY <1>0, Constructs
<1> HIDE DEF queue
<1>2. /\ lkind' \in [L!Ids -> Kinds \union {"none"}] /\ Numbered'
      /\ lstate' \in [L!Ids -> {"none", "WAIT_CONNECT", "WAIT_FINISH", "FINISHED"}]
  BY <1>1
<1>3. /\ lrpc' = [at |-> "insert", of |-> s, new |-> n] /\ lrpc.at = "next"
      /\ lstate[s] = "WAIT_CONNECT"
      /\ UNCHANGED <<sessions, lmain, lcall, finish, ldown>>
  BY <1>1 DEF L!Connected
<1>4. /\ n \in L!Ids /\ n # 0 /\ n # s /\ n \notin Asking \union finish /\ n # lmain.of
      /\ \A e \in lcq : e.of # n
  BY <1>0, <1>1, Constants DEF ListenerInv, NamedInv, Asking
<1>5. \A t \in L!Ids : t # n => lkind'[t] = lkind[t] /\ lstate'[t] = lstate[t]
  BY <1>1 DEF ListenerInv, ListenerTypeOK
<1>6. lkind'[n] = lkind[s] /\ lstate'[n] = "WAIT_CONNECT" /\ lkind[s] # "none" /\ lkind[s] \in Kinds
  BY <1>0, <1>1, <1>4, Constants DEF ListenerInv, ListenerTypeOK
<1>16. /\ lcq' \in SUBSET [of : L!Ids, ok : BOOLEAN]
       /\ \A e \in lcq' : (e \in lcq /\ e # L!Done(s, TRUE)) \/ (e = L!Done(n, FALSE) /\ "server" \in ldown)
       /\ Asking' = (Asking \ {s}) \union {n}
  <2>1. lcq \in SUBSET [of : L!Ids, ok : BOOLEAN]
    BY <1>0 DEF ListenerTypeOK
  <2>2. L!Done(n, FALSE) \in [of : L!Ids, ok : BOOLEAN] /\ L!Done(n, FALSE) = [of |-> n, ok |-> FALSE]
    BY <1>4, Zenon DEF L!Done
  <2>3. \A e \in lcq : e.of = s => e = L!Done(s, TRUE)
    <3>1. L!Done(s, TRUE).of = s
      BY DEF L!Done
    <3> QED
      BY <1>0, <3>1 DEF ListenerInv, TokensInv
  <2>9. queue = lcq \ {L!Done(s, TRUE)}
    BY DEF queue
  <2>4. {e.of : e \in queue} = {e.of : e \in lcq} \ {s}
    <3>1. L!Done(s, TRUE).of = s
      BY DEF L!Done
    <3> QED
      BY <2>3, <2>9, <3>1
  <2>5. s \notin request
    <3>1. L!Done(s, TRUE).of = s
      BY DEF L!Done
    <3> QED
      BY <1>0, <3>1 DEF ListenerInv, TokensInv
  <2>6. {e.of : e \in {L!Done(n, FALSE)}} = {n}
    BY OfDone
  <2>7. CASE "server" \in ldown /\ request' = request /\ lcq' = queue \union {L!Done(n, FALSE)}
    <3>1. {e.of : e \in lcq'} = {e.of : e \in queue} \union {n}
      BY <2>6, <2>7, OfBoth
    <3>2. Asking' = (Asking \ {s}) \union {n}
      BY <2>4, <2>5, <2>7, <3>1 DEF Asking
    <3>3. lcq' \in SUBSET [of : L!Ids, ok : BOOLEAN]
      BY <2>1, <2>2, <2>7, <2>9
    <3> QED
      BY <2>7, <2>9, <3>2, <3>3
  <2>8. CASE "server" \notin ldown /\ lcq' = queue /\ request' = request \union {n}
    <3>1. Asking' = (Asking \ {s}) \union {n}
      BY <1>4, <2>4, <2>5, <2>8 DEF Asking
    <3> QED
      BY <2>1, <2>8, <2>9, <3>1
  <2> QED
    BY <1>1, <2>2, <2>7, <2>8
<1>17. /\ request' \subseteq request \union {n} /\ ("server" \in ldown => request' = request)
       /\ request' \union {e.of : e \in lcq'} = Asking' /\ s \notin request /\ s \notin finish /\ s # n /\ s # 0
       /\ HasCall(s) /\ L!Done(n, FALSE).of = n /\ L!Done(n, FALSE).ok = FALSE
       /\ \A e \in lcq : e.of = s => e = L!Done(s, TRUE)
  <2>1. L!Done(s, TRUE).of = s /\ L!Done(s, TRUE).ok = TRUE /\ L!Done(n, FALSE).of = n /\ L!Done(n, FALSE).ok = FALSE
    BY DEF L!Done
  <2>2. s \notin request /\ s \notin finish /\ \A e \in lcq : e.of = s => e = L!Done(s, TRUE)
    BY <1>0, <2>1 DEF ListenerInv, TokensInv
  <2>3. HasCall(s)
    BY <1>0, <1>3, <2>1 DEF ListenerInv, CallsInv
  <2> QED
    BY <1>1, <1>4, <2>1, <2>2, <2>3, Constants DEF Asking
<1>7. ListenerTypeOK'
  <2>1. /\ lkind' \in [L!Ids -> Kinds \union {"none"}] /\ Numbered'
        /\ lstate' \in [L!Ids -> {"none", "WAIT_CONNECT", "WAIT_FINISH", "FINISHED"}]
    BY <1>2
  <2>2. lcall' \in [L!Ids -> {"none", "open", "dead", "over"}] /\ ldown' \in SUBSET {"server", "cq"}
    BY <1>3 DEF ListenerInv, ListenerTypeOK
  <2>3. sessions' \in SUBSET L!Ids /\ finish' \in SUBSET L!Ids
    BY <1>3 DEF ListenerInv, ListenerTypeOK
  <2>4. request' \in SUBSET L!Ids
    BY <1>4, <1>17 DEF ListenerInv, ListenerTypeOK
  <2>5. lmain' \in [at : Places, of : 0..MaxSessions]
    BY <1>1, <1>3, Constants DEF Places, ListenerInv, ListenerTypeOK
  <2>6. lrpc' \in [at : Spots, of : 0..MaxSessions, new : 0..MaxSessions]
    BY <1>1, <1>3, Constants DEF Spots, ListenerInv, ListenerTypeOK
  <2>7. lcq' \in SUBSET [of : L!Ids, ok : BOOLEAN]
    BY <1>16
  <2> QED
    BY <2>1, <2>2, <2>3, <2>4, <2>5, <2>6, <2>7 DEF ListenerTypeOK
<1>8. PlacesInv'
  BY <1>3, <1>4, <1>17, Constants DEF ListenerInv, PlacesInv
<1>18. lrpc.of = 0 /\ lrpc.new = 0 /\ request \subseteq L!Ids /\ finish \subseteq L!Ids /\ lrpc' = [at |-> "insert", of |-> s, new |-> n]
  BY <1>3 DEF ListenerInv, PlacesInv, ListenerTypeOK
<1>9. TokensInv'
  <2>1. \A t \in request' : t \notin finish' /\ lrpc'.of # t /\ \A e \in lcq' : e.of # t
    <3> TAKE t \in request'
    <3>1. t \notin finish' /\ lrpc'.of # t
      BY <1>3, <1>4, <1>17, <1>18 DEF ListenerInv, TokensInv
    <3>2. ASSUME NEW e \in lcq' PROVE e.of # t
      <4>1. CASE t \in request
        BY <1>4, <1>16, <1>17, <3>2, <4>1 DEF ListenerInv, TokensInv, Asking
      <4>2. CASE t = n /\ t \notin request
        BY <1>4, <1>16, <1>17, <3>2, <4>2
      <4> QED
        BY <1>17, <4>1, <4>2
    <3> QED
      BY <3>1, <3>2
  <2>2. \A t \in finish' : lrpc'.of # t /\ \A e \in lcq' : e.of # t
    <3> TAKE t \in finish'
    <3>1. t \in finish /\ t # n /\ t # s
      BY <1>3, <1>4, <1>17
    <3>2. \A e \in lcq : e.of # t
      BY <3>1 DEF ListenerInv, TokensInv
    <3> QED
      BY <1>16, <1>17, <1>18, <3>1, <3>2
  <2>3. ASSUME NEW e \in lcq' PROVE lrpc'.of # e.of
    BY <1>16, <1>17, <1>18
  <2>4. ASSUME NEW e \in lcq', NEW f \in lcq', e.of = f.of PROVE e = f
    BY <1>4, <1>16, <1>17, <2>4 DEF ListenerInv, TokensInv
  <2> QED
    BY <2>1, <2>2, <2>3, <2>4 DEF TokensInv
<1>10. NamedInv'
  <2>1. \A t \in Asking' \union finish \union ({lmain.of, s, n} \ {0}) : t = n \/ (lkind[t] # "none" /\ t \in L!Ids)
    <3>1. Asking \union finish \union {s} \subseteq L!Ids
      BY <1>0 DEF ListenerTypeOK, Asking
    <3>2. lmain.of # 0 => lmain.of \in L!Ids
      BY <1>0, Constants DEF ListenerTypeOK
    <3>3. s \in Asking
      BY <1>0
    <3> QED
      BY <1>16, <3>1, <3>2, <3>3 DEF ListenerInv, NamedInv
  <2> QED
    BY <1>3, <1>5, <1>6, <1>18, <2>1 DEF NamedInv
<1>11. TableInv'
  <2>1. \A t \in Asking' \union finish : t = n \/ t \in sessions \union {lmain.of} \/ t = 0
    BY <1>16, <1>18 DEF ListenerInv, TableInv
  <2>2. \A t \in Asking' \union finish : t # 0
    BY <1>4, <1>16, <1>18, Constants DEF ListenerInv, ListenerTypeOK, Asking
  <2> QED
    BY <1>3, <1>18, <2>1, <2>2 DEF TableInv
<1>12. TakenInv'
  BY <1>0, <1>3, <1>17, <1>18 DEF ListenerInv, TableInv, TakenInv
<1>13. CallsInv'
  <2>1. \A t \in finish' : HasCall(t)' /\ lstate'[t] = "WAIT_FINISH"
    BY <1>3, <1>4, <1>5, <1>18 DEF ListenerInv, CallsInv, HasCall
  <2>2. HasCall(lrpc.of)'
    BY <1>3, <1>17, <1>18 DEF HasCall
  <2>3. ASSUME NEW e \in lcq', lstate'[e.of] = "WAIT_CONNECT"
        PROVE  IF e.ok THEN HasCall(e.of)' ELSE "server" \in ldown'
    <3>1. CASE e \in lcq
      <4>1. e.of \in L!Ids /\ e.of # n
        BY <1>4, <3>1 DEF ListenerInv, ListenerTypeOK
      <4>2. lstate[e.of] = "WAIT_CONNECT"
        BY <1>5, <2>3, <4>1
      <4> QED
        BY <1>3, <3>1, <4>2 DEF ListenerInv, CallsInv, HasCall
    <3>2. CASE e = L!Done(n, FALSE) /\ "server" \in ldown
      BY <1>3, <1>17, <3>2
    <3> QED
      BY <1>16, <3>1, <3>2
  <2> QED
    BY <2>1, <2>2, <2>3 DEF CallsInv
<1>14. DownInv'
  BY <1>3, <1>17 DEF ListenerInv, DownInv, HasCall
<1>15. Welcoming'
  <2> SUFFICES ASSUME lmain.at \in {"idle", "insert"}, NEW k \in Kinds, NEW t \in L!Ids, lkind'[t] = k
               PROVE  \E a \in Asking' : lkind'[a] = k /\ lstate'[a] = "WAIT_CONNECT"
    BY <1>3 DEF Welcoming
  <2>1. CASE k = lkind[s]
    BY <1>6, <1>16, <2>1
  <2>2. CASE k # lkind[s]
    <3>1. lkind[t] = k
      BY <1>5, <1>6, <2>2
    <3>2. PICK a \in Asking : lkind[a] = k /\ lstate[a] = "WAIT_CONNECT"
      BY <3>1 DEF ListenerInv, Welcoming
    <3>3. a # s /\ a # n /\ a \in L!Ids
      <4>1. Asking \subseteq L!Ids
        BY <1>0 DEF ListenerTypeOK, Asking
      <4> QED
        BY <1>4, <2>2, <3>2, <4>1
    <3> QED
      BY <1>5, <1>16, <3>2, <3>3
  <2> QED
    BY <2>1, <2>2
<1> QED
  BY <1>7, <1>8, <1>9, <1>10, <1>11, <1>12, <1>13, <1>14, <1>15 DEF ListenerInv

-----------------------------------------------------------------------------
(* The caller.                                                             *)

LEMMA CallKeepsStartCall ==
  ASSUME CallerInv, NEW c \in C!Ids, C!StartCall(c)
  PROVE  CallerInv'
<1>1. CallerTypeOK'
  BY Constants DEF CallerInv, CallerTypeOK, C!At, C!StartCall
<1> QED
  BY <1>1, Constants DEF CallerInv, CallerTypeOK, C!At, C!StartCall

(* The state is set while gRPC works.                                      *)
LEMMA CallKeepsWaitFinish == ASSUME CallerInv, C!WaitFinish PROVE CallerInv'
<1>1. CallerTypeOK'
  BY Constants DEF CallerInv, CallerTypeOK, C!At, C!WaitFinish
<1> QED
  BY <1>1, Constants DEF CallerInv, CallerTypeOK, C!At, C!WaitFinish

(* The call is entered.                                                    *)
LEMMA CallKeepsInsertCall == ASSUME CallerInv, C!InsertCall PROVE CallerInv'
<1>1. CallerTypeOK'
  <2>1. /\ cstate' \in [C!Ids -> {"none", "WAIT_CONNECT", "WAIT_FINISH", "FINISHED"}]
        /\ waiting' \in SUBSET C!Ids /\ ccq' \in SUBSET C!Ids
    BY DEF CallerInv, CallerTypeOK, C!InsertCall
  <2>2. calls' \in SUBSET C!Ids
    <3>1. cmain.of \in C!Ids
      BY Constants DEF CallerInv, CallerTypeOK, C!InsertCall
    <3> QED
      BY <3>1 DEF CallerInv, CallerTypeOK, C!InsertCall
  <2>3. cmain'.of \in 0..MaxCalls /\ crpc'.of \in 0..MaxCalls
    BY Constants DEF CallerInv, CallerTypeOK, C!At, C!InsertCall
  <2> QED
    BY <2>1, <2>2, <2>3 DEF CallerTypeOK
<1> QED
  BY <1>1, Constants DEF CallerInv, CallerTypeOK, C!At, C!InsertCall

(* Stop cancels what is in the table.                                      *)
LEMMA CallKeepsStopCalls == ASSUME CallerInv, C!StopCalls PROVE CallerInv'
<1>1. CallerTypeOK'
  BY Constants DEF CallerInv, CallerTypeOK, C!At, C!StopCalls
<1> QED
  BY <1>1, Constants DEF CallerInv, CallerTypeOK, C!At, C!StopCalls

(* Stop shuts the queue down.                                              *)
LEMMA CallKeepsStopQueue == ASSUME CallerInv, C!StopQueue PROVE CallerInv'
<1>1. CallerTypeOK'
  BY Constants DEF CallerInv, CallerTypeOK, C!At, C!StopQueue
<1> QED
  BY <1>1, Constants DEF CallerInv, CallerTypeOK, C!At, C!StopQueue

(* Stop returns.                                                           *)
LEMMA CallKeepsJoin == ASSUME CallerInv, C!Join PROVE CallerInv'
<1>1. CallerTypeOK'
  BY Constants DEF CallerInv, CallerTypeOK, C!At, C!Join
<1> QED
  BY <1>1, Constants DEF CallerInv, CallerTypeOK, C!At, C!Join

(* A call gRPC works on becomes a completion.                              *)
LEMMA CallKeepsRespond == ASSUME CallerInv, NEW c, C!Respond(c) PROVE CallerInv'
<1>1. CallerTypeOK'
  BY Constants DEF CallerInv, CallerTypeOK, C!At, C!Respond
<1> QED
  BY <1>1, Constants DEF CallerInv, CallerTypeOK, C!At, C!Respond

(* A completion is taken out and the call is to be removed.                *)
LEMMA CallKeepsOnCompletionEvent ==
  ASSUME CallerInv, NEW c \in C!Ids, C!OnCompletionEvent(c)
  PROVE  CallerInv'
<1>1. CallerTypeOK'
  BY Constants DEF CallerInv, CallerTypeOK, C!At, C!OnCompletionEvent
<1> QED
  BY <1>1, Constants DEF CallerInv, CallerTypeOK, C!At, C!OnCompletionEvent

(* The call leaves the table.                                              *)
LEMMA CallKeepsRemoveCall == ASSUME CallerInv, C!RemoveCall PROVE CallerInv'
<1>1. CallerTypeOK'
  <2>1. /\ cstate' \in [C!Ids -> {"none", "WAIT_CONNECT", "WAIT_FINISH", "FINISHED"}]
        /\ waiting' \in SUBSET C!Ids /\ ccq' \in SUBSET C!Ids
    BY DEF CallerInv, CallerTypeOK, C!RemoveCall
  <2>2. calls' \in SUBSET C!Ids
    BY Constants DEF CallerInv, CallerTypeOK, C!RemoveCall
  <2>3. cmain'.of \in 0..MaxCalls /\ crpc'.of \in 0..MaxCalls
    BY Constants DEF CallerInv, CallerTypeOK, C!At, C!RemoveCall
  <2> QED
    BY <2>1, <2>2, <2>3 DEF CallerTypeOK
<1> QED
  BY <1>1, Constants DEF CallerInv, CallerTypeOK, C!At, C!RemoveCall

(* The dispatcher leaves its loop.                                         *)
LEMMA CallKeepsQueueDrained == ASSUME CallerInv, C!QueueDrained PROVE CallerInv'
<1>1. CallerTypeOK'
  BY Constants DEF CallerInv, CallerTypeOK, C!At, C!QueueDrained
<1> QED
  BY <1>1, Constants DEF CallerInv, CallerTypeOK, C!At, C!QueueDrained

-----------------------------------------------------------------------------
(* Both.                                                                   *)

LEMMA InitKeeps == RpcInit => ListenerInv /\ CallerInv
<1> SUFFICES ASSUME RpcInit PROVE ListenerInv /\ CallerInv
  OBVIOUS
<1>1. /\ lkind = [s \in L!Ids |-> "none"] /\ lstate = [s \in L!Ids |-> "none"] /\ lcall = [s \in L!Ids |-> "none"]
      /\ sessions = {} /\ request = {} /\ finish = {} /\ lcq = {} /\ ldown = {}
      /\ lmain = [at |-> "idle", of |-> 0] /\ lrpc = [at |-> "next", of |-> 0, new |-> 0]
  BY DEF RpcInit, L!Init, L!At, L!Idle
<1>2. Numbered
  <2>1. L!Constructed = 1..(1 - 1) /\ 1 \in 1..(MaxSessions + 1)
    BY <1>1, Constants DEF L!Constructed
  <2> QED
    BY <2>1 DEF Numbered
<1>3. ListenerTypeOK
  <2>1. lmain \in [at : Places, of : 0..MaxSessions]
    BY <1>1, Constants DEF Places
  <2>2. lrpc \in [at : Spots, of : 0..MaxSessions, new : 0..MaxSessions]
    BY <1>1, Constants DEF Spots
  <2> QED
    BY <1>1, <1>2, <2>1, <2>2 DEF ListenerTypeOK
<1>4. PlacesInv /\ TokensInv /\ NamedInv /\ TableInv /\ TakenInv /\ CallsInv /\ DownInv
  BY <1>1
  DEF PlacesInv, TokensInv, NamedInv, TableInv, TakenInv, CallsInv, DownInv, Asking
<1>5. Welcoming
  BY <1>1, Constants DEF Welcoming
<1>6. CallerInv
  <2>1. cmain = [at |-> "idle", of |-> 0] /\ crpc = [at |-> "next", of |-> 0]
    BY DEF RpcInit, C!Init, C!At
  <2>2. CallerTypeOK
    BY <2>1, Constants DEF RpcInit, C!Init, CallerTypeOK
  <2> QED
    BY <2>1, <2>2, Constants DEF RpcInit, C!Init, CallerInv
<1> QED
  BY <1>3, <1>4, <1>5, <1>6 DEF ListenerInv

(* The caller leaves the listener alone.                                   *)
LEMMA ListenerStutters == ASSUME ListenerInv, UNCHANGED lvars PROVE ListenerInv'
<1>1. ListenerTypeOK'
  BY SameNumbers DEF ListenerInv, ListenerTypeOK, lvars
<1>2. PlacesInv' /\ TokensInv' /\ TakenInv' /\ CallsInv' /\ DownInv'
  BY DEF ListenerInv, lvars, PlacesInv, TokensInv, TakenInv, CallsInv, DownInv, HasCall
<1>3. NamedInv' /\ TableInv' /\ Welcoming'
  BY DEF ListenerInv, lvars, NamedInv, TableInv, Welcoming, Asking
<1> QED
  BY <1>1, <1>2, <1>3 DEF ListenerInv

(* The listener leaves the caller alone.                                   *)
LEMMA CallerStutters == ASSUME CallerInv, UNCHANGED cvars PROVE CallerInv'
BY DEF CallerInv, CallerTypeOK, cvars

(* What a step of the two together is for the listener.                    *)
LEMMA ListenerSteps ==
  ASSUME ListenerInv, [RpcNext]_rpcvars PROVE ListenerInv'
<1>1. CASE UNCHANGED lvars
  BY <1>1, ListenerStutters
<1>2. CASE L!Dispatcher
  <2>1. ASSUME NEW s \in L!Ids, L!Connected(s) PROVE ListenerInv'
    BY <2>1, KeepsConnected
  <2>2. ASSUME NEW s \in L!Ids, NEW ok \in BOOLEAN, L!Over(s, ok) PROVE ListenerInv'
    BY <2>2, KeepsOver
  <2>3. ASSUME NEW s \in L!Ids, L!ConnectedAborts(s) PROVE ListenerInv'
    BY <2>3, KeepsConnectedAborts
  <2>4. CASE L!InsertAndFinish
    BY <2>4, KeepsInsertAndFinish, KeepsInsertAborts
  <2>5. CASE L!RemoveSession \/ L!QueueDrained
    BY <2>5, KeepsRemoveSession, KeepsQueueDrained
  <2> QED
    BY <1>2, <2>1, <2>2, <2>3, <2>4, <2>5 DEF L!Dispatcher
<1>3. CASE L!Adding
  BY <1>3, KeepsInsertSession, KeepsAddSession DEF L!Adding
<1>4. CASE L!Stop \/ L!StopSessions
  BY <1>4, KeepsStopServer, KeepsStopQueue, KeepsJoin, KeepsStopSessions DEF L!Stop
<1>5. ASSUME NEW s \in L!Ids, L!Accept(s) \/ L!HangUp(s) \/ L!FinishDone(s) PROVE ListenerInv'
  BY <1>5, KeepsAccept, KeepsHangUp, KeepsFinishDone
<1>6. \/ UNCHANGED lvars \/ L!Dispatcher \/ L!Adding \/ L!Stop \/ L!StopSessions
      \/ \E s \in L!Ids : L!Accept(s) \/ L!HangUp(s) \/ L!FinishDone(s)
  BY DEF RpcNext, rpcvars, ListenerStep, CallerStep, Deliver, Answer, Fail
<1> QED
  BY <1>1, <1>2, <1>3, <1>4, <1>5, <1>6

(* What a step of the two together is for the caller.                      *)
LEMMA CallerSteps ==
  ASSUME CallerInv, [RpcNext]_rpcvars PROVE CallerInv'
<1>1. CASE UNCHANGED cvars
  BY <1>1, CallerStutters
<1>2. CASE C!Dispatcher
  BY <1>2, CallKeepsOnCompletionEvent, CallKeepsRemoveCall, CallKeepsQueueDrained
  DEF C!Dispatcher
<1>3. CASE C!Starting \/ C!Stop \/ C!StopCalls
  BY <1>3, CallKeepsWaitFinish, CallKeepsInsertCall, CallKeepsStopQueue, CallKeepsJoin, CallKeepsStopCalls
  DEF C!Starting, C!Stop
<1>4. ASSUME NEW c \in C!Ids, C!StartCall(c) PROVE CallerInv'
  BY <1>4, CallKeepsStartCall
<1>5. ASSUME NEW c, C!Respond(c) PROVE CallerInv'
  BY <1>5, CallKeepsRespond
<1>6. \/ UNCHANGED cvars \/ C!Dispatcher \/ C!Starting \/ C!Stop \/ C!StopCalls
      \/ (\E c \in C!Ids : C!StartCall(c)) \/ (\E c : C!Respond(c))
  BY DEF RpcNext, rpcvars, ListenerStep, CallerStep, Deliver, Answer, Fail
<1> QED
  BY <1>1, <1>2, <1>3, <1>4, <1>5, <1>6

-----------------------------------------------------------------------------
(* The inductive invariant of both ends.                                   *)
THEOREM ServiceInvariant == RpcSpec => [](ListenerInv /\ CallerInv)
<1>1. ListenerInv /\ CallerInv /\ [RpcNext]_rpcvars => (ListenerInv /\ CallerInv)'
  BY ListenerSteps, CallerSteps
<1> QED
  BY InitKeeps, <1>1, PTL DEF RpcSpec

(* The listener is never deaf: until Stop, every kind of session that was  *)
(* added has a session whose constructor asked for a call, and whose       *)
(* completion is still to be handled.                                      *)
THEOREM NeverDeaf == RpcSpec => []Welcoming
<1>1. ListenerInv => Welcoming
  BY DEF ListenerInv
<1> QED
  BY <1>1, ServiceInvariant, PTL

(* Stop finds in the tables everything gRPC works on, but for what is      *)
(* being entered.                                                          *)
THEOREM StopFindsThem == RpcSpec => []PendingInTable
<1>1. ListenerInv /\ CallerInv => PendingInTable
  <2> SUFFICES ASSUME ListenerInv, CallerInv PROVE PendingInTable
    OBVIOUS
  <2>1. request \union finish \subseteq sessions \union {lmain.of, lrpc.new}
    BY DEF ListenerInv, TableInv, Asking
  <2>2. waiting \subseteq calls \union {cmain.of}
    BY DEF CallerInv
  <2> QED
    BY <2>1, <2>2 DEF PendingInTable
<1> QED
  BY <1>1, ServiceInvariant, PTL

(* When Stop has shut the queue of the listener down, what its dispatcher  *)
(* still works on is a call its client has dropped, and so is the call for *)
(* which gRPC aborts the program.                                          *)
THEOREM LateCallsAreDropped == RpcSpec => []LateOnlyIfDropped
<1>1. ListenerInv => LateOnlyIfDropped
  <2> SUFFICES ASSUME ListenerInv PROVE LateOnlyIfDropped
    OBVIOUS
  <2>1. \A s \in L!Ids : "cq" \in ldown /\ HasCall(s) => Dropped(s)
    BY DEF ListenerInv, DownInv, HasCall, Dropped
  <2>2. lrpc.at \in {"insert", "aborted"} => lrpc.of \in L!Ids /\ HasCall(lrpc.of)
    BY Constants DEF ListenerInv, CallsInv, ListenerTypeOK, PlacesInv
  <2>3. "cq" \in ldown => request = {}
    BY DEF ListenerInv, DownInv
  <2>4. \A s \in finish : s \in L!Ids /\ HasCall(s)
    BY DEF ListenerInv, CallsInv, ListenerTypeOK
  <2>5. \A e \in lcq : e.ok /\ lstate[e.of] = "WAIT_CONNECT" => e.of \in L!Ids /\ HasCall(e.of)
    BY DEF ListenerInv, CallsInv, ListenerTypeOK
  <2>6. lrpc.at = "aborted" => "cq" \in ldown
    BY DEF ListenerInv, DownInv
  <2> QED
    BY <2>1, <2>2, <2>3, <2>4, <2>5, <2>6 DEF LateOnlyIfDropped
<1> QED
  BY <1>1, ServiceInvariant, PTL

-----------------------------------------------------------------------------
(* The subscriber.                                                         *)

(* Operations and their completions.                                       *)

LEMMA Posts ==
  ASSUME TypeOK, NEW op \in Ops, pending[op] = 0, Post(op)
  PROVE  /\ pending' \in [Ops -> 0..1] /\ pending'[op] = 1
         /\ \A o \in Ops \ {op} : pending'[o] = pending[o]
BY DEF TypeOK, Post

LEMMA CompletionsSame ==
  ASSUME UNCHANGED <<cq, event>> PROVE \A op \in Ops : Completions(op)' = Completions(op)
BY DEF Completions

LEMMA Completes ==
  ASSUME TypeOK, NEW op \in Ops, NEW ok \in BOOLEAN, NEW m \in 0..MaxStates,
         pending[op] > 0, Complete(op, ok, m), event' = event
  PROVE  /\ pending' \in [Ops -> 0..1] /\ pending'[op] = 0
         /\ \A o \in Ops \ {op} : pending'[o] = pending[o]
         /\ cq' \in SUBSET Events
         /\ Completions(op)' = Completions(op) \union {Done(op, ok, m)}
         /\ \A o \in Ops \ {op} : Completions(o)' = Completions(o)
<1>1. pending' = [pending EXCEPT ![op] = @ - 1] /\ cq' = cq \union {Done(op, ok, m)}
  BY DEF Complete
<1>2. pending \in [Ops -> 0..1] /\ cq \in SUBSET Events
  BY DEF TypeOK
<1>3. pending[op] = 1
  BY <1>2
<1>4. Done(op, ok, m) \in Events /\ Done(op, ok, m).op = op
  BY DEF Done, Events
<1>5. /\ Completions(op)' = Completions(op) \union {Done(op, ok, m)}
      /\ \A o \in Ops \ {op} : Completions(o)' = Completions(o)
  BY <1>1, <1>4 DEF Completions
<1> QED
  BY <1>1, <1>2, <1>3, <1>4, <1>5

(* Next takes a completion out of the queue.                               *)
LEMMA Taken ==
  ASSUME event = Nothing, NEW e \in cq, cq' = cq \ {e}, event' = e
  PROVE  \A op \in Ops : Completions(op)' = Completions(op)
<1>1. \A op \in Ops : Nothing.op # op
  BY DEF Nothing, Done, Ops
<1> QED
  BY <1>1 DEF Completions

(* The dispatcher is done with the completion it has taken.                *)
LEMMA Handled ==
  ASSUME OneOfEach, event \notin cq, event' = Nothing, cq' = cq
  PROVE  \A op \in Ops : /\ event.op = op => Completions(op)' = {} /\ pending[op] # 1
                         /\ event.op # op => Completions(op)' = Completions(op)
<1>1. \A op \in Ops : Nothing.op # op
  BY DEF Nothing, Done, Ops
<1>2. \A op \in Ops : Completions(op)' = {e \in cq : e.op = op}
  BY <1>1 DEF Completions
<1> SUFFICES ASSUME NEW op \in Ops
    PROVE  /\ event.op = op => Completions(op)' = {} /\ pending[op] # 1
           /\ event.op # op => Completions(op)' = Completions(op)
  OBVIOUS
<1>3. event.op # op => Completions(op)' = Completions(op)
  BY <1>2 DEF Completions
<1>4. ASSUME event.op = op PROVE pending[op] # 1 /\ Completions(op)' \subseteq {event}
  BY <1>2, <1>4 DEF Completions, OneOfEach
<1>5. event.op = op => Completions(op)' = {}
  BY <1>2, <1>4
<1> QED
  BY <1>3, <1>4, <1>5

(* The session begins with one operation.                                  *)
LEMMA Begins ==
  ASSUME pending' = [NoOps EXCEPT !["start"] = 1], cq' = {}, event' = Nothing
  PROVE  /\ pending' \in [Ops -> 0..1] /\ pending'["start"] = 1
         /\ pending'["read"] = 0 /\ pending'["finish"] = 0
         /\ \A op \in Ops : Completions(op)' = {}
<1>1. \A op \in Ops : Nothing.op # op
  BY DEF Nothing, Done, Ops
<1> QED
  BY <1>1 DEF NoOps, Ops, Completions

(* Completions are of the operation that is outstanding.                   *)
LEMMA EventIs ==
  ASSUME TypeOK, PhaseInv, TokenInv, rpc = "event"
  PROVE  /\ state = "WAIT_START" => event.op = "start"
         /\ state = "WAIT_READ_DONE" => event.op = "read" /\ event \in Completions("read")
<1>1. event \in Events /\ event.op \in Ops
  BY DEF TypeOK, PhaseInv, Events
<1>2. event \in Completions(event.op)
  BY DEF Completions
<1>3. Outstanding(event.op)
  BY <1>2 DEF Outstanding
<1> QED
  BY <1>1, <1>2, <1>3 DEF TokenInv, Ops

(* What is posted is not outstanding.                                      *)
LEMMA FinishIsFree ==
  ASSUME TypeOK, TokenInv, CanFinish
  PROVE  pending["finish"] = 0 /\ Completions("finish") = {} /\ state = "WAIT_READ_DONE"
BY DEF TypeOK, TokenInv, CanFinish, Outstanding, Ops

LEMMA ReadIsFree ==
  ASSUME TypeOK, PhaseInv, TokenInv, (rpc = "event" /\ state = "WAIT_START") \/ rpc = "handler"
  PROVE  pending["read"] = 0 /\ Completions("read") = {}
BY DEF TypeOK, PhaseInv, TokenInv, Outstanding, Ops

-----------------------------------------------------------------------------
(* The types.                                                              *)

LEMMA TypeStep == TypeOK /\ PhaseInv /\ TokenInv /\ StreamInv /\ [Next]_vars => TypeOK'
<1> SUFFICES ASSUME TypeOK, PhaseInv, TokenInv, StreamInv, [Next]_vars PROVE TypeOK'
  OBVIOUS
<1> USE DEF sessionVars, grpcVars
<1>0. MaxStates \in Nat /\ "start" \in Ops /\ "read" \in Ops /\ "finish" \in Ops
  BY StateSubscriberAssumption DEF Ops
<1>1. CASE NextEvent
  BY <1>1 DEF TypeOK, NextEvent
<1>2. CASE Started
  <2>1. CASE QueueClosed
    BY <1>2, <2>1 DEF TypeOK, Started, Read, Leave
  <2>2. CASE ~QueueClosed
    <3>1. Post("read")
      BY <1>2, <2>2 DEF Started, Read
    <3>2. pending' \in [Ops -> 0..1]
      BY <1>0, <1>2, <3>1, Posts, ReadIsFree DEF Started
    <3> QED
      BY <1>2, <2>2, <3>2 DEF TypeOK, Started, Read, Leave
  <2> QED
    BY <2>1, <2>2
<1>3. CASE GotMessage
  <2>1. event \in Completions("read") /\ event.ok /\ event \in Events
    BY <1>3, EventIs DEF GotMessage, PhaseInv, TypeOK
  <2>2. event.m \in States
    BY <2>1, <1>0 DEF StreamInv, Events, TypeOK, States
  <2>3. handled' \in Seq(States)
    BY <1>3, <2>2 DEF GotMessage, TypeOK
  <2> QED
    BY <1>3, <2>3 DEF TypeOK, GotMessage
<1>4. CASE HandlerReturns
  <2>1. CASE QueueClosed
    BY <1>4, <2>1 DEF TypeOK, HandlerReturns, Read, Leave
  <2>2. CASE ~QueueClosed
    <3>1. Post("read")
      BY <1>4, <2>2 DEF HandlerReturns, Read
    <3>2. pending' \in [Ops -> 0..1]
      BY <1>0, <1>4, <3>1, Posts, ReadIsFree DEF HandlerReturns
    <3> QED
      BY <1>4, <2>2, <3>2 DEF TypeOK, HandlerReturns, Read, Leave
  <2> QED
    BY <2>1, <2>2
<1>5. CASE Finished
  BY <1>5 DEF TypeOK, Finished, Leave
<1>6. ASSUME NEW then, TryCancelCallAndShutdown(then)
      PROVE  /\ pending' \in [Ops -> 0..1] /\ call' = "dead" /\ sent' = sent /\ cq' = cq
             /\ state' \in {state, "WAIT_FINISH"} /\ app' \in {then, "aborted"}
  <2>1. CASE CanFinish
    BY <1>0, <1>6, <2>1, Posts, FinishIsFree DEF TryCancelCallAndShutdown, TryCancelCall
  <2>2. CASE ~CanFinish
    BY <1>6, <2>2 DEF TypeOK, TryCancelCallAndShutdown, TryCancelCall
  <2> QED
    BY <2>1, <2>2
<1>7. CASE CancelAfterEvent
  BY <1>6, <1>7 DEF TypeOK, CancelAfterEvent, Leave
<1>8. CASE DispatcherExits
  BY <1>8 DEF TypeOK, DispatcherExits, Leave
<1>9. ASSUME NEW op \in Ops, NEW ok \in BOOLEAN, NEW m \in 0..MaxStates,
             pending[op] > 0, Complete(op, ok, m), event' = event
      PROVE  pending' \in [Ops -> 0..1] /\ cq' \subseteq Events
  BY <1>9, Completes
<1>10. CASE StartSucceeds
  <2>1. pending["start"] > 0 /\ Complete("start", TRUE, 0) /\ event' = event
    BY <1>10 DEF StartSucceeds
  <2>2. TRUE \in BOOLEAN /\ 0 \in 0..MaxStates
    BY <1>0
  <2>3. pending' \in [Ops -> 0..1] /\ cq' \subseteq Events
    BY <1>0, <1>9, <2>1, <2>2
  <2> QED
    BY <1>10, <2>3 DEF TypeOK, StartSucceeds
<1>11. CASE StartFails
  <2>1. PICK ok \in BOOLEAN : Complete("start", ok, 0)
    BY <1>11 DEF StartFails
  <2>2. pending["start"] > 0 /\ event' = event /\ 0 \in 0..MaxStates
    BY <1>0, <1>11 DEF StartFails
  <2>3. pending' \in [Ops -> 0..1] /\ cq' \subseteq Events
    BY <1>0, <1>9, <2>1, <2>2
  <2> QED
    BY <1>11, <2>3 DEF TypeOK, StartFails
<1>12. CASE ReadDone
  <2>1. pending["read"] > 0 /\ event' = event /\ 0 \in 0..MaxStates /\ TRUE \in BOOLEAN /\ FALSE \in BOOLEAN
    BY <1>0, <1>12 DEF ReadDone
  <2>2. CASE sent # <<>> /\ Complete("read", TRUE, Head(sent)) /\ sent' = Tail(sent)
    <3>1. Head(sent) \in 0..MaxStates /\ sent' \in Seq(States)
      BY <2>2, <1>0 DEF TypeOK, States
    <3>2. pending' \in [Ops -> 0..1] /\ cq' \subseteq Events
      BY <1>0, <1>9, <2>1, <2>2, <3>1
    <3> QED
      BY <1>12, <3>1, <3>2 DEF TypeOK, ReadDone
  <2>3. CASE Complete("read", FALSE, 0) /\ UNCHANGED sent
    <3>1. pending' \in [Ops -> 0..1] /\ cq' \subseteq Events
      BY <1>0, <1>9, <2>1, <2>3
    <3> QED
      BY <1>12, <2>3, <3>1 DEF TypeOK, ReadDone
  <2> QED
    BY <1>12, <2>2, <2>3 DEF ReadDone
<1>13. CASE FinishDone
  <2>1. pending["finish"] > 0 /\ Complete("finish", TRUE, 0) /\ event' = event
    BY <1>13 DEF FinishDone
  <2>2. TRUE \in BOOLEAN /\ 0 \in 0..MaxStates
    BY <1>0
  <2>3. pending' \in [Ops -> 0..1] /\ cq' \subseteq Events
    BY <1>0, <1>9, <2>1, <2>2
  <2> QED
    BY <1>13, <2>3 DEF TypeOK, FinishDone
<1>14. CASE InitRequest
  <2>1. pending' \in [Ops -> 0..1]
    BY <1>14, Begins DEF InitRequest
  <2>2. running' \in BOOLEAN /\ down' \in BOOLEAN
    BY Zenon, <1>14 DEF InitRequest
  <2>3. sent' \in Seq(States) /\ cq' \subseteq Events /\ event' \in {Nothing}
    BY <1>14 DEF InitRequest
  <2> QED
    BY <1>14, <2>1, <2>2, <2>3 DEF TypeOK, InitRequest
<1>15. CASE CreateThread
  BY <1>15 DEF TypeOK, CreateThread
<1>16. CASE StopCancel
  BY <1>6, <1>16 DEF TypeOK, StopCancel
<1>17. CASE StopQueue \/ Join \/ Break \/ Reconnect \/ Destroy
  <2>1. CASE StopQueue
    BY <2>1 DEF TypeOK, StopQueue
  <2>2. CASE Join
    BY <2>2 DEF TypeOK, Join, Unfinished
  <2>3. CASE Break
    BY <2>3 DEF TypeOK, Break
  <2>4. CASE Reconnect
    BY <2>4 DEF TypeOK, Reconnect
  <2>5. CASE Destroy
    BY <2>5 DEF TypeOK, Destroy
  <2> QED
    BY <1>17, <2>1, <2>2, <2>3, <2>4, <2>5
<1>18. CASE Publish
  <2>1. published + 1 \in States /\ published' \in 0..MaxStates
    BY <1>0, <1>18 DEF TypeOK, Publish, States
  <2>2. sent' \in Seq(States)
    BY <1>18, <2>1 DEF TypeOK, Publish
  <2> QED
    BY <1>18, <2>1, <2>2 DEF TypeOK, Publish
<1>19. CASE UNCHANGED vars
  BY <1>19 DEF TypeOK, vars
<1> QED
  BY <1>1, <1>2, <1>3, <1>4, <1>5, <1>7, <1>8, <1>10, <1>11, <1>12, <1>13, <1>14, <1>15, <1>16,
     <1>17, <1>18, <1>19 DEF Next, Dispatcher, Grpc, App

-----------------------------------------------------------------------------
(* The places of the threads.                                              *)

LEMMA PhaseStep == TypeOK /\ PhaseInv /\ TokenInv /\ [Next]_vars => PhaseInv'
<1> SUFFICES ASSUME TypeOK, PhaseInv, TokenInv, [Next]_vars PROVE PhaseInv'
  OBVIOUS
<1> USE DEF sessionVars, grpcVars, PhaseInv, Active
<1>1. CASE NextEvent
  <2>1. \A e \in cq : e # Nothing
    BY DEF TypeOK, Events, Ops, Nothing, Done
  <2> QED
    BY <1>1, <2>1 DEF NextEvent
<1>2. CASE Started
  <2>1. app \in {"create", "spawn", "gone"} => FALSE
    BY <1>2 DEF Started
  <2>2. QueueClosed => app = "join"
    BY <1>2, <2>1 DEF Started, QueueClosed, TypeOK
  <2> QED
    BY <1>2, <2>1, <2>2 DEF Started, Read, Leave
<1>3. CASE GotMessage
  BY <1>3 DEF GotMessage
<1>4. CASE HandlerReturns
  <2>1. QueueClosed => app = "join"
    BY <1>4 DEF HandlerReturns, QueueClosed, TypeOK
  <2> QED
    BY <1>4, <2>1 DEF HandlerReturns, Read, Leave
<1>5. CASE Finished
  BY <1>5 DEF Finished, Leave
<1>6. CASE CancelAfterEvent
  <2>1. QueueClosed => app = "join"
    BY <1>6 DEF CancelAfterEvent, QueueClosed, TypeOK
  <2>2. CanFinish => state = "WAIT_READ_DONE"
    BY FinishIsFree
  <2>3. rpc = "cancel" /\ event' = Nothing /\ UNCHANGED <<early, running, down>>
    BY <1>6 DEF CancelAfterEvent, Leave
  <2>4. CASE CanFinish /\ QueueClosed
    <3>1. app' = "aborted" /\ rpc' = "aborted"
      BY <1>6, <2>4 DEF CancelAfterEvent, TryCancelCallAndShutdown, Leave
    <3> QED
      BY <2>1, <2>2, <2>3, <2>4, <3>1
  <2>5. CASE ~(CanFinish /\ QueueClosed)
    <3>1. app' = app /\ rpc' = "leave"
      BY <1>6, <2>5 DEF CancelAfterEvent, TryCancelCallAndShutdown, Leave
    <3>2. state' \in {state, "WAIT_FINISH"}
      BY <1>6 DEF CancelAfterEvent, TryCancelCallAndShutdown
    <3> QED
      BY <2>3, <3>1, <3>2
  <2> QED
    BY <2>4, <2>5
<1>7. CASE DispatcherExits
  BY <1>7 DEF DispatcherExits, Leave
<1>8. CASE StartSucceeds \/ StartFails \/ ReadDone \/ FinishDone \/ Publish \/ Break
  <2>1. UNCHANGED <<app, early, sessionVars, down>>
    BY <1>8 DEF StartSucceeds, StartFails, ReadDone, FinishDone, Publish, Break
  <2> QED
    BY <2>1
<1>9. CASE InitRequest
  BY <1>9 DEF InitRequest
<1>10. CASE CreateThread
  BY <1>10 DEF CreateThread
<1>11. CASE StopCancel
  BY <1>11 DEF StopCancel, TryCancelCallAndShutdown, CallMutexFree, CanFinish, QueueClosed
<1>12. CASE StopQueue
  BY <1>12 DEF StopQueue
<1>13. CASE Join
  BY <1>13 DEF Join
<1>14. CASE Reconnect
  BY <1>14 DEF Reconnect
<1>15. CASE Destroy
  BY <1>15 DEF Destroy
<1>16. CASE UNCHANGED vars
  BY <1>16 DEF vars
<1> QED
  BY <1>1, <1>2, <1>3, <1>4, <1>5, <1>6, <1>7, <1>8, <1>9, <1>10, <1>11, <1>12, <1>13, <1>14,
     <1>15, <1>16 DEF Next, Dispatcher, Grpc, App

-----------------------------------------------------------------------------
(* The operations outstanding.                                             *)

(* A step that leaves the operations and _call_state alone.                *)
LEMMA TokensSame ==
  ASSUME TokenInv, UNCHANGED <<state, pending>>,
         \A op \in Ops : Completions(op)' = Completions(op),
         event' \notin cq', app' = "spawn" => app = "spawn",
         app' \in {"spawn", "idle", "cancel"} => app \in {"spawn", "idle", "cancel"},
         rpc' = "next" => rpc = "next" \/ app = "spawn", rpc' = "handler" => rpc = "handler"
  PROVE  TokenInv'
<1>1. \A op \in Ops : Outstanding(op)' = Outstanding(op)
  BY DEF Outstanding
<1>2. "start" \in Ops /\ "read" \in Ops /\ "finish" \in Ops
  BY DEF Ops
<1>3. OneOfEach'
  BY DEF TokenInv, OneOfEach
<1> QED
  BY <1>1, <1>2, <1>3 DEF TokenInv

(* Read is started when the completion of the operation before is handled. *)
LEMMA TokenRead ==
  ASSUME TypeOK, PhaseInv, TokenInv, Read, cq' = cq,
         (rpc = "event" /\ state = "WAIT_START") \/ rpc = "handler"
  PROVE  TokenInv'
<1> USE DEF Ops
<1>1. event' = Nothing
  BY DEF Read, Leave
<1>2. Nothing \notin cq
  BY DEF TypeOK, Events, Nothing, Done
<1>3. \A op \in Ops : /\ event.op = op => Completions(op)' = {} /\ pending[op] # 1
                      /\ event.op # op => Completions(op)' = Completions(op)
  BY <1>1, Handled DEF TokenInv
<1>4. pending["read"] = 0 /\ Completions("read") = {} /\ Completions("read")' = {}
  BY <1>3, ReadIsFree
<1>5. ~Outstanding("finish") /\ Completions("finish")' = {}
  BY <1>3 DEF TokenInv, PhaseInv, Outstanding
<1>6. Completions("start")' = {} /\ pending["start"] # 1
  <2>1. CASE rpc = "event" /\ state = "WAIT_START"
    BY <2>1, <1>3, EventIs
  <2>2. CASE rpc = "handler"
    BY <2>2, <1>3 DEF TokenInv, PhaseInv, Outstanding
  <2> QED
    BY <2>1, <2>2
<1>7. CASE QueueClosed
  <2>1. UNCHANGED <<state, pending>> /\ rpc' = "aborted" /\ app' = "aborted"
    BY <1>7 DEF Read, Leave
  <2> QED
    BY <2>1, <1>1, <1>2, <1>4, <1>5, <1>6 DEF TokenInv, OneOfEach, Outstanding
<1>8. CASE ~QueueClosed
  <2>1. Post("read") /\ state' = "WAIT_READ_DONE" /\ rpc' = "next" /\ app' = app
    BY <1>8 DEF Read, Leave
  <2>2. pending'["read"] = 1 /\ pending'["start"] = pending["start"] /\ pending'["finish"] = pending["finish"]
    BY <2>1, <1>4, Posts
  <2>3. app # "spawn"
    BY DEF PhaseInv
  <2> QED
    BY <2>1, <2>2, <2>3, <1>1, <1>2, <1>4, <1>5, <1>6 DEF TokenInv, OneOfEach, Outstanding
<1> QED
  BY <1>7, <1>8

(* An operation completes.                                                 *)
LEMMA TokenCompletes ==
  ASSUME TypeOK, PhaseInv, TokenInv, NEW op \in Ops, NEW ok \in BOOLEAN, NEW m \in 0..MaxStates,
         pending[op] > 0, Complete(op, ok, m), UNCHANGED <<state, event, rpc, app>>
  PROVE  /\ TokenInv'
         /\ Completions(op)' = {Done(op, ok, m)} /\ \A o \in Ops \ {op} : Completions(o)' = Completions(o)
<1>1. /\ pending' \in [Ops -> 0..1] /\ pending'[op] = 0
      /\ \A o \in Ops \ {op} : pending'[o] = pending[o]
      /\ Completions(op)' = Completions(op) \union {Done(op, ok, m)}
      /\ \A o \in Ops \ {op} : Completions(o)' = Completions(o)
  BY Completes
<1>2. pending[op] = 1
  BY DEF TypeOK
<1>3. Completions(op) = {}
  BY <1>2 DEF TokenInv, OneOfEach
<1>4. \A o \in Ops : Outstanding(o)' <=> Outstanding(o)
  BY <1>1, <1>2, <1>3 DEF Outstanding
<1>5. OneOfEach'
  BY <1>1, <1>3 DEF TokenInv, OneOfEach
<1>6. event.op # op
  BY <1>3 DEF Completions
<1>7. event' \notin cq'
  BY <1>6 DEF Complete, Done, TokenInv
<1>8. "start" \in Ops /\ "read" \in Ops /\ "finish" \in Ops
  BY DEF Ops
<1> QED
  BY <1>1, <1>3, <1>4, <1>5, <1>7, <1>8 DEF TokenInv

(* Finish is started, or nothing happens to the operations.                *)
LEMMA TokenCancel ==
  ASSUME TypeOK, TokenInv, NEW then, TryCancelCallAndShutdown(then)
  PROVE  /\ cq' = cq
         /\ pending'["start"] = pending["start"] /\ pending'["read"] = pending["read"]
         /\ \/ UNCHANGED <<state, pending>> /\ state # "WAIT_READ_DONE"
            \/ /\ state = "WAIT_READ_DONE" /\ state' = "WAIT_FINISH"
               /\ pending["finish"] = 0 /\ pending'["finish"] = 1 /\ Completions("finish") = {}
<1>1. "start" \in Ops /\ "read" \in Ops /\ "finish" \in Ops
  BY DEF Ops
<1>2. CASE CanFinish
  <2>1. pending["finish"] = 0 /\ Completions("finish") = {} /\ state = "WAIT_READ_DONE"
    BY <1>2, FinishIsFree
  <2>2. Post("finish") /\ state' = "WAIT_FINISH" /\ cq' = cq
    BY <1>2 DEF TryCancelCallAndShutdown
  <2> QED
    BY <1>1, <2>1, <2>2, Posts
<1>3. CASE ~CanFinish
  BY <1>3 DEF TryCancelCallAndShutdown, CanFinish
<1> QED
  BY <1>2, <1>3

LEMMA TokenStep == TypeOK /\ PhaseInv /\ TokenInv /\ LeftInv /\ [Next]_vars => TokenInv'
<1> SUFFICES ASSUME TypeOK, PhaseInv, TokenInv, LeftInv, [Next]_vars PROVE TokenInv'
  OBVIOUS
<1> USE DEF sessionVars, grpcVars
<1>0. /\ MaxStates \in Nat /\ "start" \in Ops /\ "read" \in Ops /\ "finish" \in Ops
      /\ Nothing \notin cq /\ TRUE \in BOOLEAN /\ FALSE \in BOOLEAN /\ 0 \in 0..MaxStates
  BY StateSubscriberAssumption DEF Ops, TypeOK, Events, Nothing, Done
<1>1. CASE NextEvent
  <2>1. PICK e \in cq : cq' = cq \ {e} /\ event' = e /\ rpc' \in {"event", "cancel"}
    BY <1>1 DEF NextEvent
  <2>2. event = Nothing
    BY <1>1 DEF NextEvent, PhaseInv
  <2>3. \A op \in Ops : Completions(op)' = Completions(op)
    BY <2>1, <2>2, Taken
  <2> QED
    BY <1>1, <2>1, <2>3, TokensSame DEF NextEvent
<1>2. CASE Started
  BY <1>2, TokenRead DEF Started
<1>3. CASE GotMessage
  <2>1. event.op = "read" /\ event' = Nothing /\ cq' = cq
    BY <1>3, EventIs DEF GotMessage
  <2>2. \A op \in Ops : /\ event.op = op => Completions(op)' = {} /\ pending[op] # 1
                        /\ event.op # op => Completions(op)' = Completions(op)
    BY <2>1, Handled DEF TokenInv
  <2> QED
    BY <1>0, <1>3, <2>1, <2>2 DEF GotMessage, TokenInv, Outstanding, OneOfEach, PhaseInv, Ops
<1>4. CASE HandlerReturns
  BY <1>4, TokenRead DEF HandlerReturns
<1>5. CASE Finished
  <2>1. event' = Nothing /\ cq' = cq /\ pending' = pending
    BY <1>5 DEF Finished, Leave
  <2>2. \A op \in Ops : Completions(op)' \in {{}, Completions(op)}
    BY <2>1, Handled DEF TokenInv
  <2> QED
    BY <1>0, <1>5, <2>1, <2>2 DEF Finished, Leave, TokenInv, Outstanding, OneOfEach, PhaseInv, TypeOK
<1>6. CASE CancelAfterEvent
  <2>1. event' = Nothing /\ cq' = cq /\ rpc' \in {"aborted", "leave"} /\ app' \in {app, "aborted"} /\ app # "spawn"
    BY <1>6 DEF CancelAfterEvent, TryCancelCallAndShutdown, Leave, PhaseInv
  <2>2. \A op \in Ops : /\ Completions(op)' \in {{}, Completions(op)}
                        /\ Completions(op) = {} => Completions(op)' = {}
    BY <2>1, Handled DEF TokenInv
  <2>3. /\ pending'["start"] = pending["start"] /\ pending'["read"] = pending["read"]
        /\ \/ UNCHANGED <<state, pending>> /\ state # "WAIT_READ_DONE"
           \/ /\ state = "WAIT_READ_DONE" /\ state' = "WAIT_FINISH"
              /\ pending["finish"] = 0 /\ pending'["finish"] = 1 /\ Completions("finish") = {}
    BY <1>6, TokenCancel DEF CancelAfterEvent
  <2>4. state = "WAIT_READ_DONE" => event.op = "read"
    BY <1>6 DEF CancelAfterEvent, LeftInv
  <2>5. state = "WAIT_READ_DONE" => Completions("read")' = {} /\ pending["read"] # 1
    BY <1>0, <2>1, <2>4, Handled DEF TokenInv
  <2> QED
    BY <1>0, <2>1, <2>2, <2>3, <2>5 DEF TokenInv, Outstanding, OneOfEach, Ops
<1>7. CASE DispatcherExits
  <2>1. event = Nothing /\ event' = Nothing
    BY <1>7 DEF DispatcherExits, Leave, PhaseInv
  <2> QED
    BY <1>0, <1>7, <2>1, CompletionsSame, TokensSame DEF DispatcherExits, Leave
<1>8. CASE StartSucceeds
  <2>1. pending["start"] > 0 /\ Complete("start", TRUE, 0) /\ UNCHANGED <<state, event, rpc, app>>
    BY <1>8 DEF StartSucceeds
  <2> QED
    BY <1>0, <2>1, TokenCompletes
<1>9. CASE StartFails
  <2>1. PICK ok \in BOOLEAN : Complete("start", ok, 0)
    BY <1>9 DEF StartFails
  <2>2. pending["start"] > 0 /\ UNCHANGED <<state, event, rpc, app>>
    BY <1>9 DEF StartFails
  <2> QED
    BY <1>0, <2>1, <2>2, TokenCompletes
<1>10. CASE ReadDone
  <2>1. pending["read"] > 0 /\ UNCHANGED <<state, event, rpc, app>>
    BY <1>10 DEF ReadDone
  <2>2. CASE sent # <<>> /\ Complete("read", TRUE, Head(sent))
    <3>1. Head(sent) \in 0..MaxStates
      BY <2>2, <1>0 DEF TypeOK, States
    <3> QED
      BY <1>0, <2>1, <2>2, <3>1, TokenCompletes
  <2>3. CASE Complete("read", FALSE, 0)
    BY <1>0, <2>1, <2>3, TokenCompletes
  <2> QED
    BY <1>10, <2>2, <2>3 DEF ReadDone
<1>11. CASE FinishDone
  <2>1. pending["finish"] > 0 /\ Complete("finish", TRUE, 0) /\ UNCHANGED <<state, event, rpc, app>>
    BY <1>11 DEF FinishDone
  <2> QED
    BY <1>0, <2>1, TokenCompletes
<1>12. CASE InitRequest
  <2>1. /\ pending'["start"] = 1 /\ pending'["read"] = 0 /\ pending'["finish"] = 0
        /\ \A op \in Ops : Completions(op)' = {}
    BY <1>12, Begins DEF InitRequest
  <2>2. state' = "WAIT_START" /\ rpc' = "none" /\ event' \notin cq'
    BY <1>12 DEF InitRequest
  <2> QED
    BY <1>0, <2>1, <2>2 DEF TokenInv, OneOfEach, Outstanding
<1>13. CASE CreateThread
  <2>1. state = "WAIT_START" /\ Outstanding("start") /\ UNCHANGED <<state, pending, cq, event>>
        /\ rpc' = "next" /\ app' = "idle"
    BY <1>13 DEF CreateThread, TokenInv
  <2> QED
    BY <1>13, <2>1, CompletionsSame, TokensSame DEF CreateThread, TokenInv
<1>14. CASE StopCancel
  <2>1. UNCHANGED <<cq, event, rpc>> /\ app' \in {"shutdown", "aborted"}
    BY <1>14 DEF StopCancel, TryCancelCallAndShutdown
  <2>2. rpc \notin {"handler", "none"}
    BY <1>14 DEF StopCancel, TryCancelCallAndShutdown, CallMutexFree, PhaseInv
  <2>3. /\ pending'["start"] = pending["start"] /\ pending'["read"] = pending["read"]
        /\ \/ UNCHANGED <<state, pending>> /\ state # "WAIT_READ_DONE"
           \/ /\ state = "WAIT_READ_DONE" /\ state' = "WAIT_FINISH"
              /\ pending["finish"] = 0 /\ pending'["finish"] = 1 /\ Completions("finish") = {}
    BY <1>14, TokenCancel DEF StopCancel
  <2>4. \A op \in Ops : Completions(op)' = Completions(op)
    BY <2>1, CompletionsSame
  <2> QED
    BY <1>0, <2>1, <2>2, <2>3, <2>4 DEF TokenInv, Outstanding, OneOfEach, Ops
<1>15. CASE StopQueue \/ Join \/ Publish \/ Break \/ Reconnect \/ Destroy
  <2>1. /\ UNCHANGED <<state, pending, cq, event, rpc>> /\ (app' = "spawn" => app = "spawn")
        /\ app' \in {"spawn", "idle", "cancel"} => app \in {"spawn", "idle", "cancel"}
    BY <1>15 DEF StopQueue, Join, Publish, Break, Reconnect, Destroy
  <2> QED
    BY <2>1, CompletionsSame, TokensSame DEF TokenInv
<1>16. CASE UNCHANGED vars
  BY <1>16, CompletionsSame, TokensSame DEF vars, TokenInv
<1> QED
  BY <1>1, <1>2, <1>3, <1>4, <1>5, <1>6, <1>7, <1>8, <1>9, <1>10, <1>11, <1>12, <1>13, <1>14,
     <1>15, <1>16 DEF Next, Dispatcher, Grpc, App

-----------------------------------------------------------------------------
(* What is left at the join.                                               *)

LEMMA LeftSame ==
  ASSUME LeftInv, UNCHANGED <<state, event, rpc, left>>,
         \A op \in Ops : Outstanding(op)' => Outstanding(op)
  PROVE  LeftInv'
BY DEF LeftInv, LeavesAtMostOne, Ops

(* The dispatcher puts its event away: it is not outstanding any more.     *)
LEMMA PutAway ==
  ASSUME TypeOK, TokenInv, event \in Events, event' = Nothing, cq' = cq, UNCHANGED pending,
         NEW op \in Ops
  PROVE  /\ event.op = op => ~Outstanding(op)'
         /\ Outstanding(op)' => Outstanding(op)
<1>1. /\ event.op = op => Completions(op)' = {} /\ pending[op] # 1
      /\ event.op # op => Completions(op)' = Completions(op)
  BY Handled DEF TokenInv
<1> QED
  BY <1>1 DEF Outstanding

LEMMA LeftStep == TypeOK /\ PhaseInv /\ TokenInv /\ LeftInv /\ [Next]_vars => LeftInv'
<1> SUFFICES ASSUME TypeOK, PhaseInv, TokenInv, LeftInv, [Next]_vars PROVE LeftInv'
  OBVIOUS
<1> USE DEF sessionVars, grpcVars
<1>0. /\ MaxStates \in Nat /\ "start" \in Ops /\ "read" \in Ops /\ "finish" \in Ops
      /\ TRUE \in BOOLEAN /\ FALSE \in BOOLEAN /\ 0 \in 0..MaxStates
  BY StateSubscriberAssumption DEF Ops
<1>1. CASE NextEvent
  <2>1. PICK e \in cq : cq' = cq \ {e} /\ event' = e /\ rpc' \in {"event", "cancel"}
    BY <1>1 DEF NextEvent
  <2>2. e \in Events /\ e.op \in Ops /\ Outstanding(e.op) /\ UNCHANGED <<state, left>>
    BY <1>1 DEF NextEvent, TypeOK, Events, Outstanding, Completions
  <2>3. state = "WAIT_READ_DONE" => e.op = "read"
    BY <2>2 DEF TokenInv, Ops
  <2> QED
    BY <2>1, <2>2, <2>3 DEF LeftInv
<1>2. CASE Started \/ HandlerReturns
  <2>1. rpc' \in {"next", "aborted"} /\ left' = left
    BY <1>2 DEF Started, HandlerReturns, Read, Leave
  <2> QED
    BY <2>1 DEF LeftInv
<1>3. CASE GotMessage
  BY <1>3 DEF GotMessage, LeftInv
<1>4. CASE Finished
  <2>1. /\ event \in Events /\ state \notin {"WAIT_START", "WAIT_READ_DONE"}
        /\ event' = Nothing /\ cq' = cq /\ state' = "FINISHED" /\ rpc' = "cancel" /\ UNCHANGED <<pending, left>>
    BY <1>4 DEF Finished, Leave, PhaseInv, TypeOK
  <2>2. event.op \in Ops /\ Outstanding(event.op)
    BY <1>0, <2>1 DEF Events, Outstanding, Completions
  <2>3. event.op \in {"read", "finish"} /\ ~Outstanding("start")
    BY <2>1, <2>2 DEF TokenInv, Ops
  <2>4. ~Outstanding("start")' /\ ~(Outstanding("read")' /\ Outstanding("finish")')
    BY <1>0, <2>1, <2>3, PutAway
  <2> QED
    BY <2>1, <2>4 DEF LeftInv, LeavesAtMostOne
<1>5. CASE CancelAfterEvent
  <2>1. /\ event' = Nothing /\ cq' = cq /\ rpc' \in {"aborted", "leave"} /\ left' = left /\ rpc = "cancel"
    BY <1>5 DEF CancelAfterEvent, TryCancelCallAndShutdown, Leave
  <2>2. /\ pending'["start"] = pending["start"] /\ pending'["read"] = pending["read"]
        /\ \/ UNCHANGED <<state, pending>> /\ state # "WAIT_READ_DONE"
           \/ /\ state = "WAIT_READ_DONE" /\ state' = "WAIT_FINISH"
              /\ pending["finish"] = 0 /\ pending'["finish"] = 1 /\ Completions("finish") = {}
    BY <1>5, TokenCancel DEF CancelAfterEvent
  <2>3. \A op \in Ops : /\ Completions(op)' \in {{}, Completions(op)}
                        /\ Completions(op) = {} => Completions(op)' = {}
    BY <2>1, Handled DEF TokenInv
  <2>4. CASE event = Nothing /\ state = "FINISHED" /\ LeavesAtMostOne
    BY <1>0, <2>1, <2>2, <2>3, <2>4 DEF LeftInv, LeavesAtMostOne, Outstanding
  <2>5. CASE event \in Events /\ (state = "WAIT_READ_DONE" => event.op = "read")
    <3>1. event.op \in Ops /\ Outstanding(event.op)
      BY <2>5 DEF Events, Outstanding, Completions
    <3>2. event.op = "read" => Completions("read")' = {} /\ pending["read"] # 1
      BY <1>0, <2>1, Handled DEF TokenInv
    <3>3. CASE state = "WAIT_READ_DONE"
      <4>1. event.op = "read" /\ ~Outstanding("start") /\ state' = "WAIT_FINISH"
        BY <2>2, <2>5, <3>3 DEF TokenInv
      <4>2. ~Outstanding("start")' /\ ~Outstanding("read")'
        BY <1>0, <2>2, <2>3, <3>2, <4>1 DEF Outstanding
      <4> QED
        BY <2>1, <4>1, <4>2 DEF LeftInv, LeavesAtMostOne
    <3>4. CASE state # "WAIT_READ_DONE"
      <4>1. UNCHANGED <<state, pending>>
        BY <2>2, <3>4
      <4>2. \A op \in Ops : /\ event.op = op => ~Outstanding(op)'
                            /\ Outstanding(op)' => Outstanding(op)
        BY <2>1, <2>5, <4>1, PutAway
      <4>3. \/ event.op = "start" /\ state = "WAIT_START" /\ ~Outstanding("read") /\ ~Outstanding("finish")
            \/ event.op \in {"read", "finish"} /\ ~Outstanding("start")
        BY <3>1 DEF TokenInv, Ops
      <4> QED
        BY <1>0, <2>1, <3>4, <4>1, <4>2, <4>3 DEF LeftInv, LeavesAtMostOne
    <3> QED
      BY <3>3, <3>4
  <2> QED
    BY <2>1, <2>4, <2>5 DEF LeftInv
<1>6. CASE DispatcherExits
  <2>1. /\ rpc = "leave" /\ rpc' = "exited" /\ UNCHANGED <<state, left, pending, cq>>
        /\ event' = Nothing /\ event = Nothing
    BY <1>6 DEF DispatcherExits, Leave, PhaseInv
  <2>2. \A op \in Ops : Outstanding(op)' <=> Outstanding(op)
    BY <2>1, CompletionsSame DEF Outstanding
  <2> QED
    BY <1>0, <2>1, <2>2 DEF LeftInv, LeavesAtMostOne
<1>7. ASSUME NEW op \in Ops, NEW ok \in BOOLEAN, NEW m \in 0..MaxStates,
             pending[op] > 0, Complete(op, ok, m), UNCHANGED <<state, event, rpc, app, left>>
      PROVE  LeftInv'
  <2>1. /\ \A o \in Ops \ {op} : Completions(o)' = Completions(o)
        /\ \A o \in Ops \ {op} : pending'[o] = pending[o]
    BY <1>7, Completes, TokenCompletes
  <2>2. pending[op] = 1
    BY <1>7 DEF TypeOK
  <2>3. \A o \in Ops : Outstanding(o)' => Outstanding(o)
    BY <2>1, <2>2 DEF Outstanding
  <2> QED
    BY <1>7, <2>3, LeftSame
<1>8. CASE StartSucceeds
  BY <1>0, <1>7, <1>8 DEF StartSucceeds
<1>9. CASE StartFails
  <2>1. PICK ok \in BOOLEAN : Complete("start", ok, 0)
    BY <1>9 DEF StartFails
  <2> QED
    BY <1>0, <1>7, <1>9, <2>1 DEF StartFails
<1>10. CASE ReadDone
  <2>1. pending["read"] > 0 /\ UNCHANGED <<state, event, rpc, app, left>>
    BY <1>10 DEF ReadDone
  <2>2. CASE sent # <<>> /\ Complete("read", TRUE, Head(sent))
    <3>1. Head(sent) \in 0..MaxStates
      BY <2>2, <1>0 DEF TypeOK, States
    <3> QED
      BY <1>0, <1>7, <2>1, <2>2, <3>1
  <2>3. CASE Complete("read", FALSE, 0)
    BY <1>0, <1>7, <2>1, <2>3
  <2> QED
    BY <1>10, <2>2, <2>3 DEF ReadDone
<1>11. CASE FinishDone
  BY <1>0, <1>7, <1>11 DEF FinishDone
<1>12. CASE InitRequest \/ CreateThread
  <2>1. rpc' \in {"none", "next"} /\ left' = left
    BY <1>12 DEF InitRequest, CreateThread
  <2> QED
    BY <2>1 DEF LeftInv
<1>13. CASE StopCancel
  <2>1. UNCHANGED <<cq, event, rpc, left>>
    BY <1>13 DEF StopCancel, TryCancelCallAndShutdown
  <2>2. \A op \in Ops : Completions(op)' = Completions(op)
    BY <2>1, CompletionsSame
  <2>3. \/ UNCHANGED <<state, pending>>
        \/ state = "WAIT_READ_DONE" /\ state' = "WAIT_FINISH"
    BY <1>13, TokenCancel DEF StopCancel
  <2>4. CASE UNCHANGED <<state, pending>>
    BY <2>1, <2>2, <2>4, LeftSame DEF Outstanding
  <2>5. CASE state = "WAIT_READ_DONE" /\ state' = "WAIT_FINISH"
    BY <2>1, <2>5 DEF LeftInv
  <2> QED
    BY <2>3, <2>4, <2>5
<1>14. CASE Join
  <2>1. rpc = "exited" /\ event = Nothing /\ left' = Unfinished /\ UNCHANGED <<state, event, rpc, pending, cq>>
    BY <1>14 DEF Join, PhaseInv
  <2>2. \A op \in Ops : op \in Unfinished => Outstanding(op)
    BY DEF Unfinished, Outstanding, Completions, TypeOK
  <2>3. left' \in {{}, {"read"}, {"finish"}}
    BY <1>0, <2>1, <2>2 DEF LeftInv, LeavesAtMostOne, Unfinished, Ops
  <2>4. \A op \in Ops : Outstanding(op)' <=> Outstanding(op)
    BY <2>1, CompletionsSame DEF Outstanding
  <2> QED
    BY <1>0, <2>1, <2>3, <2>4 DEF LeftInv, LeavesAtMostOne
<1>15. CASE StopQueue \/ Publish \/ Break \/ Reconnect \/ Destroy \/ UNCHANGED vars
  <2>1. UNCHANGED <<state, pending, cq, event, rpc, left>>
    BY <1>15 DEF StopQueue, Publish, Break, Reconnect, Destroy, vars
  <2> QED
    BY <2>1, CompletionsSame, LeftSame DEF Outstanding
<1> QED
  BY <1>1, <1>2, <1>3, <1>4, <1>5, <1>6, <1>8, <1>9, <1>10, <1>11, <1>12, <1>13, <1>14, <1>15
     DEF Next, Dispatcher, Grpc, App

-----------------------------------------------------------------------------
(* The order of the states.                                                *)

LEMMA LastSame == ASSUME UNCHANGED handled PROVE Last' = Last
BY DEF Last

(* Nothing new on its way, nothing new read.                               *)
LEMMA StreamSame ==
  ASSUME StreamInv, UNCHANGED <<handled, published, sent>>,
         \A e \in Completions("read")' : e.ok => e \in Completions("read")
  PROVE  StreamInv'
BY LastSame DEF StreamInv

LEMMA StreamStep == TypeOK /\ PhaseInv /\ TokenInv /\ StreamInv /\ [Next]_vars => StreamInv'
<1> SUFFICES ASSUME TypeOK, PhaseInv, TokenInv, StreamInv, [Next]_vars PROVE StreamInv'
  OBVIOUS
<1> USE DEF sessionVars, grpcVars
<1>0. /\ MaxStates \in Nat /\ "start" \in Ops /\ "read" \in Ops /\ "finish" \in Ops
      /\ TRUE \in BOOLEAN /\ FALSE \in BOOLEAN /\ 0 \in 0..MaxStates
      /\ published \in Nat /\ sent \in Seq(Nat) /\ handled \in Seq(Nat)
  BY StateSubscriberAssumption DEF Ops, TypeOK, States
<1>1. CASE NextEvent
  <2>1. PICK e \in cq : cq' = cq \ {e} /\ event' = e
    BY <1>1 DEF NextEvent
  <2>2. event = Nothing
    BY <1>1 DEF NextEvent, PhaseInv
  <2>3. Completions("read")' = Completions("read")
    BY <1>0, <2>1, <2>2, Taken
  <2> QED
    BY <1>1, <2>3, StreamSame DEF NextEvent
<1>2. ASSUME event' = Nothing, UNCHANGED <<cq, handled, published, sent>> PROVE StreamInv'
  <2>1. Completions("read")' \in {{}, Completions("read")}
    BY <1>0, <1>2, Handled DEF TokenInv
  <2> QED
    BY <1>2, <2>1, StreamSame
<1>3. CASE GotMessage
  <2>1. event \in Completions("read") /\ event.ok /\ event.op = "read" /\ event.m \in Nat
    BY <1>0, <1>3, EventIs DEF GotMessage, PhaseInv, TypeOK, Events
  <2>2. Last < event.m /\ event.m <= published /\ \A i \in DOMAIN sent : event.m < sent[i]
    BY <2>1 DEF StreamInv
  <2>3. handled' = Append(handled, event.m) /\ event' = Nothing /\ UNCHANGED <<cq, published, sent>>
    BY <1>3 DEF GotMessage
  <2>4. Last' = event.m
    BY <1>0, <2>1, <2>3 DEF Last
  <2>5. Completions("read")' = {}
    BY <1>0, <2>1, <2>3, Handled DEF TokenInv
  <2> QED
    BY <1>0, <2>1, <2>2, <2>3, <2>4, <2>5 DEF StreamInv
<1>4. CASE Started \/ HandlerReturns \/ Finished \/ CancelAfterEvent \/ DispatcherExits
  <2>1. event' = Nothing /\ UNCHANGED <<cq, handled, published, sent>>
    BY <1>4 DEF Started, HandlerReturns, Read, Finished, CancelAfterEvent, TryCancelCallAndShutdown,
                DispatcherExits, Leave
  <2> QED
    BY <1>2, <2>1
<1>5. CASE StartSucceeds
  <2>1. pending["start"] > 0 /\ Complete("start", TRUE, 0) /\ UNCHANGED <<state, event, rpc, app>>
    BY <1>5 DEF StartSucceeds
  <2>2. Completions("read")' = Completions("read")
    BY <1>0, <2>1, TokenCompletes DEF Ops
  <2> QED
    BY <1>5, <2>2, StreamSame DEF StartSucceeds
<1>6. CASE StartFails
  <2>1. PICK ok \in BOOLEAN : Complete("start", ok, 0)
    BY <1>6 DEF StartFails
  <2>2. pending["start"] > 0 /\ UNCHANGED <<state, event, rpc, app>>
    BY <1>6 DEF StartFails
  <2>3. Completions("read")' = Completions("read")
    BY <1>0, <2>1, <2>2, TokenCompletes DEF Ops
  <2> QED
    BY <1>6, <2>3, StreamSame DEF StartFails
<1>7. CASE FinishDone
  <2>1. pending["finish"] > 0 /\ Complete("finish", TRUE, 0) /\ UNCHANGED <<state, event, rpc, app>>
    BY <1>7 DEF FinishDone
  <2>2. Completions("read")' = Completions("read")
    BY <1>0, <2>1, TokenCompletes DEF Ops
  <2> QED
    BY <1>7, <2>2, StreamSame DEF FinishDone
<1>8. CASE ReadDone
  <2>1. pending["read"] > 0 /\ UNCHANGED <<state, event, rpc, app, handled, published>>
    BY <1>8 DEF ReadDone
  <2>2. CASE sent # <<>> /\ Complete("read", TRUE, Head(sent)) /\ sent' = Tail(sent)
    <3>1. Head(sent) \in 0..MaxStates
      BY <2>2, <1>0 DEF TypeOK, States
    <3>2. Completions("read")' = {Done("read", TRUE, Head(sent))}
      BY <1>0, <2>1, <2>2, <3>1, TokenCompletes
    <3>3. \A e \in Completions("read")' : e.m = sent[1]
      BY <2>2, <3>2 DEF Done
    <3>4. 1 \in DOMAIN sent /\ \A i \in DOMAIN sent' : i + 1 \in DOMAIN sent /\ i + 1 > 1 /\ sent'[i] = sent[i + 1]
      BY <1>0, <2>2
    <3>5. \A i \in DOMAIN sent : sent[i] \in Nat
      BY <1>0
    <3>6. \A i, j \in DOMAIN sent' : i < j => sent'[i] < sent'[j]
      <4> SUFFICES ASSUME NEW i \in DOMAIN sent', NEW j \in DOMAIN sent', i < j PROVE sent'[i] < sent'[j]
        OBVIOUS
      <4>1. i \in Nat /\ j \in Nat
        BY <1>0, <2>2
      <4> QED
        BY <4>1, <3>4 DEF StreamInv
    <3> QED
      BY <2>1, <3>3, <3>4, <3>5, <3>6, LastSame DEF StreamInv
  <2>3. CASE Complete("read", FALSE, 0) /\ UNCHANGED sent
    <3>1. Completions("read")' = {Done("read", FALSE, 0)}
      BY <1>0, <2>1, <2>3, TokenCompletes
    <3>2. \A e \in Completions("read")' : ~e.ok
      BY <3>1 DEF Done
    <3> QED
      BY <2>1, <2>3, <3>2, StreamSame
  <2> QED
    BY <1>8, <2>2, <2>3 DEF ReadDone
<1>9. CASE InitRequest
  <2>1. Completions("read")' = {} /\ sent' = <<>> /\ UNCHANGED <<handled, published>>
    BY <1>0, <1>9, Begins DEF InitRequest
  <2> QED
    BY <2>1, LastSame DEF StreamInv
<1>10. CASE Publish
  <2>1. published' = published + 1 /\ UNCHANGED <<handled, cq, event>>
        /\ (sent' = sent \/ sent' = Append(sent, published + 1))
    BY <1>10 DEF Publish
  <2>2. Completions("read")' = Completions("read") /\ Last' = Last /\ Last \in 0..published
    BY <1>0, <2>1, CompletionsSame, LastSame DEF StreamInv
  <2>3. \A e \in Completions("read") : e.m \in Nat
    <3>1. \A e \in cq \union {event} : e.m \in Nat
      BY <1>0 DEF TypeOK, Events, Nothing, Done
    <3> QED
      BY <3>1 DEF Completions
  <2>4. CASE sent' = sent
    BY <1>0, <2>1, <2>2, <2>3, <2>4 DEF StreamInv
  <2>5. CASE sent' = Append(sent, published + 1)
    <3>1. /\ DOMAIN sent' = DOMAIN sent \union {Len(sent) + 1} /\ sent'[Len(sent) + 1] = published + 1
          /\ \A i \in DOMAIN sent : i < Len(sent) + 1 /\ sent'[i] = sent[i] /\ sent[i] \in Nat
          /\ Len(sent) \in Nat
      BY <1>0, <2>5
    <3>2. \A i, j \in DOMAIN sent' : i < j => sent'[i] < sent'[j]
      BY <1>0, <3>1 DEF StreamInv
    <3>3. \A i \in DOMAIN sent' : Last < sent'[i] /\ sent'[i] <= published + 1
      BY <1>0, <2>2, <3>1 DEF StreamInv
    <3>4. \A e \in Completions("read") : e.ok =>
             Last < e.m /\ e.m <= published + 1 /\ \A i \in DOMAIN sent' : e.m < sent'[i]
      BY <1>0, <2>3, <3>1 DEF StreamInv
    <3> QED
      BY <1>0, <2>1, <2>2, <3>2, <3>3, <3>4 DEF StreamInv
  <2> QED
    BY <2>1, <2>4, <2>5
<1>11. CASE CreateThread \/ StopCancel \/ StopQueue \/ Join \/ Break \/ Reconnect \/ Destroy \/ UNCHANGED vars
  <2>1. UNCHANGED <<handled, published, sent, cq, event>>
    BY <1>11 DEF CreateThread, StopCancel, TryCancelCallAndShutdown, StopQueue, Join, Break, Reconnect, Destroy, vars
  <2> QED
    BY <1>0, <2>1, CompletionsSame, StreamSame
<1> QED
  BY <1>1, <1>3, <1>4, <1>5, <1>6, <1>7, <1>8, <1>9, <1>10, <1>11 DEF Next, Dispatcher, Grpc, App

-----------------------------------------------------------------------------
LEMMA InitInv == Init => SubInv
<1> SUFFICES ASSUME Init PROVE SubInv
  OBVIOUS
<1>1. \A op \in Ops : Completions(op) = {} /\ pending[op] = 0
  BY DEF Init, Completions, Nothing, Done, Ops, NoOps
<1>2. "start" \in Ops /\ "read" \in Ops /\ "finish" \in Ops
  BY DEF Ops
<1>3. running \in BOOLEAN /\ final \in BOOLEAN /\ early \in BOOLEAN /\ down \in BOOLEAN
  BY Zenon DEF Init
<1>4. pending \in [Ops -> 0..1]
  BY DEF Init, NoOps
<1>5. TypeOK
  BY <1>3, <1>4, StateSubscriberAssumption DEF Init, TypeOK, States
<1>6. PhaseInv
  BY DEF Init, PhaseInv, Active
<1>7. TokenInv
  BY <1>1, <1>2 DEF Init, TokenInv, OneOfEach, Outstanding
<1>8. StreamInv
  BY <1>1, <1>2 DEF Init, StreamInv, Last
<1>9. LeftInv
  BY DEF Init, LeftInv
<1> QED
  BY <1>5, <1>6, <1>7, <1>8, <1>9 DEF SubInv

(* The invariant from which the properties follow.                         *)
THEOREM SubInvariant == Spec => []SubInv
<1>1. SubInv /\ [Next]_vars => SubInv'
  BY TypeStep, PhaseStep, TokenStep, LeftStep, StreamStep DEF SubInv
<1> QED
  BY InitInv, <1>1, PTL DEF Spec

(* OnCompletionEvent takes each completion for what it is, no operation is *)
(* started twice and none but Finish with Finish outstanding, a read is    *)
(* under way with Finish only when Stop posted it, one is started on the   *)
(* closed queue only after a Stop that came before the start of the call   *)
(* was seen, and one at most is destroyed with the session.                *)
THEOREM ContractKept == Spec => []CallContract
<1>1. SubInv => CallContract
  <2> SUFFICES ASSUME SubInv PROVE CallContract
    OBVIOUS
  <2> USE DEF SubInv
  <2>1. rpc = "next" => ~NoEventComes
    <3> SUFFICES ASSUME rpc = "next", QueueClosed, cq = {} PROVE FALSE
      BY DEF NoEventComes
    <3>1. event = Nothing
      BY DEF PhaseInv
    <3>2. \A op \in Ops : Completions(op) = {} /\ pending[op] = 0
      BY <3>1 DEF Completions, Nothing, Done, Ops, QueueClosed, NoOps
    <3> QED
      BY <3>2 DEF TokenInv, Outstanding, Ops
  <2>2. rpc = "event" /\ state = "WAIT_START" => event.op = "start"
    BY EventIs
  <2>3. rpc = "event" /\ state = "WAIT_READ_DONE" => event.op = "read"
    BY EventIs
  <2>4. ReadComesNext => ~Outstanding("finish")
    BY DEF ReadComesNext, TokenInv, PhaseInv
  <2> QED
    BY <2>1, <2>2, <2>3, <2>4 DEF CallContract, TokenInv, PhaseInv, LeftInv
<1> QED
  BY <1>1, SubInvariant, PTL

(* IsRunning, which the reconnector of the example polls, is true exactly  *)
(* while the dispatcher of the session runs.                               *)
THEOREM RunningTells == Spec => []RunningTellsExit
<1>1. SubInv => RunningTellsExit
  BY DEF SubInv, PhaseInv, Active, RunningTellsExit
<1> QED
  BY <1>1, SubInvariant, PTL

(* What reaches _msg_handler is a stream: the subscriber implements        *)
(* StateStream, across reconnections.                                      *)
THEOREM ImplementsStream == Spec => ImplementsStateStream
<1>1. Init => Stream!Init
  BY DEF Init, Stream!Init
<1>2. SubInv /\ [Next]_vars => [Stream!Next]_(Stream!vars)
  <2> SUFFICES ASSUME SubInv, [Next]_vars PROVE [Stream!Next]_(Stream!vars)
    OBVIOUS
  <2> USE DEF SubInv, sessionVars, grpcVars
  <2>1. CASE GotMessage
    <3>1. event \in Completions("read") /\ event.ok /\ event \in Events
      BY <2>1, EventIs DEF GotMessage, PhaseInv, TypeOK
    <3>2. Last < event.m /\ event.m <= published /\ event.m \in Nat /\ Last \in Nat /\ published \in Nat
      BY <3>1, StateSubscriberAssumption DEF StreamInv, Events, TypeOK
    <3>3. event.m \in (Stream!Last + 1)..published
      BY <3>2 DEF Last, Stream!Last
    <3> QED
      BY <2>1, <3>3 DEF GotMessage, Stream!Next, Stream!Handle
  <2>2. CASE Publish
    BY <2>2 DEF Publish, Stream!Next, Stream!Publish
  <2>3. ASSUME UNCHANGED <<published, handled>> PROVE [Stream!Next]_(Stream!vars)
    BY <2>3 DEF Stream!vars
  <2>4. CASE NextEvent \/ Started \/ HandlerReturns \/ Finished \/ CancelAfterEvent \/ DispatcherExits
    BY <2>3, <2>4 DEF NextEvent, Started, HandlerReturns, Finished, CancelAfterEvent, DispatcherExits
  <2>5. CASE Grpc \/ App \/ Break \/ Reconnect \/ Destroy \/ UNCHANGED vars
    BY <2>3, <2>5 DEF Grpc, App, StartSucceeds, StartFails, ReadDone, FinishDone, InitRequest, CreateThread,
                      StopCancel, StopQueue, Join, Break, Reconnect, Destroy, vars
  <2> QED
    BY <2>1, <2>2, <2>4, <2>5 DEF Next, Dispatcher
<1> QED
  BY <1>1, <1>2, SubInvariant, PTL DEF Spec, ImplementsStateStream, Stream!Spec

=============================================================================
