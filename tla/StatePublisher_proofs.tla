------------------------ MODULE StatePublisher_proofs ------------------------
(***************************************************************************)
(* Proofs that the publisher has one write under way per client, keeps the *)
(* streams in order and always awaits a next client, for any number of     *)
(* sessions and states and any sizes of the queue.                         *)
(***************************************************************************)
EXTENDS StatePublisherProperties, FiniteSetTheorems, SequenceTheorems, TLAPS

LEMMA Bounds ==
  MaxSessions \in Nat \ {0} /\ MaxMessages \in Nat /\ QueueSizes \subseteq Int
BY StatePublisherAssumption

-----------------------------------------------------------------------------
(* The sessions constructed.                                               *)

(* A session that changes its state stays constructed.                     *)
LEMMA EnterKeepsCreated ==
  ASSUME SessionsOK, NEW s \in Ids, state[s] # "none",
         NEW st \in {"WAIT_CONNECT", "READY_TO_WRITE", "WAIT_WRITE_DONE", "FINISHED"},
         Enter(s, st)
  PROVE  /\ state' \in [Ids -> {"none", "WAIT_CONNECT", "READY_TO_WRITE", "WAIT_WRITE_DONE", "FINISHED"}]
         /\ Created' = Created /\ Newest' = Newest
<1>1. state' = [state EXCEPT ![s] = st]
  BY DEF Enter
<1>2. state' \in [Ids -> {"none", "WAIT_CONNECT", "READY_TO_WRITE", "WAIT_WRITE_DONE", "FINISHED"}]
  BY <1>1 DEF SessionsOK
<1>3. \A t \in Ids : state'[t] # "none" <=> state[t] # "none"
  BY <1>1 DEF SessionsOK
<1>4. Created' = Created
  BY <1>3 DEF Created
<1> QED
  BY <1>2, <1>4 DEF Newest

LEMMA SameCreated ==
  ASSUME UNCHANGED state PROVE Created' = Created /\ Newest' = Newest
BY DEF Created, Newest

(* A new session takes the next number.                                    *)
LEMMA NewSessionCreates ==
  ASSUME SessionsOK, Newest < MaxSessions, Enter(Newest + 1, "WAIT_CONNECT")
  PROVE  /\ state' \in [Ids -> {"none", "WAIT_CONNECT", "READY_TO_WRITE", "WAIT_WRITE_DONE", "FINISHED"}]
         /\ Newest + 1 \in Ids /\ state[Newest + 1] = "none"
         /\ Newest' = Newest + 1 /\ Created' = 1..Newest'
<1> DEFINE n == Newest + 1
<1>1. Newest \in 1..MaxSessions /\ Created = 1..Newest /\ n \in Ids
  BY Bounds DEF SessionsOK, Ids
<1>2. n \notin Created
  BY <1>1
<1>3. state[n] = "none"
  BY <1>1, <1>2 DEF Created
<1>4. state' = [state EXCEPT ![n] = "WAIT_CONNECT"]
  BY DEF Enter
<1>5. state' \in [Ids -> {"none", "WAIT_CONNECT", "READY_TO_WRITE", "WAIT_WRITE_DONE", "FINISHED"}]
  BY <1>4 DEF SessionsOK
<1>6. \A t \in Ids : state'[t] # "none" <=> t = n \/ state[t] # "none"
  BY <1>4 DEF SessionsOK
<1>7. Created' = Created \union {n}
  BY <1>1, <1>6 DEF Created
<1>8. Created' = 1..n
  BY <1>1, <1>7
<1>9. Cardinality(1..n) = n
  BY <1>1, FS_Interval DEF Ids
<1> QED
  BY <1>1, <1>3, <1>5, <1>8, <1>9 DEF Newest

-----------------------------------------------------------------------------
(* The completions of a session.                                           *)

LEMMA CompletionAdded ==
  ASSUME NEW s \in Ids, NEW b \in BOOLEAN, cq' = cq \union {[of |-> s, ok |-> b]}
  PROVE  /\ Completions(s)' = Completions(s) \union {[of |-> s, ok |-> b]}
         /\ \A t \in Ids \ {s} : Completions(t)' = Completions(t)
BY DEF Completions

(* The dispatcher takes the only completion of a session.                  *)
LEMMA CompletionTaken ==
  ASSUME TokenInv, NEW s \in Ids, NEW b \in BOOLEAN, Take(s, b)
  PROVE  /\ Completions(s) = {[of |-> s, ok |-> b]} /\ Completions(s)' = {}
         /\ \A t \in Ids \ {s} : Completions(t)' = Completions(t)
         /\ rpc = Idle
<1>1. [of |-> s, ok |-> b] \in Completions(s)
  BY DEF Take, Completions
<1>2. \A e \in Completions(s) : e = [of |-> s, ok |-> b]
  BY <1>1 DEF TokenInv, TokenAt
<1>3. Completions(s) = {[of |-> s, ok |-> b]}
  BY <1>1, <1>2
<1>4. cq' = cq \ {[of |-> s, ok |-> b]} /\ rpc = Idle
  BY DEF Take
<1>5. Completions(s)' = {}
  BY <1>3, <1>4 DEF Completions
<1>6. \A t \in Ids \ {s} : Completions(t)' = Completions(t)
  BY <1>4 DEF Completions
<1> QED
  BY <1>3, <1>4, <1>5, <1>6

LEMMA SameCompletions ==
  ASSUME UNCHANGED cq PROVE \A t \in Ids : Completions(t)' = Completions(t)
BY DEF Completions

(* The dispatcher's session.                                               *)
LEMMA RpcSession ==
  ASSUME PubInv, rpc.at \notin {"next", "exited"}
  PROVE  rpc.of \in Ids /\ TokenAt(rpc.of) /\ StateAt(rpc.of) /\ state[rpc.of] # "none"
<1>1. rpc.of \in Ids
  BY DEF PubInv, NewestInv, TypeOK, ThreadsOK
<1>2. TokenAt(rpc.of) /\ StateAt(rpc.of)
  BY <1>1 DEF PubInv, TokenInv
<1>3. state[rpc.of] # "none"
  BY <1>2 DEF StateAt
<1> QED
  BY <1>1, <1>2, <1>3

-----------------------------------------------------------------------------
(* The types, part by part.                                                *)

LEMMA SessionsStep ==
  ASSUME PubInv, [Next]_vars
  PROVE  SessionsOK'
<1> USE DEF PubInv, TypeOK
<1>0. SessionsOK
  OBVIOUS
<1>1. ASSUME UNCHANGED <<state, sessions, left>>, requested' \subseteq requested
      PROVE  SessionsOK'
  BY <1>0, <1>1, SameCreated DEF SessionsOK
<1>2. ASSUME NEW s \in Ids, state[s] # "none",
             NEW st \in {"WAIT_CONNECT", "READY_TO_WRITE", "WAIT_WRITE_DONE", "FINISHED"},
             Enter(s, st), UNCHANGED <<sessions, requested>>, left' \subseteq left
      PROVE  SessionsOK'
  BY <1>0, <1>2, EnterKeepsCreated DEF SessionsOK
<1>3. ASSUME NEW s \in Ids, Connect(s) \/ Disconnect(s) \/ WriteDone(s) PROVE SessionsOK'
  BY <1>1, <1>3 DEF Connect, Disconnect, WriteDone, sessionVars, appVars
<1>4. ASSUME NEW s \in Ids, OnCompletionEvent(s) \/ OnFailed(s) PROVE SessionsOK'
  BY <1>1, <1>4 DEF OnCompletionEvent, OnConnected, OnWritten, OnOther, OnFailed, Take,
     sessionVars, appVars
<1>5. ASSUME Finish \/ ReadyToWrite \/ Written PROVE SessionsOK'
  <2>1. rpc.at \notin {"next", "exited"}
    BY <1>5 DEF Finish, ReadyToWrite, Written
  <2>2. \E st \in {"READY_TO_WRITE", "WAIT_WRITE_DONE", "FINISHED"} : Enter(rpc.of, st)
    BY <1>5 DEF Finish, ReadyToWrite, Written
  <2>3. UNCHANGED <<sessions, requested, left>>
    BY <1>5 DEF Finish, ReadyToWrite, Written, WriteNext, appVars, grpcVars
  <2> QED
    BY <1>2, <2>1, <2>2, <2>3, RpcSession
<1>6. CASE NewSession
  <2>1. CASE QueueClosed
    BY <1>1, <1>6, <2>1 DEF NewSession, appVars
  <2>2. CASE ~QueueClosed
    <3>1. Newest < MaxSessions
      BY <1>6 DEF NewSession, NewestInv
    <3>2. Enter(Newest + 1, "WAIT_CONNECT") /\ UNCHANGED <<sessions, left>>
      BY <1>6, <2>2 DEF NewSession, appVars
    <3>3. requested' \subseteq requested \union {Newest + 1}
      BY <1>6, <2>2 DEF NewSession
    <3>4. Newest' = Newest + 1 /\ Created' = 1..Newest' /\ Newest + 1 \in Ids
      BY <1>0, <3>1, <3>2, NewSessionCreates
    <3>5. Created \subseteq Created' /\ Newest + 1 \in Created'
      BY <1>0, <3>4, Bounds DEF SessionsOK, Ids
    <3> QED
      BY <1>0, <3>1, <3>2, <3>3, <3>4, <3>5, NewSessionCreates DEF SessionsOK
  <2> QED
    BY <2>1, <2>2
<1>7. CASE AddSession
  <2>1. Created' = Created /\ Newest' = Newest
    BY <1>7, SameCreated DEF AddSession
  <2>2. Newest \in Created
    BY <1>0, Bounds DEF SessionsOK, Ids
  <2> QED
    BY <1>0, <1>7, <2>1, <2>2 DEF AddSession, SessionsOK, appVars, grpcVars
<1>8. ASSUME WrittenAborts \/ Exit \/ Published \/ StopServer \/ StopQueue \/ Stopped
      PROVE  SessionsOK'
  BY <1>1, <1>8 DEF WrittenAborts, Exit, Published, StopServer, StopQueue, Stopped,
     sessionVars, appVars, grpcVars
<1>9. ASSUME Publish \/ Stop PROVE SessionsOK'
  <2>1. UNCHANGED <<state, sessions, requested>> /\ left' = sessions
    BY <1>9 DEF Publish, Stop, sessionVars, grpcVars
  <2> QED
    BY <1>0, <2>1, SameCreated DEF SessionsOK
<1>10. ASSUME NEW s \in Ids, PublishTo(s) PROVE SessionsOK'
  <2>1. left' \subseteq left /\ UNCHANGED <<sessions, requested>>
    BY <1>10 DEF PublishTo
  <2>2. \/ state[s] # "none" /\ Enter(s, "WAIT_WRITE_DONE")
        \/ UNCHANGED state
    BY <1>10 DEF PublishTo, WriteNow, WriteLater
  <2>3. CASE UNCHANGED state
    BY <1>0, <2>1, <2>3, SameCreated DEF SessionsOK
  <2> QED
    BY <1>2, <2>1, <2>2, <2>3
<1>11. ASSUME NEW s \in Ids, TryCancelCallAndShutdown(s) PROVE SessionsOK'
  <2>1. left' \subseteq left /\ UNCHANGED <<sessions, requested>>
    BY <1>11 DEF TryCancelCallAndShutdown, StopCancels, StopFinishes, sessionVars, appVars, grpcVars
  <2>2. s \in left => state[s] # "none"
    BY <1>0 DEF SessionsOK, Created
  <2>3. \/ state[s] # "none" /\ Enter(s, "FINISHED")
        \/ UNCHANGED state
    BY <1>11, <2>2 DEF TryCancelCallAndShutdown, StopCancels, StopFinishes, sessionVars
  <2>4. CASE UNCHANGED state
    BY <1>0, <2>1, <2>4, SameCreated DEF SessionsOK
  <2> QED
    BY <1>2, <2>1, <2>3, <2>4
<1>12. CASE UNCHANGED vars
  BY <1>1, <1>12 DEF vars, sessionVars, appVars, grpcVars
<1> QED
  BY <1>3, <1>4, <1>5, <1>6, <1>7, <1>8, <1>9, <1>10, <1>11, <1>12
     DEF Next, Dispatch, Application, Network

LEMMA TailOfStates ==
  ASSUME NEW q \in Seq(States), q # <<>>
  PROVE  /\ Head(q) \in States /\ Tail(q) \in Seq(States) /\ Len(Tail(q)) = Len(q) - 1
         /\ Head(q) = q[1] /\ 1 \in 1..Len(q)
         /\ \A i \in 1..Len(Tail(q)) : i + 1 \in 1..Len(q) /\ Tail(q)[i] = q[i + 1]
OBVIOUS

LEMMA AppendOfStates ==
  ASSUME NEW q \in Seq(States), NEW m \in States
  PROVE  /\ Append(q, m) \in Seq(States) /\ Len(Append(q, m)) = Len(q) + 1
         /\ \A i \in 1..Len(q) : Append(q, m)[i] = q[i]
         /\ Append(q, m)[Len(q) + 1] = m
OBVIOUS

LEMMA LenOfStates ==
  ASSUME NEW q \in Seq(States)
  PROVE  Len(q) \in Nat /\ (Len(q) > 0 <=> q # <<>>) /\ (Len(q) = 0 <=> q = <<>>)
OBVIOUS

(* The queue of a session is left alone, or loses its first state, or      *)
(* takes the state just published, also in exchange for the first.         *)
Shorter(s) == queue[s] # <<>> /\ queue' = [queue EXCEPT ![s] = Tail(@)]

Longer(s) ==
  queueSize # 0 /\
  queue' = [queue EXCEPT ![s] =
    Append(IF queueSize > 0 /\ Len(@) >= queueSize THEN Tail(@) ELSE @, published)]

LEMMA QueueChanges ==
  ASSUME PubInv, [Next]_vars
  PROVE  /\ UNCHANGED queueSize
         /\ \/ UNCHANGED queue
            \/ rpc.at = "written" /\ Written /\ Shorter(rpc.of)
            \/ \E s \in left : PublishTo(s) /\ WriteLater(s) /\ Longer(s)
<1>1. ASSUME NEW s \in Ids, Connect(s) \/ Disconnect(s) \/ WriteDone(s)
      PROVE  UNCHANGED <<queueSize, queue>>
  BY <1>1 DEF Connect, Disconnect, WriteDone, sessionVars
<1>2. ASSUME NEW s \in Ids, OnCompletionEvent(s) \/ OnFailed(s)
      PROVE  UNCHANGED <<queueSize, queue>>
  BY <1>2 DEF OnCompletionEvent, OnConnected, OnWritten, OnOther, OnFailed, Take, sessionVars
<1>3. ASSUME Finish \/ NewSession \/ AddSession \/ ReadyToWrite \/ WrittenAborts \/ Exit
      PROVE  UNCHANGED <<queueSize, queue>>
  BY <1>3 DEF Finish, NewSession, AddSession, ReadyToWrite, WrittenAborts, Exit, sessionVars
<1>4. ASSUME Written
      PROVE  UNCHANGED queueSize /\ (UNCHANGED queue \/ (rpc.at = "written" /\ Shorter(rpc.of)))
  <2>1. UNCHANGED queueSize /\ rpc.at = "written"
    BY <1>4 DEF Written
  <2>2. CASE queue[rpc.of] # <<>>
    <3>1. WriteNext(rpc.of)
      BY <1>4, <2>2 DEF Written
    <3> QED
      BY <2>1, <2>2, <3>1 DEF WriteNext, Shorter
  <2>3. CASE ~(queue[rpc.of] # <<>>)
    <3>1. UNCHANGED <<queue, writes>>
      BY <1>4, <2>3, Zenon DEF Written
    <3> QED
      BY <2>1, <3>1
  <2> QED
    BY <2>2, <2>3
<1>5. ASSUME Publish \/ Published \/ Stop \/ StopServer \/ StopQueue \/ Stopped
      PROVE  UNCHANGED <<queueSize, queue>>
  BY <1>5 DEF Publish, Published, Stop, StopServer, StopQueue, Stopped, sessionVars
<1>6. ASSUME NEW s \in Ids, PublishTo(s)
      PROVE  UNCHANGED queueSize /\ (UNCHANGED queue \/ (s \in left /\ WriteLater(s) /\ Longer(s)))
  <2>1. UNCHANGED queueSize /\ s \in left /\ (WriteLater(s) \/ UNCHANGED queue)
    BY <1>6 DEF PublishTo, WriteNow
  <2>2. ASSUME WriteLater(s) PROVE UNCHANGED queue \/ Longer(s)
    BY <2>2 DEF WriteLater, Enqueue, Longer
  <2> QED
    BY <2>1, <2>2
<1>7. ASSUME NEW s \in Ids, TryCancelCallAndShutdown(s)
      PROVE  UNCHANGED <<queueSize, queue>>
  BY <1>7 DEF TryCancelCallAndShutdown, StopCancels, StopFinishes, sessionVars
<1>8. CASE UNCHANGED vars
  BY <1>8 DEF vars, sessionVars
<1> QED
  BY <1>1, <1>2, <1>3, <1>4, <1>5, <1>6, <1>7, <1>8 DEF Next, Dispatch, Application, Network

LEMMA PublishedState ==
  ASSUME PubInv, app = "publish" PROVE published \in States
BY Bounds DEF PubInv, TypeOK, ThreadsOK, AppInv, States

LEMMA QueuesStep ==
  ASSUME PubInv, [Next]_vars
  PROVE  QueuesOK'
<1>0. QueuesOK /\ SessionsOK /\ queueSize \in Int
  BY Bounds DEF PubInv, TypeOK, QueuesOK
<1>1. CASE UNCHANGED <<queueSize, queue>>
  BY <1>0, <1>1 DEF QueuesOK
<1>2. ASSUME UNCHANGED queueSize, rpc.at = "written", Shorter(rpc.of)
      PROVE  QueuesOK'
  <2>1. rpc.of \in Ids
    BY <1>2, RpcSession
  <2>2. /\ Tail(queue[rpc.of]) \in Seq(States)
        /\ Len(Tail(queue[rpc.of])) = Len(queue[rpc.of]) - 1
        /\ Len(queue[rpc.of]) \in Nat
    BY <1>0, <1>2, <2>1, TailOfStates, LenOfStates DEF Shorter, QueuesOK
  <2>3. queue' = [queue EXCEPT ![rpc.of] = Tail(@)]
    BY <1>2 DEF Shorter
  <2> QED
    BY <1>0, <1>2, <2>1, <2>2, <2>3 DEF QueuesOK
<1>3. ASSUME UNCHANGED queueSize, NEW s \in left, PublishTo(s), Longer(s)
      PROVE  QueuesOK'
  <2>1. s \in Ids /\ published \in States
    BY <1>0, <1>3, PublishedState DEF PublishTo, SessionsOK, Created
  <2> DEFINE q == IF queueSize > 0 /\ Len(queue[s]) >= queueSize
                  THEN Tail(queue[s]) ELSE queue[s]
  <2>2. queue[s] \in Seq(States) /\ Len(queue[s]) \in Nat
        /\ (queueSize >= 0 => Len(queue[s]) <= queueSize) /\ queueSize # 0
    BY <1>0, <1>3, <2>1, LenOfStates DEF QueuesOK, Longer
  <2>3. q \in Seq(States) /\ (queueSize > 0 => Len(q) + 1 <= queueSize)
    <3>1. CASE queueSize > 0 /\ Len(queue[s]) >= queueSize
      <4>1. queue[s] # <<>>
        BY <1>0, <2>2, <3>1, LenOfStates
      <4> QED
        BY <1>0, <2>2, <3>1, <4>1, TailOfStates
    <3>2. CASE ~(queueSize > 0 /\ Len(queue[s]) >= queueSize)
      BY <1>0, <2>2, <3>2
    <3> QED
      BY <3>1, <3>2
  <2>4. queue' = [queue EXCEPT ![s] = Append(q, published)]
    BY <1>0, <1>3, <2>1 DEF Longer, QueuesOK
  <2> HIDE DEF q
  <2>5. Append(q, published) \in Seq(States) /\ Len(Append(q, published)) = Len(q) + 1
    BY <2>1, <2>3, AppendOfStates
  <2> QED
    BY <1>0, <1>3, <2>1, <2>2, <2>3, <2>4, <2>5 DEF QueuesOK
<1> QED
  BY <1>1, <1>2, <1>3, QueueChanges

LEMMA ThreadsStep ==
  ASSUME PubInv, [Next]_vars
  PROVE  ThreadsOK'
<1>0. ThreadsOK /\ MaxMessages \in Nat
  BY Bounds DEF PubInv, TypeOK
<1>1. ASSUME UNCHANGED <<published, app, rpc>> PROVE ThreadsOK'
  BY <1>0, <1>1 DEF ThreadsOK
<1>2. ASSUME UNCHANGED <<published, app>>,
             NEW at \in {"next", "construct", "insert", "ready", "written", "finish", "aborted", "exited"},
             NEW s \in Ids \union {0}, Goto(at, s)
      PROVE  ThreadsOK'
  BY <1>0, <1>2 DEF ThreadsOK, Goto
<1>3. ASSUME UNCHANGED <<published, app>>, rpc' = Idle PROVE ThreadsOK'
  BY <1>0, <1>3 DEF ThreadsOK, Idle
<1>4. ASSUME NEW s \in Ids, Connect(s) \/ Disconnect(s) \/ WriteDone(s) PROVE ThreadsOK'
  BY <1>1, <1>4 DEF Connect, Disconnect, WriteDone, appVars
<1>5. ASSUME NEW s \in Ids, OnCompletionEvent(s) \/ OnFailed(s) PROVE ThreadsOK'
  BY <1>1, <1>2, <1>5 DEF OnCompletionEvent, OnConnected, OnWritten, OnOther, OnFailed, Take, appVars
<1>6. ASSUME Finish \/ NewSession \/ AddSession \/ ReadyToWrite \/ Written \/ WrittenAborts \/ Exit
      PROVE  ThreadsOK'
  <2>1. rpc.of \in Ids \union {0} /\ UNCHANGED <<published, app>>
    BY <1>0, <1>6 DEF ThreadsOK, Finish, NewSession, AddSession, ReadyToWrite, Written,
       WrittenAborts, Exit, appVars
  <2>2. \/ rpc' = Idle \/ Goto("exited", 0)
        \/ \E at \in {"insert", "ready", "aborted"} : Goto(at, rpc.of)
    BY <1>6 DEF Finish, NewSession, AddSession, ReadyToWrite, Written, WrittenAborts, Exit
  <2> QED
    BY <1>2, <1>3, <2>1, <2>2
<1>7. ASSUME Publish \/ Published \/ Stop \/ StopServer \/ StopQueue \/ Stopped
      PROVE  ThreadsOK'
  <2>1. CASE Publish
    BY <1>0, <2>1 DEF ThreadsOK, Publish
  <2>2. ASSUME Published \/ Stop \/ StopServer \/ StopQueue \/ Stopped PROVE ThreadsOK'
    BY <1>0, <2>2 DEF ThreadsOK, Published, Stop, StopServer, StopQueue, Stopped
  <2> QED
    BY <1>7, <2>1, <2>2
<1>8. ASSUME NEW s \in Ids, PublishTo(s) \/ TryCancelCallAndShutdown(s) PROVE ThreadsOK'
  BY <1>1, <1>8 DEF PublishTo, TryCancelCallAndShutdown, StopCancels, StopFinishes, appVars
<1>9. CASE UNCHANGED vars
  BY <1>1, <1>9 DEF vars, appVars
<1> QED
  BY <1>4, <1>5, <1>6, <1>7, <1>8, <1>9 DEF Next, Dispatch, Application, Network

LEMMA EventIsEvent ==
  ASSUME NEW s \in Ids, NEW b \in BOOLEAN PROVE [of |-> s, ok |-> b] \in Events
BY DEF Events

LEMMA GrpcStep ==
  ASSUME PubInv, [Next]_vars
  PROVE  GrpcOK'
<1>0. GrpcOK /\ SessionsOK /\ QueuesOK
  BY DEF PubInv, TypeOK
<1>1. ASSUME UNCHANGED grpcVars PROVE GrpcOK'
  BY <1>0, <1>1 DEF GrpcOK, grpcVars
<1>2. ASSUME NEW s \in Ids, Connect(s) \/ Disconnect(s) PROVE GrpcOK'
  BY <1>0, <1>2, EventIsEvent DEF GrpcOK, Connect, Disconnect
<1>3. ASSUME NEW s \in Ids, WriteDone(s) PROVE GrpcOK'
  <2>1. /\ writes[s] \in Seq(States) /\ writes[s] # <<>> /\ wire[s] \in Seq(States)
        /\ UNCHANGED <<call, down>>
    BY <1>0, <1>3 DEF GrpcOK, WriteDone
  <2>2. Tail(writes[s]) \in Seq(States) /\ Append(wire[s], Head(writes[s])) \in Seq(States)
    BY <2>1, TailOfStates, AppendOfStates
  <2>3. writes' \in [Ids -> Seq(States)] /\ wire' \in [Ids -> Seq(States)]
    BY <1>0, <1>3, <2>2 DEF GrpcOK, WriteDone
  <2>4. cq' \subseteq Events
    BY <1>0, <1>3, EventIsEvent DEF GrpcOK, WriteDone
  <2> QED
    BY <1>0, <2>1, <2>3, <2>4 DEF GrpcOK
<1>4. ASSUME NEW s \in Ids, OnCompletionEvent(s) \/ OnFailed(s) PROVE GrpcOK'
  BY <1>0, <1>4 DEF GrpcOK, OnCompletionEvent, OnConnected, OnWritten, OnOther, OnFailed, Take, TryCancel
<1>5. CASE NewSession
  <2>1. CASE QueueClosed
    BY <1>0, <1>5, <2>1 DEF NewSession, GrpcOK
  <2>2. CASE ~QueueClosed
    <3>1. Newest < MaxSessions
      BY <1>5 DEF NewSession, PubInv, NewestInv
    <3>2. Newest + 1 \in Ids
      BY <1>0, <3>1, Bounds DEF SessionsOK, Ids
    <3> QED
      BY <1>0, <1>5, <2>2, <3>2, EventIsEvent DEF NewSession, GrpcOK
  <2> QED
    BY <2>1, <2>2
<1>6. ASSUME NEW s \in Ids, NEW m \in States, Write(s, m), UNCHANGED <<wire, call, cq, down>>
      PROVE  GrpcOK'
  BY <1>0, <1>6, AppendOfStates DEF GrpcOK, Write
<1>7. CASE Written
  <2>1. rpc.of \in Ids /\ UNCHANGED <<wire, call, cq, down>>
    BY <1>7, RpcSession DEF Written
  <2>2. CASE queue[rpc.of] # <<>>
    <3>1. Head(queue[rpc.of]) \in States
      BY <1>0, <2>1, <2>2, TailOfStates DEF QueuesOK
    <3> QED
      BY <1>6, <1>7, <2>1, <2>2, <3>1 DEF Written, WriteNext
  <2>3. CASE queue[rpc.of] = <<>>
    BY <1>0, <1>7, <2>1, <2>3 DEF Written, GrpcOK
  <2> QED
    BY <2>2, <2>3
<1>8. ASSUME Finish \/ AddSession \/ ReadyToWrite \/ WrittenAborts \/ Exit
             \/ Publish \/ Published \/ Stop \/ Stopped
      PROVE  GrpcOK'
  BY <1>1, <1>8 DEF Finish, AddSession, ReadyToWrite, WrittenAborts, Exit,
     Publish, Published, Stop, Stopped
<1>9. ASSUME NEW s \in Ids, PublishTo(s) PROVE GrpcOK'
  <2>1. UNCHANGED <<wire, call, cq, down>> /\ published \in States
    BY <1>9, PublishedState DEF PublishTo
  <2>2. Write(s, published) \/ UNCHANGED writes
    BY <1>9 DEF PublishTo, WriteNow, WriteLater
  <2>3. CASE UNCHANGED writes
    BY <1>0, <2>1, <2>3 DEF GrpcOK
  <2> QED
    BY <1>6, <2>1, <2>2, <2>3
<1>10. ASSUME NEW s \in Ids, TryCancelCallAndShutdown(s) PROVE GrpcOK'
  BY <1>0, <1>10 DEF GrpcOK, TryCancelCallAndShutdown, StopCancels, StopFinishes, TryCancel, grpcVars
<1>11. CASE StopServer
  <2>1. \A s \in requested : s \in Ids
    BY <1>0 DEF SessionsOK, Created
  <2>2. [of : requested, ok : {FALSE}] \subseteq Events
    BY <2>1 DEF Events
  <2> QED
    BY <1>0, <1>11, <2>2 DEF GrpcOK, StopServer
<1>12. CASE StopQueue
  BY <1>0, <1>12 DEF GrpcOK, StopQueue
<1>13. CASE UNCHANGED vars
  BY <1>1, <1>13 DEF vars, grpcVars
<1> QED
  BY <1>2, <1>3, <1>4, <1>5, <1>7, <1>8, <1>9, <1>10, <1>11, <1>12, <1>13
     DEF Next, Dispatch, Application, Network

-----------------------------------------------------------------------------
(* The tokens.  An action touches one session; the others are the same.    *)

Same(s) ==
  /\ writes'[s] = writes[s] /\ Completions(s)' = Completions(s)
  /\ s \in requested' <=> s \in requested
  /\ state'[s] = state[s] /\ queue'[s] = queue[s]
  /\ rpc' = rpc \/ (rpc.of # s /\ rpc'.of # s)

LEMMA TokenFrame ==
  ASSUME NEW s \in Ids, TokenAt(s), StateAt(s), Same(s)
  PROVE  TokenAt(s)' /\ StateAt(s)'
<1>1. TokenAt(s)'
  BY DEF TokenAt, Same
<1>2. StateAt(s)'
  BY DEF StateAt, Same
<1> QED
  BY <1>1, <1>2

LEMMA OneSession ==
  ASSUME TokenInv, NEW s \in Ids, \A t \in Ids \ {s} : Same(t), TokenAt(s)', StateAt(s)'
  PROVE  TokenInv'
<1>1. ASSUME NEW t \in Ids \ {s} PROVE TokenAt(t)' /\ StateAt(t)'
  BY <1>1, TokenFrame DEF TokenInv
<1>2. \A t \in Ids : TokenAt(t)' /\ StateAt(t)'
  BY <1>1
<1> QED
  BY <1>2 DEF TokenInv

(* An action that leaves the tokens alone.                                 *)
LEMMA NoSession ==
  ASSUME TokenInv, UNCHANGED <<writes, cq, requested, state, queue, rpc>>
  PROVE  TokenInv'
<1>1. \A t \in Ids : Same(t)
  BY SameCompletions DEF Same
<1>2. ASSUME NEW t \in Ids PROVE TokenAt(t)' /\ StateAt(t)'
  BY <1>1, TokenFrame DEF TokenInv
<1> QED
  BY <1>2 DEF TokenInv

LEMMA NetworkTokens ==
  ASSUME PubInv, NEW s \in Ids, Connect(s) \/ Disconnect(s) \/ WriteDone(s)
  PROVE  TokenInv'
<1>0. TokenInv /\ TokenAt(s) /\ StateAt(s) /\ GrpcOK
  BY DEF PubInv, TokenInv, TypeOK
<1>1. CASE Connect(s)
  <2>1. /\ s \in requested /\ requested' = requested \ {s}
        /\ cq' = cq \union {[of |-> s, ok |-> TRUE]}
        /\ UNCHANGED <<writes, state, queue, rpc>>
    BY <1>1 DEF Connect, sessionVars
  <2>2. writes[s] = <<>> /\ Completions(s) = {} /\ rpc.of # s /\ state[s] = "WAIT_CONNECT"
    BY <1>0, <2>1 DEF TokenAt, StateAt
  <2>3. Completions(s)' = {[of |-> s, ok |-> TRUE]}
        /\ \A t \in Ids \ {s} : Completions(t)' = Completions(t)
    BY <2>1, <2>2, CompletionAdded
  <2>4. \A t \in Ids \ {s} : Same(t)
    BY <2>1, <2>3 DEF Same
  <2>5. TokenAt(s)'
    BY <1>0, <2>1, <2>2, <2>3 DEF TokenAt
  <2>6. StateAt(s)'
    BY <1>0, <2>1, <2>2 DEF StateAt
  <2> QED
    BY <1>0, <2>4, <2>5, <2>6, OneSession
<1>2. CASE Disconnect(s)
  BY <1>0, <1>2, NoSession DEF Disconnect, sessionVars
<1>3. CASE WriteDone(s)
  <2>1. /\ writes[s] # <<>> /\ writes' = [writes EXCEPT ![s] = Tail(@)]
        /\ UNCHANGED <<requested, state, queue, rpc>>
    BY <1>3 DEF WriteDone, sessionVars
  <2>2. PICK b \in BOOLEAN : cq' = cq \union {[of |-> s, ok |-> b]}
    BY <1>3 DEF WriteDone
  <2>3. Completions(s) = {} /\ rpc.of # s /\ s \notin requested /\ Len(writes[s]) <= 1
        /\ writes[s] \in Seq(States)
    BY <1>0, <2>1 DEF TokenAt, GrpcOK
  <2>4. Completions(s)' = {[of |-> s, ok |-> b]}
        /\ \A t \in Ids \ {s} : Completions(t)' = Completions(t)
    BY <2>2, <2>3, CompletionAdded
  <2>5. Tail(writes[s]) \in Seq(States) /\ Len(Tail(writes[s])) = Len(writes[s]) - 1
    BY <2>1, <2>3, TailOfStates
  <2>6. Len(Tail(writes[s])) <= 1 /\ Tail(writes[s]) = <<>>
    BY <2>3, <2>5, LenOfStates
  <2>7. writes'[s] = <<>> /\ \A t \in Ids \ {s} : writes'[t] = writes[t]
    BY <1>0, <2>1, <2>6 DEF GrpcOK
  <2>8. \A t \in Ids \ {s} : Same(t)
    BY <2>1, <2>4, <2>7 DEF Same
  <2>9. TokenAt(s)'
    BY <2>1, <2>3, <2>4, <2>7 DEF TokenAt
  <2>10. StateAt(s)'
    BY <1>0, <2>1, <2>3, <2>4, <2>7 DEF StateAt
  <2> QED
    BY <1>0, <2>8, <2>9, <2>10, OneSession
<1> QED
  BY <1>1, <1>2, <1>3

(* The dispatcher's attention is the token of the session whose completion *)
(* it takes.                                                               *)
LEMMA TakeTokens ==
  ASSUME PubInv, NEW s \in Ids, OnCompletionEvent(s) \/ OnFailed(s)
  PROVE  TokenInv'
<1>0. TokenInv /\ TokenAt(s) /\ StateAt(s)
  BY DEF PubInv, TokenInv
<1>1. PICK b \in BOOLEAN : Take(s, b)
  BY DEF OnCompletionEvent, OnConnected, OnWritten, OnOther, OnFailed
<1>2. /\ Completions(s) # {} /\ Completions(s)' = {}
      /\ \A t \in Ids \ {s} : Completions(t)' = Completions(t)
      /\ rpc = Idle
  BY <1>0, <1>1, CompletionTaken
<1>3. UNCHANGED <<writes, requested, state, queue>>
  BY <1>1 DEF Take, sessionVars
<1>4. writes[s] = <<>> /\ s \notin requested /\ rpc.of # s
      /\ state[s] # "none" /\ state[s] # "READY_TO_WRITE"
  BY <1>0, <1>2 DEF TokenAt, StateAt
<1>5. \/ rpc' = rpc /\ state[s] # "WAIT_WRITE_DONE"
      \/ Goto("construct", s) /\ state[s] = "WAIT_CONNECT"
      \/ Goto("written", s) /\ state[s] = "WAIT_WRITE_DONE"
      \/ Goto("finish", s) /\ state[s] \notin {"WAIT_CONNECT", "FINISHED"}
  BY DEF OnCompletionEvent, OnConnected, OnWritten, OnOther, OnFailed, Cancellable
<1>6. rpc' = rpc \/ rpc'.of = s
  BY <1>5 DEF Goto
<1>7. \A t \in Ids \ {s} : Same(t)
  <2>1. \A t \in Ids : rpc.of # t
    BY <1>2, Bounds DEF Idle, Ids
  <2> QED
    BY <1>2, <1>3, <1>6, <2>1 DEF Same
<1>8. TokenAt(s)'
  BY <1>2, <1>3, <1>4, <1>6 DEF TokenAt
<1>9. state[s] \in {"none", "WAIT_CONNECT", "READY_TO_WRITE", "WAIT_WRITE_DONE", "FINISHED"}
  BY DEF PubInv, TypeOK, SessionsOK
<1>10. StateAt(s)'
  BY <1>0, <1>2, <1>3, <1>4, <1>5, <1>9 DEF StateAt, Goto
<1> QED
  BY <1>0, <1>7, <1>8, <1>10, OneSession

(* The session of the dispatcher has no other token.                       *)
LEMMA RpcToken ==
  ASSUME PubInv, rpc.at \notin {"next", "exited"}
  PROVE  /\ writes[rpc.of] = <<>> /\ Completions(rpc.of) = {} /\ rpc.of \notin requested
         /\ Len(writes[rpc.of]) <= 1
BY RpcSession DEF TokenAt

LEMMA NewSessionTokens ==
  ASSUME PubInv, NewSession
  PROVE  TokenInv'
<1>p. PICK s \in Ids : s = rpc.of
  BY RpcSession DEF NewSession
<1>0. /\ TokenAt(s) /\ StateAt(s) /\ TokenInv /\ SessionsOK
      /\ rpc.at = "construct" /\ state[s] = "WAIT_CONNECT"
  BY <1>p, RpcSession DEF NewSession, PubInv, TypeOK, StateAt
<1>1. UNCHANGED <<queue, writes>>
  BY DEF NewSession
<1>2. CASE QueueClosed
  <2>1. UNCHANGED <<state, requested, cq>> /\ rpc' = [at |-> "aborted", of |-> s]
    BY <1>2, <1>p DEF NewSession, Goto
  <2>2. \A t \in Ids : Completions(t)' = Completions(t)
    BY <2>1, SameCompletions
  <2>3. \A t \in Ids \ {s} : Same(t)
    BY <1>1, <2>1, <2>2, <1>p DEF Same
  <2>4. TokenAt(s)'
    BY <1>0, <1>1, <2>1, <2>2, <1>p DEF TokenAt
  <2>5. StateAt(s)'
    BY <1>0, <1>1, <2>1, <2>2, <1>p DEF StateAt
  <2> QED
    BY <1>0, <2>3, <2>4, <2>5, OneSession
<1>3. CASE ~QueueClosed
  <2>n. PICK n : n = Newest + 1
    OBVIOUS
  <2>1. Enter(n, "WAIT_CONNECT") /\ rpc' = [at |-> "insert", of |-> s]
    BY <1>3, <1>p, <2>n DEF NewSession, Goto
  <2>2. \/ cq' = cq \union {[of |-> n, ok |-> FALSE]} /\ UNCHANGED requested
        \/ requested' = requested \union {n} /\ UNCHANGED cq
    BY <1>3, <2>n DEF NewSession
  <2>3. Newest < MaxSessions
    BY <1>0 DEF PubInv, NewestInv
  <2>4. n \in Ids /\ state[n] = "none"
    BY <1>0, <2>n, <2>1, <2>3, NewSessionCreates
  <2>5. state' = [state EXCEPT ![n] = "WAIT_CONNECT"]
    BY <2>1 DEF Enter
  <2>6. s # n /\ TokenAt(n) /\ StateAt(n)
    BY <1>0, <2>4 DEF TokenInv
  <2>7. /\ state'[n] = "WAIT_CONNECT"
        /\ \A t \in Ids \ {n} : state'[t] = state[t]
    BY <1>0, <2>4, <2>5 DEF SessionsOK
  <2>8. /\ writes[n] = <<>> /\ Completions(n) = {} /\ rpc.of # n /\ n \notin requested
        /\ queue[n] = <<>> /\ Len(writes[n]) <= 1
    BY <2>4, <2>6 DEF StateAt, TokenAt
  <2>9. /\ \A t \in Ids \ {n} : Completions(t)' = Completions(t) /\ (t \in requested' <=> t \in requested)
        /\ \/ Completions(n)' = {} /\ n \in requested'
           \/ Completions(n)' = {[of |-> n, ok |-> FALSE]} /\ n \notin requested'
    <3>1. CASE requested' = requested \union {n} /\ UNCHANGED cq
      BY <2>4, <2>8, <3>1, SameCompletions
    <3>2. CASE cq' = cq \union {[of |-> n, ok |-> FALSE]} /\ UNCHANGED requested
      BY <2>4, <2>8, <3>2, CompletionAdded
    <3> QED
      BY <2>2, <3>1, <3>2
  <2>10. TokenAt(n)'
    BY <1>1, <2>1, <2>6, <2>8, <2>9 DEF TokenAt
  <2>11. StateAt(n)'
    BY <1>1, <2>1, <2>6, <2>7, <2>8 DEF StateAt
  <2>12. TokenAt(s)'
    BY <1>0, <1>1, <2>1, <2>6, <2>9, <1>p DEF TokenAt
  <2>13. StateAt(s)'
    BY <1>0, <1>1, <2>1, <2>6, <2>7, <2>9, <1>p DEF StateAt
  <2>14. \A t \in Ids \ {n, s} : Same(t)
    BY <1>1, <2>1, <2>7, <2>9, <1>p DEF Same
  <2>15. ASSUME NEW t \in Ids PROVE TokenAt(t)' /\ StateAt(t)'
    BY <1>0, <2>10, <2>11, <2>12, <2>13, <2>14, TokenFrame DEF TokenInv
  <2> QED
    BY <2>15 DEF TokenInv
<1> QED
  BY <1>2, <1>3

LEMMA DispatcherTokens ==
  ASSUME PubInv, Finish \/ AddSession \/ ReadyToWrite \/ Written \/ WrittenAborts
  PROVE  TokenInv'
<1>p. PICK s \in Ids : s = rpc.of
  BY RpcSession DEF Finish, AddSession, ReadyToWrite, Written, WrittenAborts
<1>0. /\ TokenAt(s) /\ StateAt(s) /\ TokenInv /\ SessionsOK /\ GrpcOK /\ QueuesOK
      /\ rpc.at \in {"finish", "insert", "ready", "written"}
      /\ writes[s] = <<>> /\ Completions(s) = {} /\ s \notin requested /\ Len(writes[s]) <= 1
  BY <1>p, RpcSession, RpcToken DEF Finish, AddSession, ReadyToWrite, Written, WrittenAborts,
     PubInv, TypeOK
<1>1. /\ UNCHANGED <<cq, requested>>
      /\ rpc' = Idle \/ rpc' = [at |-> "ready", of |-> s] \/ rpc' = [at |-> "aborted", of |-> s]
  BY <1>p DEF Finish, AddSession, ReadyToWrite, Written, WrittenAborts, Goto, grpcVars
<1>2. /\ \A t \in Ids : Completions(t)' = Completions(t)
      /\ \A t \in Ids \ {s} : rpc.of # t /\ rpc'.of # t
  <2>1. \A t \in Ids : t # 0
    BY Bounds DEF Ids
  <2> QED
    BY <1>p, <1>1, <2>1, SameCompletions DEF Idle
<1>3. ASSUME NEW st, Enter(s, st), UNCHANGED <<queue, writes>>
      PROVE  state'[s] = st /\ \A t \in Ids \ {s} : Same(t)
  <2>1. state' = [state EXCEPT ![s] = st]
    BY <1>3 DEF Enter
  <2>2. state'[s] = st /\ \A t \in Ids \ {s} : state'[t] = state[t]
    BY <1>0, <2>1 DEF SessionsOK
  <2> QED
    BY <1>1, <1>2, <1>3, <2>2 DEF Same
<1>4. CASE Finish
  <2>1. Enter(s, "FINISHED") /\ UNCHANGED <<queue, writes>> /\ rpc' = Idle
    BY <1>4, <1>p DEF Finish, grpcVars
  <2>2. state'[s] = "FINISHED" /\ \A t \in Ids \ {s} : Same(t)
    BY <1>3, <2>1
  <2>3. TokenAt(s)'
    BY <1>0, <1>1, <1>2, <2>1 DEF TokenAt
  <2>4. StateAt(s)'
    BY <1>0, <1>1, <2>1, <2>2, Bounds DEF StateAt, Idle, Ids
  <2> QED
    BY <1>0, <2>2, <2>3, <2>4, OneSession
<1>5. CASE AddSession
  <2>1. UNCHANGED <<state, queue, writes>> /\ rpc' = [at |-> "ready", of |-> s] /\ rpc.at = "insert"
    BY <1>5, <1>p DEF AddSession, grpcVars, Goto
  <2>2. \A t \in Ids \ {s} : Same(t)
    BY <1>1, <1>2, <2>1 DEF Same
  <2>3. TokenAt(s)'
    BY <1>0, <1>1, <1>2, <2>1 DEF TokenAt
  <2>4. StateAt(s)'
    BY <1>0, <1>1, <1>2, <2>1, <1>p DEF StateAt
  <2> QED
    BY <1>0, <2>2, <2>3, <2>4, OneSession
<1>6. CASE ReadyToWrite
  <2>1. Enter(s, "READY_TO_WRITE") /\ UNCHANGED <<queue, writes>> /\ rpc' = Idle /\ rpc.at = "ready"
    BY <1>6, <1>p DEF ReadyToWrite, grpcVars
  <2>2. state'[s] = "READY_TO_WRITE" /\ \A t \in Ids \ {s} : Same(t)
    BY <1>3, <2>1
  <2>3. TokenAt(s)'
    BY <1>0, <1>1, <1>2, <2>1 DEF TokenAt
  <2>4. queue[s] = <<>>
    BY <1>0, <2>1, <1>p DEF StateAt
  <2>5. StateAt(s)'
    BY <1>0, <1>1, <1>2, <2>1, <2>2, <2>4, Bounds DEF StateAt, Idle, Ids
  <2> QED
    BY <1>0, <2>2, <2>3, <2>5, OneSession
<1>7. CASE WrittenAborts
  <2>1. UNCHANGED <<state, queue, writes>> /\ rpc' = [at |-> "aborted", of |-> s] /\ rpc.at = "written"
    BY <1>7, <1>p DEF WrittenAborts, sessionVars, grpcVars, Goto
  <2>2. \A t \in Ids \ {s} : Same(t)
    BY <1>1, <1>2, <2>1 DEF Same
  <2>3. TokenAt(s)'
    BY <1>0, <1>1, <1>2, <2>1 DEF TokenAt
  <2>4. StateAt(s)'
    BY <1>0, <1>1, <1>2, <2>1, <1>p DEF StateAt
  <2> QED
    BY <1>0, <2>2, <2>3, <2>4, OneSession
<1>8. CASE Written /\ queue[s] # <<>>
  <2>1. WriteNext(s) /\ Enter(s, "WAIT_WRITE_DONE") /\ rpc' = Idle
    BY <1>8, <1>p DEF Written
  <2>2. PICK m : m = Head(queue[s]) /\ writes' = [writes EXCEPT ![s] = Append(@, m)]
    BY <2>1 DEF WriteNext, Write
  <2>3. writes'[s] = <<m>> /\ \A t \in Ids \ {s} : writes'[t] = writes[t]
    BY <1>0, <2>2 DEF GrpcOK
  <2>4. \A t \in Ids \ {s} : queue'[t] = queue[t]
    BY <1>0, <2>1 DEF WriteNext, QueuesOK
  <2>5. state' = [state EXCEPT ![s] = "WAIT_WRITE_DONE"]
    BY <2>1 DEF Enter
  <2>6. state'[s] = "WAIT_WRITE_DONE" /\ \A t \in Ids \ {s} : state'[t] = state[t]
    BY <1>0, <2>5 DEF SessionsOK
  <2>7. \A t \in Ids \ {s} : Same(t)
    BY <1>1, <1>2, <2>3, <2>4, <2>6 DEF Same
  <2>8. rpc'.of # s /\ Len(writes'[s]) = 1 /\ writes'[s] # <<>>
    BY <1>0, <2>1, <2>3, Bounds DEF Idle, Ids
  <2>9. TokenAt(s)'
    BY <1>0, <1>1, <1>2, <2>8 DEF TokenAt
  <2>10. StateAt(s)'
    BY <1>0, <1>1, <2>6, <2>8 DEF StateAt
  <2> QED
    BY <1>0, <2>7, <2>9, <2>10, OneSession
<1>9. CASE Written /\ ~(queue[s] # <<>>)
  <2>1. Enter(s, "READY_TO_WRITE") /\ UNCHANGED <<queue, writes>> /\ rpc' = Idle
    BY <1>9, <1>p DEF Written
  <2>2. state'[s] = "READY_TO_WRITE" /\ \A t \in Ids \ {s} : Same(t)
    BY <1>3, <2>1
  <2>3. rpc'.of # s
    BY <1>0, <2>1, Bounds DEF Idle, Ids
  <2>4. TokenAt(s)'
    BY <1>0, <1>1, <1>2, <2>1, <2>3 DEF TokenAt
  <2>5. StateAt(s)'
    BY <1>0, <1>1, <1>2, <1>9, <2>1, <2>2, <2>3 DEF StateAt
  <2> QED
    BY <1>0, <2>2, <2>4, <2>5, OneSession
<1> QED
  BY <1>4, <1>5, <1>6, <1>7, <1>8, <1>9

LEMMA PublishTokens ==
  ASSUME PubInv, NEW s \in Ids, PublishTo(s)
  PROVE  TokenInv'
<1>0. TokenInv /\ TokenAt(s) /\ StateAt(s) /\ SessionsOK /\ GrpcOK /\ QueuesOK
  BY DEF PubInv, TokenInv, TypeOK
<1>1. UNCHANGED <<rpc, requested, cq>> /\ \A t \in Ids : Completions(t)' = Completions(t)
  BY SameCompletions DEF PublishTo
<1>2. CASE WriteNow(s)
  <2>1. state[s] = "READY_TO_WRITE" /\ UNCHANGED queue
    BY <1>2 DEF WriteNow
  <2>2. writes[s] = <<>> /\ Completions(s) = {} /\ rpc.of # s /\ s \notin requested
    BY <1>0, <2>1 DEF StateAt
  <2>3. state' = [state EXCEPT ![s] = "WAIT_WRITE_DONE"]
        /\ writes' = [writes EXCEPT ![s] = Append(@, published)]
    BY <1>2 DEF WriteNow, Enter, Write
  <2>4. /\ writes'[s] = <<published>> /\ state'[s] = "WAIT_WRITE_DONE"
        /\ \A t \in Ids \ {s} : writes'[t] = writes[t] /\ state'[t] = state[t]
    BY <1>0, <2>2, <2>3 DEF GrpcOK, SessionsOK
  <2>5. \A t \in Ids \ {s} : Same(t)
    BY <1>1, <2>1, <2>4 DEF Same
  <2>6. Len(writes'[s]) = 1 /\ writes'[s] # <<>>
    BY <2>4
  <2>7. TokenAt(s)'
    BY <1>1, <2>2, <2>6 DEF TokenAt
  <2>8. StateAt(s)'
    BY <1>1, <2>2, <2>4, <2>6 DEF StateAt
  <2> QED
    BY <1>0, <2>5, <2>7, <2>8, OneSession
<1>3. CASE ~WriteNow(s)
  <2>1. /\ UNCHANGED <<state, writes>>
        /\ UNCHANGED queue \/ (state[s] = "WAIT_WRITE_DONE" /\ Enqueue(s))
    BY <1>3 DEF PublishTo, WriteLater
  <2>2. CASE UNCHANGED queue
    BY <1>0, <1>1, <2>1, <2>2, NoSession
  <2>3. CASE state[s] = "WAIT_WRITE_DONE" /\ Enqueue(s)
    <3>1. \A t \in Ids \ {s} : queue'[t] = queue[t]
      BY <1>0, <2>3 DEF Enqueue, QueuesOK
    <3>2. \A t \in Ids \ {s} : Same(t)
      BY <1>1, <2>1, <3>1 DEF Same
    <3>3. TokenAt(s)'
      BY <1>0, <1>1, <2>1 DEF TokenAt
    <3>4. StateAt(s)'
      BY <1>0, <1>1, <2>1, <2>3 DEF StateAt
    <3> QED
      BY <1>0, <3>2, <3>3, <3>4, OneSession
  <2> QED
    BY <2>1, <2>2, <2>3
<1> QED
  BY <1>2, <1>3

(* Stop changes states, and turns the requests into completions.           *)
LEMMA StopTokens ==
  ASSUME PubInv, (\E s \in Ids : TryCancelCallAndShutdown(s)) \/ StopServer
  PROVE  TokenInv'
<1>0. TokenInv /\ SessionsOK
  BY DEF PubInv, TypeOK
<1>1. ASSUME NEW s \in Ids, StopCancels(s) PROVE TokenInv'
  BY <1>0, <1>1, NoSession DEF StopCancels, sessionVars
<1>2. ASSUME NEW s \in Ids, StopFinishes(s) PROVE TokenInv'
  <2>1. UNCHANGED <<rpc, requested, cq, queue, writes>>
    BY <1>2 DEF StopFinishes, grpcVars
  <2>2. CASE ~Cancellable(s)
    BY <1>0, <1>2, <2>1, <2>2, NoSession DEF StopFinishes
  <2>3. CASE Cancellable(s)
    <3>1. state[s] # "WAIT_CONNECT" /\ state' = [state EXCEPT ![s] = "FINISHED"]
      BY <1>2, <2>3 DEF StopFinishes, Enter, Cancellable
    <3>2. state'[s] = "FINISHED" /\ \A t \in Ids \ {s} : state'[t] = state[t]
      BY <1>0, <3>1 DEF SessionsOK
    <3>3. \A t \in Ids : Completions(t)' = Completions(t)
      BY <2>1, SameCompletions
    <3>4. \A t \in Ids \ {s} : Same(t)
      BY <2>1, <3>2, <3>3 DEF Same
    <3>5. TokenAt(s) /\ StateAt(s) /\ state[s] # "none"
      BY <1>0, <1>2 DEF TokenInv, StopFinishes, SessionsOK, Created
    <3>6. TokenAt(s)'
      BY <2>1, <3>3, <3>5 DEF TokenAt
    <3>7. StateAt(s)'
      BY <2>1, <3>1, <3>2, <3>3, <3>5 DEF StateAt
    <3> QED
      BY <1>0, <3>4, <3>6, <3>7, OneSession
  <2> QED
    BY <2>2, <2>3
<1>3. CASE StopServer
  <2>1. /\ requested' = {} /\ cq' = cq \union [of : requested, ok : {FALSE}]
        /\ UNCHANGED <<rpc, state, queue, writes>>
    BY <1>3 DEF StopServer, sessionVars
  <2>2. ASSUME NEW t \in Ids PROVE TokenAt(t)' /\ StateAt(t)'
    <3>0. TokenAt(t) /\ StateAt(t)
      BY <1>0 DEF TokenInv
    <3>1. CASE t \in requested
      <4>1. writes[t] = <<>> /\ Completions(t) = {} /\ rpc.of # t /\ state[t] = "WAIT_CONNECT"
        BY <3>0, <3>1 DEF TokenAt, StateAt
      <4>2. ASSUME NEW e \in Completions(t)' PROVE e = [of |-> t, ok |-> FALSE]
        <5>1. e \in cq' /\ e.of = t
          BY DEF Completions
        <5>2. e \notin cq
          BY <4>1, <5>1 DEF Completions
        <5>3. e \in [of : requested, ok : {FALSE}]
          BY <2>1, <5>1, <5>2
        <5>4. PICK u \in requested : e = [of |-> u, ok |-> FALSE]
          BY <5>3
        <5> QED
          BY <5>1, <5>4
      <4>3. TokenAt(t)'
        BY <2>1, <3>0, <4>1, <4>2 DEF TokenAt
      <4>4. StateAt(t)'
        BY <2>1, <3>0, <4>1 DEF StateAt
      <4> QED
        BY <4>3, <4>4
    <3>2. CASE t \notin requested
      <4>1. Completions(t)' = Completions(t)
        BY <2>1, <3>2 DEF Completions
      <4>2. Same(t)
        BY <2>1, <3>2, <4>1 DEF Same
      <4> QED
        BY <3>0, <4>2, TokenFrame
    <3> QED
      BY <3>1, <3>2
  <2> QED
    BY <2>2 DEF TokenInv
<1> QED
  BY <1>1, <1>2, <1>3 DEF TryCancelCallAndShutdown

LEMMA TokenStep ==
  ASSUME PubInv, [Next]_vars
  PROVE  TokenInv'
<1>0. TokenInv
  BY DEF PubInv
<1>1. CASE Exit
  <2>1. UNCHANGED <<writes, cq, requested, state, queue>> /\ rpc.of = 0 /\ rpc'.of = 0
    BY <1>1 DEF Exit, Goto, Idle, sessionVars, grpcVars
  <2>2. \A t \in Ids : t # 0
    BY Bounds DEF Ids
  <2>3. \A t \in Ids : Same(t)
    BY <2>1, <2>2, SameCompletions DEF Same
  <2>4. ASSUME NEW t \in Ids PROVE TokenAt(t)' /\ StateAt(t)'
    BY <1>0, <2>3, TokenFrame DEF TokenInv
  <2> QED
    BY <2>4 DEF TokenInv
<1>2. ASSUME Publish \/ Published \/ Stop \/ StopQueue \/ Stopped PROVE TokenInv'
  BY <1>0, <1>2, NoSession DEF Publish, Published, Stop, StopQueue, Stopped, sessionVars, grpcVars
<1>3. CASE UNCHANGED vars
  BY <1>0, <1>3, NoSession DEF vars, sessionVars, grpcVars
<1> QED
  BY <1>1, <1>2, <1>3, NetworkTokens, TakeTokens, NewSessionTokens, DispatcherTokens,
     PublishTokens, StopTokens DEF Next, Dispatch, Application, Network

-----------------------------------------------------------------------------
(* The newest session.                                                     *)

(* Which requests, completions and places of the dispatcher speak for a    *)
(* session that waits.                                                     *)
LEMMA NewestFrame ==
  ASSUME NewestInv, UNCHANGED <<state, requested, rpc>>, down = {} => down' = down,
         \A b \in BOOLEAN : [of |-> Newest, ok |-> b] \in cq' <=> [of |-> Newest, ok |-> b] \in cq,
         down' = {} => down = {}
  PROVE  NewestInv'
<1>1. Newest' = Newest
  BY SameCreated
<1>2. TRUE \in BOOLEAN /\ FALSE \in BOOLEAN
  OBVIOUS
<1>3. down' = {} => Newest' \in Welcoming'
  BY <1>1, <1>2 DEF NewestInv, Welcoming
<1> QED
  BY <1>1, <1>2, <1>3 DEF NewestInv

(* The newest session waits, so it has no write and nothing of a writer.   *)
LEMMA NewestWaits ==
  ASSUME PubInv
  PROVE  /\ Newest \in Ids /\ state[Newest] = "WAIT_CONNECT" /\ writes[Newest] = <<>>
         /\ TokenAt(Newest) /\ StateAt(Newest)
<1>1. Newest \in Ids /\ state[Newest] = "WAIT_CONNECT"
  BY DEF PubInv, TypeOK, SessionsOK, NewestInv
<1>2. TokenAt(Newest) /\ StateAt(Newest)
  BY <1>1 DEF PubInv, TokenInv
<1> QED
  BY <1>1, <1>2 DEF StateAt

LEMMA NetworkNewest ==
  ASSUME PubInv, NEW s \in Ids, Connect(s) \/ Disconnect(s) \/ WriteDone(s)
  PROVE  NewestInv'
<1>0. NewestInv
  BY DEF PubInv
<1>1. CASE Connect(s)
  <2>1. /\ s \in requested /\ requested' = requested \ {s} /\ Newest < MaxSessions
        /\ cq' = cq \union {[of |-> s, ok |-> TRUE]}
        /\ UNCHANGED <<state, rpc, down>>
    BY <1>1 DEF Connect, sessionVars
  <2>2. TokenAt(s) /\ StateAt(s)
    BY DEF PubInv, TokenInv
  <2>3. state[s] = "WAIT_CONNECT" /\ rpc.of # s
    BY <2>1, <2>2 DEF TokenAt, StateAt
  <2>4. s = Newest /\ Newest' = Newest
    BY <1>0, <2>1, <2>3, SameCreated DEF NewestInv
  <2>5. [of |-> s, ok |-> TRUE] \in cq'
        /\ ([of |-> s, ok |-> FALSE] \in cq' => [of |-> s, ok |-> FALSE] \in cq)
    BY <2>1
  <2>6. Newest' \in Welcoming'
    BY <2>1, <2>3, <2>4, <2>5 DEF Welcoming
  <2> QED
    BY <1>0, <2>1, <2>4, <2>5, <2>6 DEF NewestInv
<1>2. CASE Disconnect(s)
  BY <1>0, <1>2, NewestFrame DEF Disconnect, sessionVars
<1>3. CASE WriteDone(s)
  <2>1. s # Newest /\ UNCHANGED <<state, requested, rpc, down>>
    BY <1>3, NewestWaits DEF WriteDone, sessionVars
  <2>2. PICK b \in BOOLEAN : cq' = cq \union {[of |-> s, ok |-> b]}
    BY <1>3 DEF WriteDone
  <2>3. \A c \in BOOLEAN : [of |-> Newest, ok |-> c] # [of |-> s, ok |-> b]
    BY <2>1
  <2> QED
    BY <1>0, <2>1, <2>2, <2>3, NewestFrame
<1> QED
  BY <1>1, <1>2, <1>3

LEMMA TakeNewest ==
  ASSUME PubInv, NEW s \in Ids, OnCompletionEvent(s) \/ OnFailed(s)
  PROVE  NewestInv'
<1>0. NewestInv
  BY DEF PubInv
<1>1. PICK b \in BOOLEAN : /\ Take(s, b)
                          /\ \/ b = TRUE /\ OnCompletionEvent(s)
                             \/ b = FALSE /\ OnFailed(s)
  BY DEF OnCompletionEvent, OnConnected, OnWritten, OnOther, OnFailed
<1>2. /\ rpc = Idle /\ [of |-> s, ok |-> b] \in cq /\ cq' = cq \ {[of |-> s, ok |-> b]}
      /\ UNCHANGED <<state, requested, down>> /\ Newest' = Newest
  BY <1>1, SameCreated DEF Take, sessionVars
<1>3. rpc.of = 0 /\ rpc.at = "next"
  BY <1>2 DEF Idle
<1>4. \A t \in Ids : state[t] = "WAIT_CONNECT" => t = Newest
  BY <1>0, <1>3 DEF NewestInv
<1>5. CASE b = TRUE /\ OnConnected(s)
  <2>1. s = Newest /\ rpc' = [at |-> "construct", of |-> s] /\ b = TRUE
    BY <1>1, <1>4, <1>5 DEF OnConnected, Goto
  <2>2. Newest < MaxSessions
    BY <1>0, <1>2, <2>1 DEF NewestInv
  <2>3. Newest' \in Welcoming'
    BY <1>2, <2>1, NewestWaits DEF Welcoming
  <2>4. s # 0
    BY Bounds DEF Ids
  <2> QED
    BY <1>0, <1>2, <1>4, <2>1, <2>2, <2>3, <2>4 DEF NewestInv
<1>6. CASE ~(b = TRUE /\ OnConnected(s))
  <2>1. \/ rpc' = rpc
        \/ rpc' = [at |-> "written", of |-> s] \/ rpc' = [at |-> "finish", of |-> s]
    BY <1>1, <1>6 DEF OnCompletionEvent, OnWritten, OnOther, OnFailed, Goto
  <2>2. down = {} => s # Newest
    <3>1. SUFFICES ASSUME s = Newest, down = {} PROVE FALSE
      OBVIOUS
    <3>2. state[s] = "WAIT_CONNECT"
      BY <3>1, NewestWaits
    <3>3. b = FALSE
      BY <1>1, <1>6, <3>2 DEF OnCompletionEvent, OnWritten, OnOther
    <3>4. [of |-> Newest, ok |-> FALSE] \in cq
      BY <1>2, <3>1, <3>3
    <3> QED
      BY <1>0, <3>1, <3>4 DEF NewestInv
  <2>3. \A c \in BOOLEAN : [of |-> Newest, ok |-> c] \in cq' => [of |-> Newest, ok |-> c] \in cq
    BY <1>2
  <2>4. s # Newest =>
          \A c \in BOOLEAN : [of |-> Newest, ok |-> c] \in cq => [of |-> Newest, ok |-> c] \in cq'
    BY <1>2
  <2>5. down' = {} => Newest' \in Welcoming'
    BY <1>0, <1>2, <1>3, <2>2, <2>4 DEF NewestInv, Welcoming
  <2>6. s # 0 /\ TRUE \in BOOLEAN /\ FALSE \in BOOLEAN
    BY Bounds DEF Ids
  <2> QED
    BY <1>0, <1>2, <1>3, <1>4, <2>1, <2>3, <2>5, <2>6 DEF NewestInv
<1> QED
  BY <1>5, <1>6

LEMMA NewSessionNewest ==
  ASSUME PubInv, NewSession
  PROVE  NewestInv'
<1>p. PICK s \in Ids : s = rpc.of
  BY RpcSession DEF NewSession
<1>0. /\ NewestInv /\ SessionsOK /\ TokenInv /\ rpc.at = "construct" /\ StateAt(s)
      /\ Newest < MaxSessions /\ UNCHANGED down
  BY <1>p, RpcSession DEF NewSession, PubInv, TypeOK, NewestInv
<1>1. s = Newest /\ \A t \in Ids : state[t] = "WAIT_CONNECT" => t = Newest
  BY <1>0, <1>p DEF NewestInv, StateAt
<1>2. s # 0 /\ Newest \in Nat
  BY <1>1, Bounds DEF Ids
<1>3. CASE QueueClosed
  <2>1. UNCHANGED <<state, requested, cq>> /\ rpc' = [at |-> "aborted", of |-> s] /\ down # {}
    BY <1>3, <1>p DEF NewSession, Goto, QueueClosed
  <2>2. Newest' = Newest
    BY <2>1, SameCreated
  <2> QED
    BY <1>0, <1>1, <1>2, <2>1, <2>2 DEF NewestInv
<1>4. CASE ~QueueClosed
  <2>n. PICK n : n = Newest + 1
    OBVIOUS
  <2>1. Enter(n, "WAIT_CONNECT") /\ rpc' = [at |-> "insert", of |-> s]
    BY <1>4, <1>p, <2>n DEF NewSession, Goto
  <2>2. n \in Ids /\ state[n] = "none" /\ Newest' = n
    BY <1>0, <2>n, <2>1, NewSessionCreates
  <2>3. \/ cq' = cq \union {[of |-> n, ok |-> FALSE]} /\ down # {}
        \/ requested' = requested \union {n} /\ UNCHANGED cq
    BY <1>4, <2>n DEF NewSession
  <2>4. state' = [state EXCEPT ![n] = "WAIT_CONNECT"]
    BY <2>1 DEF Enter
  <2>5. state'[n] = "WAIT_CONNECT" /\ \A t \in Ids \ {n} : state'[t] = state[t]
    BY <1>0, <2>2, <2>4 DEF SessionsOK
  <2>6. Completions(n) = {}
    BY <1>0, <2>2 DEF TokenInv, StateAt
  <2>7. \A b \in BOOLEAN : [of |-> n, ok |-> b] \notin cq
    BY <2>6 DEF Completions
  <2>8. [of |-> n, ok |-> TRUE] \notin cq'
    <3>1. [of |-> n, ok |-> TRUE] # [of |-> n, ok |-> FALSE] /\ [of |-> n, ok |-> TRUE] \notin cq
      BY <2>7
    <3> QED
      BY <2>3, <3>1
  <2>9. down' = {} => Newest' \in Welcoming' /\ [of |-> Newest', ok |-> FALSE] \notin cq'
    BY <1>0, <2>2, <2>3, <2>5, <2>7 DEF Welcoming
  <2>10. rpc'.of + 1 = Newest' /\ rpc'.at = "insert" /\ rpc'.of = s
    BY <1>1, <2>n, <2>1, <2>2
  <2>11. \A t \in Ids : state'[t] = "WAIT_CONNECT" => t = n \/ t = s
    BY <1>1, <2>5
  <2> QED
    BY <1>2, <2>2, <2>5, <2>8, <2>9, <2>10, <2>11 DEF NewestInv
<1> QED
  BY <1>3, <1>4

(* A session that serves or is finished does so without the next client.   *)
LEMMA ServingNewest ==
  ASSUME PubInv, NEW s \in Ids, state[s] \notin {"none", "WAIT_CONNECT"},
         NEW st \in {"READY_TO_WRITE", "WAIT_WRITE_DONE", "FINISHED"},
         UNCHANGED state \/ Enter(s, st), UNCHANGED <<requested, cq, down>>,
         rpc' = rpc \/ (rpc.at \in {"written", "finish"} /\ rpc' = Idle)
  PROVE  NewestInv'
<1>0. NewestInv /\ SessionsOK
  BY DEF PubInv, TypeOK
<1>1. Newest' = Newest
  BY <1>0, EnterKeepsCreated, SameCreated
<1>2. \A t \in Ids : state'[t] = "WAIT_CONNECT" <=> state[t] = "WAIT_CONNECT"
  <2>1. CASE UNCHANGED state
    BY <2>1
  <2>2. CASE Enter(s, st)
    BY <1>0, <2>2 DEF Enter, SessionsOK
  <2> QED
    BY <2>1, <2>2
<1>3. Newest \in Ids
  BY <1>0 DEF SessionsOK
<1>4. down' = {} => Newest' \in Welcoming'
  BY <1>0, <1>1, <1>2, <1>3 DEF NewestInv, Welcoming, Idle
<1> QED
  BY <1>0, <1>1, <1>2, <1>3, <1>4 DEF NewestInv, Idle

LEMMA DispatcherNewest ==
  ASSUME PubInv, Finish \/ AddSession \/ ReadyToWrite \/ Written \/ WrittenAborts \/ Exit
  PROVE  NewestInv'
<1>0. NewestInv /\ SessionsOK
  BY DEF PubInv, TypeOK
<1>1. UNCHANGED <<requested, cq, down>>
  BY DEF Finish, AddSession, ReadyToWrite, Written, WrittenAborts, Exit, grpcVars
<1>2. CASE Finish \/ Written
  <2>p. PICK s \in Ids : s = rpc.of
    BY <1>2, RpcSession DEF Finish, Written
  <2>1. /\ rpc.at \in {"written", "finish"} /\ rpc' = Idle
        /\ \E st \in {"READY_TO_WRITE", "WAIT_WRITE_DONE", "FINISHED"} : Enter(s, st)
    BY <1>2, <2>p DEF Finish, Written
  <2>2. state[s] \notin {"none", "WAIT_CONNECT"}
    BY <2>p, <2>1, RpcSession DEF StateAt
  <2> QED
    BY <1>1, <2>1, <2>2, ServingNewest
<1>3. CASE AddSession
  <2>1. UNCHANGED state /\ rpc.at = "insert" /\ rpc' = [at |-> "ready", of |-> rpc.of]
    BY <1>3 DEF AddSession, Goto
  <2>2. Newest' = Newest
    BY <2>1, SameCreated
  <2>3. down' = {} => Newest' \in Welcoming'
    BY <1>0, <1>1, <2>1, <2>2 DEF NewestInv, Welcoming
  <2> QED
    BY <1>0, <1>1, <2>1, <2>2, <2>3 DEF NewestInv
<1>4. CASE ReadyToWrite
  <2>p. PICK s \in Ids : s = rpc.of
    BY <1>4, RpcSession DEF ReadyToWrite
  <2>1. Enter(s, "READY_TO_WRITE") /\ rpc.at = "ready" /\ rpc' = Idle /\ state[s] # "none"
    BY <1>4, <2>p, RpcSession DEF ReadyToWrite
  <2>2. Newest' = Newest /\ s # Newest /\ Newest \in Ids
    BY <1>0, <2>p, <2>1, EnterKeepsCreated, Bounds DEF NewestInv, SessionsOK, Ids
  <2>3. state'[s] = "READY_TO_WRITE" /\ \A t \in Ids \ {s} : state'[t] = state[t]
    BY <1>0, <2>1 DEF Enter, SessionsOK
  <2>4. down' = {} => Newest' \in Welcoming'
    BY <1>0, <1>1, <2>1, <2>2, <2>3 DEF NewestInv, Welcoming
  <2> QED
    BY <1>0, <1>1, <2>p, <2>1, <2>2, <2>3, <2>4 DEF NewestInv, Idle
<1>5. CASE WrittenAborts
  <2>1. UNCHANGED state /\ rpc.at = "written" /\ rpc' = [at |-> "aborted", of |-> rpc.of]
        /\ down # {}
    BY <1>5 DEF WrittenAborts, Goto, sessionVars, QueueClosed
  <2>2. Newest' = Newest
    BY <2>1, SameCreated
  <2> QED
    BY <1>0, <1>1, <2>1, <2>2 DEF NewestInv
<1>6. CASE Exit
  <2>1. UNCHANGED state /\ rpc = Idle /\ rpc' = [at |-> "exited", of |-> 0] /\ down # {}
    BY <1>6 DEF Exit, Goto, sessionVars, Drained, QueueClosed
  <2>2. Newest' = Newest
    BY <2>1, SameCreated
  <2> QED
    BY <1>0, <1>1, <2>1, <2>2 DEF NewestInv, Idle
<1> QED
  BY <1>2, <1>3, <1>4, <1>5, <1>6

LEMMA ApplicationNewest ==
  ASSUME PubInv, Application
  PROVE  NewestInv'
<1>0. NewestInv /\ SessionsOK
  BY DEF PubInv, TypeOK
<1>1. ASSUME Publish \/ Published \/ Stop \/ Stopped PROVE NewestInv'
  BY <1>0, <1>1, NewestFrame DEF Publish, Published, Stop, Stopped, sessionVars, grpcVars
<1>2. ASSUME NEW s \in Ids, PublishTo(s) PROVE NewestInv'
  <2>1. UNCHANGED <<requested, cq, down, rpc>>
    BY <1>2 DEF PublishTo
  <2>2. (state[s] = "READY_TO_WRITE" /\ Enter(s, "WAIT_WRITE_DONE")) \/ UNCHANGED state
    BY <1>2 DEF PublishTo, WriteNow, WriteLater
  <2>3. CASE UNCHANGED state
    BY <1>0, <2>1, <2>3, NewestFrame
  <2>4. CASE state[s] = "READY_TO_WRITE" /\ Enter(s, "WAIT_WRITE_DONE")
    BY <2>1, <2>4, ServingNewest
  <2> QED
    BY <2>2, <2>3, <2>4
<1>3. ASSUME NEW s \in Ids, TryCancelCallAndShutdown(s) PROVE NewestInv'
  <2>1. UNCHANGED <<requested, cq, down, rpc>>
    BY <1>3 DEF TryCancelCallAndShutdown, StopCancels, StopFinishes, grpcVars
  <2>2. \/ s \in left /\ Cancellable(s) /\ Enter(s, "FINISHED")
        \/ UNCHANGED state
    BY <1>3 DEF TryCancelCallAndShutdown, StopCancels, StopFinishes, sessionVars
  <2>3. CASE UNCHANGED state
    BY <1>0, <2>1, <2>3, NewestFrame
  <2>4. CASE s \in left /\ Cancellable(s) /\ Enter(s, "FINISHED")
    <3>1. state[s] \notin {"none", "WAIT_CONNECT"}
      BY <1>0, <2>4 DEF SessionsOK, Created, Cancellable
    <3> QED
      BY <2>1, <2>4, <3>1, ServingNewest
  <2> QED
    BY <2>2, <2>3, <2>4
<1>4. CASE StopServer
  <2>1. UNCHANGED <<state, rpc>> /\ down' # {} /\ cq' = cq \union [of : requested, ok : {FALSE}]
    BY <1>4 DEF StopServer, sessionVars
  <2>2. Newest' = Newest
    BY <2>1, SameCreated
  <2>3. [of |-> Newest, ok |-> TRUE] \in cq' => [of |-> Newest, ok |-> TRUE] \in cq
    BY <2>1
  <2> QED
    BY <1>0, <2>1, <2>2, <2>3 DEF NewestInv
<1>5. CASE StopQueue
  <2>1. UNCHANGED <<state, rpc, cq>> /\ down' # {}
    BY <1>5 DEF StopQueue, sessionVars
  <2>2. Newest' = Newest
    BY <2>1, SameCreated
  <2> QED
    BY <1>0, <2>1, <2>2 DEF NewestInv
<1> QED
  BY <1>1, <1>2, <1>3, <1>4, <1>5 DEF Application

LEMMA NewestStep ==
  ASSUME PubInv, [Next]_vars
  PROVE  NewestInv'
<1>1. CASE UNCHANGED vars
  BY <1>1, NewestFrame DEF vars, sessionVars, grpcVars, PubInv
<1> QED
  BY <1>1, NetworkNewest, TakeNewest, NewSessionNewest, DispatcherNewest, ApplicationNewest
     DEF Next, Dispatch, Network

-----------------------------------------------------------------------------
(* The streams.                                                            *)

LEMMA StateNumbers ==
  ASSUME NEW q \in Seq(States)
  PROVE  Len(q) \in Nat /\ \A i \in 1..Len(q) : q[i] \in States /\ q[i] \in Int
BY Bounds DEF States

LEMMA EmptyParts ==
  ASSUME NEW q \in Seq(States), NEW n
  PROVE  /\ Increasing(<<>>) /\ UpTo(<<>>, n) /\ Below(<<>>, q) /\ Below(q, <<>>)
BY DEF Increasing, UpTo, Below

(* A part that loses its first state.                                      *)
LEMMA TailParts ==
  ASSUME NEW q \in Seq(States), q # <<>>, Increasing(q)
  PROVE  /\ Increasing(Tail(q)) /\ Below(<<Head(q)>>, Tail(q))
         /\ \A p \in Seq(States) : Below(p, q) => Below(p, Tail(q)) /\ Below(p, <<Head(q)>>)
         /\ \A n \in Int : UpTo(q, n) => UpTo(Tail(q), n) /\ UpTo(<<Head(q)>>, n)
<1>1. /\ Head(q) = q[1] /\ 1 \in 1..Len(q) /\ Len(q) \in Nat
      /\ Len(Tail(q)) = Len(q) - 1 /\ Tail(q) \in Seq(States)
      /\ \A i \in 1..Len(Tail(q)) : i + 1 \in 1..Len(q) /\ Tail(q)[i] = q[i + 1]
  BY TailOfStates, StateNumbers
<1>2. Len(<<Head(q)>>) = 1 /\ <<Head(q)>>[1] = q[1]
  BY <1>1
<1>3. Increasing(Tail(q))
  <2>1. ASSUME NEW i \in 1..Len(Tail(q)), NEW j \in 1..Len(Tail(q)), i < j
        PROVE  Tail(q)[i] < Tail(q)[j]
    <3>1. i + 1 \in 1..Len(q) /\ j + 1 \in 1..Len(q) /\ i + 1 < j + 1
      BY <1>1, <2>1
    <3>2. q[i + 1] < q[j + 1]
      BY <3>1 DEF Increasing
    <3> QED
      BY <1>1, <3>2
  <2> QED
    BY <2>1 DEF Increasing
<1>4. Below(<<Head(q)>>, Tail(q))
  <2>1. ASSUME NEW j \in 1..Len(Tail(q)) PROVE q[1] < Tail(q)[j]
    <3>1. j + 1 \in 1..Len(q) /\ 1 < j + 1
      BY <1>1
    <3>2. q[1] < q[j + 1]
      BY <1>1, <3>1 DEF Increasing
    <3> QED
      BY <1>1, <3>2
  <2> QED
    BY <1>2, <2>1 DEF Below
<1>5. ASSUME NEW p \in Seq(States), Below(p, q) PROVE Below(p, Tail(q)) /\ Below(p, <<Head(q)>>)
  BY <1>1, <1>2, <1>5 DEF Below
<1>6. ASSUME NEW n \in Int, UpTo(q, n) PROVE UpTo(Tail(q), n) /\ UpTo(<<Head(q)>>, n)
  BY <1>1, <1>2, <1>6 DEF UpTo
<1> QED
  BY <1>3, <1>4, <1>5, <1>6

(* A part that gets a state newer than all it holds.                       *)
LEMMA AppendParts ==
  ASSUME NEW q \in Seq(States), NEW m \in States, Increasing(q), Below(q, <<m>>)
  PROVE  /\ Increasing(Append(q, m))
         /\ \A p \in Seq(States) : Below(p, q) /\ Below(p, <<m>>) => Below(p, Append(q, m))
         /\ \A p \in Seq(States) : Below(q, p) /\ Below(<<m>>, p) => Below(Append(q, m), p)
         /\ \A n \in Int : UpTo(q, n) /\ m <= n => UpTo(Append(q, m), n)
<1>1. /\ Len(q) \in Nat /\ Append(q, m) \in Seq(States) /\ Len(Append(q, m)) = Len(q) + 1
      /\ \A i \in 1..Len(q) : Append(q, m)[i] = q[i]
      /\ Append(q, m)[Len(q) + 1] = m
  BY AppendOfStates, StateNumbers
<1>2. Len(<<m>>) = 1 /\ <<m>>[1] = m
  OBVIOUS
<1>3. \A i \in 1..Len(Append(q, m)) :
        \/ i \in 1..Len(q) /\ Append(q, m)[i] = q[i]
        \/ i = Len(q) + 1 /\ Append(q, m)[i] = m
  BY <1>1
<1>4. \A i \in 1..Len(q) : q[i] < m
  BY <1>2 DEF Below
<1>5. Increasing(Append(q, m))
  <2>1. ASSUME NEW i \in 1..Len(Append(q, m)), NEW j \in 1..Len(Append(q, m)), i < j
        PROVE  Append(q, m)[i] < Append(q, m)[j]
    <3>1. i \in 1..Len(q) /\ Append(q, m)[i] = q[i]
      BY <1>1, <2>1
    <3>2. CASE j \in 1..Len(q)
      <4>1. q[i] < q[j]
        BY <2>1, <3>1, <3>2 DEF Increasing
      <4> QED
        BY <1>1, <3>1, <3>2, <4>1
    <3>3. CASE j = Len(q) + 1
      BY <1>1, <1>4, <3>1, <3>3
    <3> QED
      BY <1>1, <3>2, <3>3
  <2> QED
    BY <2>1 DEF Increasing
<1>6. ASSUME NEW p \in Seq(States), Below(p, q), Below(p, <<m>>) PROVE Below(p, Append(q, m))
  BY <1>2, <1>3, <1>6 DEF Below
<1>7. ASSUME NEW p \in Seq(States), Below(q, p), Below(<<m>>, p) PROVE Below(Append(q, m), p)
  BY <1>2, <1>3, <1>7 DEF Below
<1>8. ASSUME NEW n \in Int, UpTo(q, n), m <= n PROVE UpTo(Append(q, m), n)
  BY <1>3, <1>8 DEF UpTo
<1> QED
  BY <1>5, <1>6, <1>7, <1>8

LEMMA UpToMore ==
  ASSUME NEW q \in Seq(States), NEW n \in Int, NEW m \in Int, n <= m, UpTo(q, n)
  PROVE  UpTo(q, m)
BY StateNumbers DEF UpTo

(* A state newer than all that a session may have got.                     *)
LEMMA NewerState ==
  ASSUME NEW q \in Seq(States), NEW m \in States, UpTo(q, m - 1)
  PROVE  Below(q, <<m>>)
<1>1. Len(<<m>>) = 1 /\ <<m>>[1] = m /\ m \in Int
  BY Bounds DEF States
<1> QED
  BY <1>1, StateNumbers DEF UpTo, Below

LEMMA CurrentGrows ==
  ASSUME PubInv, [Next]_vars
  PROVE  \A s \in Ids : Current(s) \in Int /\ Current(s)' \in Int /\ Current(s) <= Current(s)'
<1>0. published \in Int /\ published' \in Int
  BY ThreadsStep DEF PubInv, TypeOK, ThreadsOK
<1>1. CASE UNCHANGED appVars
  BY <1>0, <1>1 DEF appVars, Current
<1>2. ASSUME Publish \/ Published \/ Stop \/ StopServer \/ StopQueue \/ Stopped
             \/ (\E s \in Ids : PublishTo(s) \/ TryCancelCallAndShutdown(s))
      PROVE  \A s \in Ids : Current(s) <= Current(s)'
  <2>1. CASE Publish
    BY <1>0, <2>1 DEF Publish, Current
  <2>2. CASE Published \/ Stop \/ StopServer \/ StopQueue \/ Stopped
    <3>1. UNCHANGED published /\ app' # "publish" /\ (app = "publish" => left = {})
      BY <2>2 DEF Published, Stop, StopServer, StopQueue, Stopped
    <3> QED
      BY <1>0, <3>1 DEF Current
  <2>3. ASSUME NEW s \in Ids, PublishTo(s) PROVE \A t \in Ids : Current(t) <= Current(t)'
    BY <1>0, <2>3 DEF PublishTo, Current
  <2>4. ASSUME NEW s \in Ids, TryCancelCallAndShutdown(s)
        PROVE  \A t \in Ids : Current(t) <= Current(t)'
    <3>1. UNCHANGED <<published, app>> /\ app = "cancel"
      BY <2>4 DEF TryCancelCallAndShutdown, StopCancels, StopFinishes, appVars
    <3> QED
      BY <1>0, <3>1 DEF Current
  <2> QED
    BY <1>2, <2>1, <2>2, <2>3, <2>4
<1>3. ASSUME NEW s \in Ids, OnCompletionEvent(s) \/ OnFailed(s) \/ Connect(s) \/ Disconnect(s) \/ WriteDone(s)
      PROVE  UNCHANGED appVars
  BY <1>3 DEF OnCompletionEvent, OnConnected, OnWritten, OnOther, OnFailed, Take,
     Connect, Disconnect, WriteDone
<1>4. ASSUME Finish \/ NewSession \/ AddSession \/ ReadyToWrite \/ Written \/ WrittenAborts \/ Exit
      PROVE  UNCHANGED appVars
  BY <1>4 DEF Finish, NewSession, AddSession, ReadyToWrite, Written, WrittenAborts, Exit
<1>5. \A s \in Ids : Current(s) <= Current(s)'
  BY <1>1, <1>2, <1>3, <1>4 DEF Next, Dispatch, Application, Network, vars
<1>6. \A n \in Int : n - 1 \in Int
  OBVIOUS
<1>7. \A s \in Ids : Current(s) \in Int /\ Current(s)' \in Int
  BY <1>0, <1>6, Zenon DEF Current
<1> QED
  BY <1>5, <1>7

LEMMA PartsOf ==
  ASSUME PubInv, NEW s \in Ids
  PROVE  /\ wire[s] \in Seq(States) /\ writes[s] \in Seq(States) /\ queue[s] \in Seq(States)
         /\ StreamAt(s)
BY DEF PubInv, TypeOK, GrpcOK, QueuesOK, StreamInv

(* A step that changes the parts of one session.                           *)
LEMMA OneStream ==
  ASSUME PubInv, [Next]_vars, NEW s \in Ids, StreamAt(s)',
         \A t \in Ids \ {s} :
           wire'[t] = wire[t] /\ writes'[t] = writes[t] /\ queue'[t] = queue[t]
  PROVE  StreamInv'
<1>1. ASSUME NEW t \in Ids \ {s} PROVE StreamAt(t)'
  <2>1. Current(t) \in Int /\ Current(t)' \in Int /\ Current(t) <= Current(t)'
    BY CurrentGrows
  <2> QED
    BY <2>1, PartsOf, UpToMore DEF StreamAt
<1> QED
  BY <1>1 DEF StreamInv

LEMMA NoStream ==
  ASSUME PubInv, [Next]_vars, UNCHANGED <<wire, writes, queue>>
  PROVE  StreamInv'
<1>1. ASSUME NEW t \in Ids PROVE StreamAt(t)'
  <2>1. Current(t) \in Int /\ Current(t)' \in Int /\ Current(t) <= Current(t)'
    BY CurrentGrows
  <2> QED
    BY <2>1, PartsOf, UpToMore DEF StreamAt
<1> QED
  BY <1>1 DEF StreamInv

(* The only write of a session moves to the wire, or is lost.              *)
LEMMA WriteDoneStream ==
  ASSUME PubInv, [Next]_vars, NEW s \in Ids, WriteDone(s)
  PROVE  StreamInv'
<1>0. GrpcOK /\ TokenAt(s) /\ StreamAt(s)
  BY DEF PubInv, TypeOK, TokenInv, StreamInv
<1>1. /\ wire[s] \in Seq(States) /\ writes[s] \in Seq(States) /\ queue[s] \in Seq(States)
      /\ Current(s) \in Int /\ Current(s)' \in Int /\ Current(s) <= Current(s)'
  BY PartsOf, CurrentGrows
<1>2. /\ writes[s] # <<>> /\ writes' = [writes EXCEPT ![s] = Tail(@)] /\ UNCHANGED queue
      /\ wire' = [wire EXCEPT ![s] = Append(@, Head(writes[s]))] \/ UNCHANGED wire
  BY DEF WriteDone, sessionVars
<1>3. PICK m : m = Head(writes[s])
  OBVIOUS
<1>4. m \in States /\ m = writes[s][1] /\ Len(writes[s]) = 1 /\ Tail(writes[s]) = <<>>
  <2>1. m \in States /\ m = writes[s][1] /\ Len(writes[s]) = 1
    <3>1. m \in States /\ m = writes[s][1]
      BY <1>1, <1>2, <1>3, TailOfStates
    <3>2. Len(writes[s]) \in Nat /\ Len(writes[s]) > 0 /\ Len(writes[s]) <= 1
      BY <1>0, <1>1, <1>2, LenOfStates DEF TokenAt
    <3>3. \A n \in Nat : n > 0 /\ n <= 1 => n = 1
      OBVIOUS
    <3> QED
      BY <3>1, <3>2, <3>3, Zenon
  <2>2. Len(Tail(writes[s])) = 0 /\ Tail(writes[s]) \in Seq(States)
    BY <1>1, <1>2, <2>1, TailOfStates
  <2> QED
    BY <2>1, <2>2, LenOfStates
<1>5. writes'[s] = <<>> /\ \A t \in Ids \ {s} : writes'[t] = writes[t]
  BY <1>0, <1>2, <1>4 DEF GrpcOK
<1>6. /\ wire'[s] = Append(wire[s], m) \/ wire'[s] = wire[s]
      /\ \A t \in Ids \ {s} : wire'[t] = wire[t]
  BY <1>0, <1>2, <1>3 DEF GrpcOK
<1>7. Below(wire[s], <<m>>) /\ Below(<<m>>, queue[s]) /\ m <= Current(s)
  BY <1>0, <1>1, <1>2, <1>3, <1>4, TailParts DEF StreamAt, Below, UpTo
<1>8. wire'[s] \in Seq(States) /\ Increasing(wire'[s]) /\ Below(wire'[s], queue[s])
      /\ UpTo(wire'[s], Current(s))
  <2>1. CASE wire'[s] = wire[s]
    BY <1>0, <1>1, <2>1 DEF StreamAt
  <2>2. CASE wire'[s] = Append(wire[s], m)
    BY <1>0, <1>1, <1>4, <1>7, <2>2, AppendParts, AppendOfStates DEF StreamAt
  <2> QED
    BY <1>6, <2>1, <2>2
<1>9. UpTo(wire'[s], Current(s)') /\ UpTo(queue[s], Current(s)')
  BY <1>0, <1>1, <1>8, UpToMore DEF StreamAt
<1>10. StreamAt(s)'
  BY <1>0, <1>1, <1>2, <1>5, <1>8, <1>9, EmptyParts DEF StreamAt
<1> QED
  BY <1>2, <1>5, <1>6, <1>10, OneStream

(* The oldest state in the queue is written when no write is under way.    *)
LEMMA WriteNextStream ==
  ASSUME PubInv, [Next]_vars, Written, queue[rpc.of] # <<>>
  PROVE  StreamInv'
<1>p. PICK s \in Ids : s = rpc.of
  BY RpcSession DEF Written
<1>0. GrpcOK /\ QueuesOK /\ StreamAt(s) /\ writes[s] = <<>>
  BY <1>p, RpcToken DEF PubInv, TypeOK, StreamInv, Written
<1>1. /\ wire[s] \in Seq(States) /\ queue[s] \in Seq(States) /\ queue[s] # <<>>
      /\ Current(s) \in Int /\ Current(s)' \in Int /\ Current(s) <= Current(s)'
  BY <1>p, PartsOf, CurrentGrows
<1>2. /\ writes' = [writes EXCEPT ![s] = Append(@, Head(queue[s]))]
      /\ queue' = [queue EXCEPT ![s] = Tail(@)] /\ UNCHANGED wire
  BY <1>p DEF Written, WriteNext, Write
<1>3. /\ writes'[s] = <<Head(queue[s])>> /\ \A t \in Ids \ {s} : writes'[t] = writes[t]
      /\ queue'[s] = Tail(queue[s]) /\ \A t \in Ids \ {s} : queue'[t] = queue[t]
  BY <1>0, <1>2 DEF GrpcOK, QueuesOK
<1>4. Tail(queue[s]) \in Seq(States) /\ <<Head(queue[s])>> \in Seq(States)
  BY <1>1, TailOfStates
<1>5. Increasing(<<Head(queue[s])>>)
  BY DEF Increasing
<1>6. /\ Increasing(Tail(queue[s])) /\ Below(<<Head(queue[s])>>, Tail(queue[s]))
      /\ Below(wire[s], Tail(queue[s])) /\ Below(wire[s], <<Head(queue[s])>>)
      /\ UpTo(Tail(queue[s]), Current(s)) /\ UpTo(<<Head(queue[s])>>, Current(s))
  BY <1>0, <1>1, TailParts DEF StreamAt
<1>7. /\ UpTo(wire[s], Current(s)') /\ UpTo(Tail(queue[s]), Current(s)')
      /\ UpTo(<<Head(queue[s])>>, Current(s)')
  BY <1>0, <1>1, <1>4, <1>6, UpToMore DEF StreamAt
<1>8. StreamAt(s)'
  BY <1>0, <1>2, <1>3, <1>5, <1>6, <1>7 DEF StreamAt
<1> QED
  BY <1>2, <1>3, <1>8, OneStream

(* The state just published is newer than what the session has got.        *)
LEMMA PublishStream ==
  ASSUME PubInv, [Next]_vars, NEW s \in Ids, PublishTo(s)
  PROVE  StreamInv'
<1>0. GrpcOK /\ QueuesOK /\ StreamAt(s) /\ StateAt(s) /\ published \in States
  BY PublishedState DEF PubInv, TypeOK, StreamInv, TokenInv, PublishTo
<1>1. /\ wire[s] \in Seq(States) /\ writes[s] \in Seq(States) /\ queue[s] \in Seq(States)
      /\ Current(s) = published - 1 /\ Current(s)' = published /\ published \in Int
      /\ Current(s) <= Current(s)' /\ Current(s) \in Int /\ Current(s)' \in Int
  BY <1>0, PartsOf, CurrentGrows DEF PublishTo, Current, States
<1>2. Below(wire[s], <<published>>) /\ Below(writes[s], <<published>>) /\ Below(queue[s], <<published>>)
  BY <1>0, <1>1, NewerState DEF StreamAt
<1>3. UpTo(wire[s], Current(s)') /\ UpTo(writes[s], Current(s)') /\ UpTo(queue[s], Current(s)')
  BY <1>0, <1>1, UpToMore DEF StreamAt
<1>4. UNCHANGED wire
  BY DEF PublishTo
<1>5. CASE WriteNow(s)
  <2>1. writes[s] = <<>> /\ queue[s] = <<>> /\ UNCHANGED queue
        /\ writes' = [writes EXCEPT ![s] = Append(@, published)]
    BY <1>0, <1>5 DEF StateAt, WriteNow, Write
  <2>2. writes'[s] = <<published>> /\ \A t \in Ids \ {s} : writes'[t] = writes[t]
    BY <1>0, <2>1 DEF GrpcOK
  <2>3. <<published>> \in Seq(States) /\ Increasing(<<published>>) /\ UpTo(<<published>>, published)
    BY <1>0, <1>1 DEF Increasing, UpTo
  <2>4. Below(<<published>>, <<>>)
    BY <1>0, <2>3, EmptyParts
  <2>5. StreamAt(s)'
    BY <1>0, <1>1, <1>2, <1>3, <1>4, <2>1, <2>2, <2>3, <2>4 DEF StreamAt
  <2> QED
    BY <1>4, <2>1, <2>2, <2>5, OneStream
<1>6. CASE WriteLater(s) /\ Enqueue(s)
  <2> DEFINE q == IF queueSize > 0 /\ Len(queue[s]) >= queueSize
                  THEN Tail(queue[s]) ELSE queue[s]
  <2>1. UNCHANGED writes /\ queue' = [queue EXCEPT ![s] = Append(q, published)]
    BY <1>0, <1>6 DEF WriteLater, Enqueue, QueuesOK
  <2>2. q = queue[s] \/ (queue[s] # <<>> /\ q = Tail(queue[s]))
    <3>1. queueSize > 0 /\ Len(queue[s]) >= queueSize => queue[s] # <<>>
      BY <1>0, <1>1, LenOfStates, Bounds DEF QueuesOK
    <3> QED
      BY <3>1
  <2> HIDE DEF q
  <2>3. /\ q \in Seq(States) /\ Increasing(q) /\ Below(wire[s], q) /\ Below(writes[s], q)
        /\ UpTo(q, published - 1)
    <3>1. CASE q = queue[s]
      BY <1>0, <1>1, <3>1 DEF StreamAt
    <3>2. CASE queue[s] # <<>> /\ q = Tail(queue[s])
      BY <1>0, <1>1, <3>2, TailParts, TailOfStates DEF StreamAt
    <3> QED
      BY <2>2, <3>1, <3>2
  <2>4. Below(q, <<published>>) /\ UpTo(q, published)
    BY <1>0, <1>1, <2>3, NewerState, UpToMore
  <2>5. /\ Increasing(Append(q, published)) /\ Below(wire[s], Append(q, published))
        /\ Below(writes[s], Append(q, published)) /\ UpTo(Append(q, published), published)
    BY <1>0, <1>1, <1>2, <2>3, <2>4, AppendParts
  <2>6. queue'[s] = Append(q, published) /\ \A t \in Ids \ {s} : queue'[t] = queue[t]
    BY <1>0, <2>1 DEF QueuesOK
  <2>7. StreamAt(s)'
    BY <1>0, <1>1, <1>3, <1>4, <2>1, <2>5, <2>6 DEF StreamAt
  <2> QED
    BY <1>4, <2>1, <2>6, <2>7, OneStream
<1>7. CASE ~WriteNow(s) /\ ~(WriteLater(s) /\ Enqueue(s))
  <2>1. UNCHANGED <<wire, writes, queue>>
    BY <1>7 DEF PublishTo, WriteLater
  <2> QED
    BY <2>1, NoStream
<1> QED
  BY <1>5, <1>6, <1>7

LEMMA StreamStep ==
  ASSUME PubInv, [Next]_vars
  PROVE  StreamInv'
<1>1. ASSUME NEW s \in Ids, Connect(s) \/ Disconnect(s) \/ OnCompletionEvent(s) \/ OnFailed(s)
                            \/ TryCancelCallAndShutdown(s)
      PROVE  UNCHANGED <<wire, writes, queue>>
  BY <1>1 DEF Connect, Disconnect, OnCompletionEvent, OnConnected, OnWritten, OnOther, OnFailed,
     Take, TryCancelCallAndShutdown, StopCancels, StopFinishes, sessionVars, grpcVars
<1>2. ASSUME Finish \/ NewSession \/ AddSession \/ ReadyToWrite \/ WrittenAborts \/ Exit
             \/ Publish \/ Published \/ Stop \/ StopServer \/ StopQueue \/ Stopped
      PROVE  UNCHANGED <<wire, writes, queue>>
  BY <1>2 DEF Finish, NewSession, AddSession, ReadyToWrite, WrittenAborts, Exit,
     Publish, Published, Stop, StopServer, StopQueue, Stopped, sessionVars, grpcVars
<1>3. ASSUME Written, queue[rpc.of] = <<>> PROVE UNCHANGED <<wire, writes, queue>>
  BY <1>3 DEF Written
<1>4. ASSUME UNCHANGED vars PROVE UNCHANGED <<wire, writes, queue>>
  BY <1>4 DEF vars, sessionVars, grpcVars
<1> QED
  BY <1>1, <1>2, <1>3, <1>4, NoStream, WriteDoneStream, WriteNextStream, PublishStream
     DEF Next, Dispatch, Application, Network

LEMMA AppStep ==
  ASSUME PubInv, [Next]_vars
  PROVE  AppInv'
<1>0. AppInv /\ published \in Nat
  BY Bounds DEF PubInv, TypeOK, ThreadsOK
<1>1. CASE UNCHANGED <<app, published, down>>
  BY <1>0, <1>1 DEF AppInv
<1>2. ASSUME NEW s \in Ids, Connect(s) \/ Disconnect(s) \/ WriteDone(s) \/ OnCompletionEvent(s)
                            \/ OnFailed(s) \/ PublishTo(s) \/ TryCancelCallAndShutdown(s)
      PROVE  UNCHANGED <<app, published, down>>
  BY <1>2 DEF Connect, Disconnect, WriteDone, OnCompletionEvent, OnConnected, OnWritten, OnOther,
     OnFailed, Take, PublishTo, TryCancelCallAndShutdown, StopCancels, StopFinishes, appVars, grpcVars
<1>3. ASSUME Finish \/ NewSession \/ AddSession \/ ReadyToWrite \/ Written \/ WrittenAborts \/ Exit
      PROVE  UNCHANGED <<app, published, down>>
  BY <1>3 DEF Finish, NewSession, AddSession, ReadyToWrite, Written, WrittenAborts, Exit,
     appVars, grpcVars
<1>4. ASSUME Publish \/ Published \/ Stop \/ StopServer \/ StopQueue \/ Stopped PROVE AppInv'
  <2>1. CASE Publish
    BY <1>0, <2>1 DEF Publish, AppInv, grpcVars
  <2>2. CASE Published \/ Stop
    BY <1>0, <2>2 DEF Published, Stop, AppInv, grpcVars
  <2>3. CASE StopServer \/ StopQueue \/ Stopped
    BY <2>3 DEF StopServer, StopQueue, Stopped, AppInv
  <2> QED
    BY <1>4, <2>1, <2>2, <2>3
<1>5. CASE UNCHANGED vars
  BY <1>1, <1>5 DEF vars, appVars, grpcVars
<1> QED
  BY <1>1, <1>2, <1>3, <1>4, <1>5 DEF Next, Dispatch, Application, Network

-----------------------------------------------------------------------------
(* The invariant.                                                          *)

LEMMA InitInv ==
  ASSUME Init
  PROVE  PubInv
<1>0. 1 \in Ids /\ 0 \notin Ids /\ Ids \subseteq Nat
  BY Bounds DEF Ids
<1>1. \A s \in Ids : state[s] = IF s = 1 THEN "WAIT_CONNECT" ELSE "none"
  BY DEF Init
<1>2. Created = {1}
  BY <1>0, <1>1 DEF Created
<1>3. Newest = 1 /\ Created = 1..1
  BY <1>2, FS_Singleton DEF Newest
<1>4. \A s \in Ids : writes[s] = <<>> /\ queue[s] = <<>> /\ wire[s] = <<>> /\ Completions(s) = {}
  BY DEF Init, Completions
<1>5. Len(<<>>) = 0 /\ <<>> \in Seq(States)
  OBVIOUS
<1>6. SessionsOK
  BY <1>0, <1>1, <1>2, <1>3 DEF Init, SessionsOK
<1>7. QueuesOK
  BY <1>4, <1>5 DEF Init, QueuesOK
<1>8. ThreadsOK
  BY Bounds DEF Init, ThreadsOK, Idle
<1>9. GrpcOK
  BY <1>5 DEF Init, GrpcOK
<1>10. ASSUME NEW s \in Ids PROVE TokenAt(s) /\ StateAt(s)
  <2>1. rpc.of # s /\ (s \in requested <=> s = 1)
    BY <1>0 DEF Init, Idle
  <2>2. TokenAt(s)
    BY <1>4, <1>5, <2>1 DEF TokenAt
  <2>3. StateAt(s)
    BY <1>1, <1>4, <2>1 DEF StateAt
  <2> QED
    BY <2>2, <2>3
<1>11. NewestInv
  <2>1. state[1] = "WAIT_CONNECT" /\ \A s \in Ids : state[s] = "WAIT_CONNECT" => s = 1
    BY <1>0, <1>1
  <2>2. rpc.at = "next" /\ rpc.of = 0 /\ cq = {} /\ requested = {1}
    BY DEF Init, Idle
  <2>3. 1 \in Welcoming
    BY <1>0, <2>1, <2>2 DEF Welcoming
  <2> QED
    BY <1>3, <2>1, <2>2, <2>3 DEF NewestInv
<1>12. StreamInv
  <2>1. <<>> \in Seq(States)
    OBVIOUS
  <2> QED
    BY <1>4, <2>1, EmptyParts DEF StreamInv, StreamAt
<1>13. AppInv
  BY DEF Init, AppInv
<1> QED
  BY <1>6, <1>7, <1>8, <1>9, <1>10, <1>11, <1>12, <1>13 DEF PubInv, TypeOK, TokenInv

LEMMA InvStep ==
  ASSUME PubInv, [Next]_vars
  PROVE  PubInv'
BY SessionsStep, QueuesStep, ThreadsStep, GrpcStep, TokenStep, NewestStep, StreamStep, AppStep
   DEF PubInv, TypeOK

(* The inductive invariant holds: each session has one token, only the     *)
(* newest waits for a client, and the parts of each stream are in order.   *)
THEOREM PubInvariant == Spec => []PubInv
<1>1. Init => PubInv
  BY InitInv
<1>2. PubInv /\ [Next]_vars => PubInv'
  BY InvStep
<1> QED
  BY <1>1, <1>2, PTL DEF Spec

(* The types, and that no queue of Session::Publish exceeds its size.      *)
THEOREM PublisherTypeCorrect == Spec => []TypeOK
<1>1. PubInv => TypeOK
  BY DEF PubInv
<1> QED
  BY <1>1, PubInvariant, PTL

(* gRPC has one write at most of a session, and a session in               *)
(* WAIT_WRITE_DONE has one that the dispatcher will hear of.               *)
THEOREM OneWritePerCall == Spec => []OneWrite
<1>1. ASSUME PubInv PROVE OneWrite
  <2>1. SUFFICES ASSUME NEW s \in Ids
                 PROVE  /\ Outstanding(s) <= 1
                        /\ state[s] = "WAIT_WRITE_DONE" => Outstanding(s) = 1
                        /\ state[s] = "READY_TO_WRITE" => Outstanding(s) = 0
    BY DEF OneWrite
  <2>2. TokenAt(s) /\ StateAt(s) /\ writes[s] \in Seq(States)
    BY <1>1, PartsOf DEF PubInv, TokenInv
  <2>3. Cardinality(Completions(s)) = IF Completions(s) = {} THEN 0 ELSE 1
    <3>1. CASE Completions(s) = {}
      BY <3>1, FS_EmptySet
    <3>2. CASE Completions(s) # {}
      <4>1. PICK e \in Completions(s) : TRUE
        BY <3>2
      <4>2. Completions(s) = {e}
        BY <2>2, <4>1 DEF TokenAt
      <4>3. Cardinality({e}) = 1
        BY FS_Singleton
      <4> QED
        BY <3>2, <4>2, <4>3
    <3> QED
      BY <3>1, <3>2
  <2>4. Len(writes[s]) = IF writes[s] = <<>> THEN 0 ELSE 1
    <3>1. Len(writes[s]) \in Nat /\ Len(writes[s]) <= 1 /\ (Len(writes[s]) = 0 <=> writes[s] = <<>>)
      BY <2>2, LenOfStates DEF TokenAt
    <3> QED
      BY <3>1
  <2>5. Outstanding(s) <= 1
    BY <2>2, <2>3, <2>4 DEF Outstanding, TokenAt
  <2>6. state[s] = "WAIT_WRITE_DONE" => Outstanding(s) = 1
    BY <2>2, <2>3, <2>4 DEF Outstanding, TokenAt, StateAt
  <2>7. state[s] = "READY_TO_WRITE" => Outstanding(s) = 0
    BY <2>2, <2>3, <2>4 DEF Outstanding, StateAt
  <2> QED
    BY <2>5, <2>6, <2>7
<1> QED
  BY <1>1, PubInvariant, PTL

LEMMA Concatenation ==
  ASSUME NEW p \in Seq(States), NEW q \in Seq(States),
         Increasing(p), Increasing(q), Below(p, q)
  PROVE  /\ p \o q \in Seq(States) /\ Increasing(p \o q)
         /\ \A r \in Seq(States) : Below(p, r) /\ Below(q, r) => Below(p \o q, r)
<1>1. /\ Len(p) \in Nat /\ Len(q) \in Nat /\ Len(p \o q) = Len(p) + Len(q)
      /\ p \o q \in Seq(States)
  OBVIOUS
<1>2. \A i \in 1..Len(p \o q) :
        \/ i \in 1..Len(p) /\ (p \o q)[i] = p[i]
        \/ i > Len(p) /\ i - Len(p) \in 1..Len(q) /\ (p \o q)[i] = q[i - Len(p)]
  BY <1>1
<1>3. Increasing(p \o q)
  <2>1. ASSUME NEW i \in 1..Len(p \o q), NEW j \in 1..Len(p \o q), i < j
        PROVE  (p \o q)[i] < (p \o q)[j]
    <3>1. CASE i \in 1..Len(p) /\ j \in 1..Len(p)
      <4>1. p[i] < p[j]
        BY <2>1, <3>1 DEF Increasing
      <4> QED
        BY <1>1, <1>2, <3>1, <4>1
    <3>2. CASE i \in 1..Len(p) /\ j > Len(p)
      <4>1. j - Len(p) \in 1..Len(q) /\ (p \o q)[j] = q[j - Len(p)] /\ (p \o q)[i] = p[i]
        BY <1>1, <1>2, <3>2
      <4>2. p[i] < q[j - Len(p)]
        BY <3>2, <4>1 DEF Below
      <4> QED
        BY <4>1, <4>2
    <3>3. CASE i > Len(p) /\ j > Len(p)
      <4>1. /\ i - Len(p) \in 1..Len(q) /\ (p \o q)[i] = q[i - Len(p)]
            /\ j - Len(p) \in 1..Len(q) /\ (p \o q)[j] = q[j - Len(p)]
            /\ i - Len(p) < j - Len(p)
        BY <1>1, <1>2, <2>1, <3>3
      <4>2. q[i - Len(p)] < q[j - Len(p)]
        BY <4>1 DEF Increasing
      <4> QED
        BY <4>1, <4>2
    <3> QED
      BY <1>1, <1>2, <2>1, <3>1, <3>2, <3>3
  <2> QED
    BY <2>1 DEF Increasing
<1>4. ASSUME NEW r \in Seq(States), Below(p, r), Below(q, r) PROVE Below(p \o q, r)
  BY <1>2, <1>4 DEF Below
<1> QED
  BY <1>1, <1>3, <1>4

(* Each client gets the states in the order in which Publish was called.   *)
THEOREM StreamsInOrder == Spec => []StreamInOrder
<1>1. ASSUME PubInv PROVE StreamInOrder
  <2>1. ASSUME NEW s \in Ids PROVE Increasing(Stream(s))
    <3>1. /\ wire[s] \in Seq(States) /\ writes[s] \in Seq(States) /\ queue[s] \in Seq(States)
          /\ StreamAt(s)
      BY <1>1, PartsOf
    <3>2. /\ wire[s] \o writes[s] \in Seq(States) /\ Increasing(wire[s] \o writes[s])
          /\ Below(wire[s] \o writes[s], queue[s])
      BY <3>1, Concatenation DEF StreamAt
    <3> QED
      BY <3>1, <3>2, Concatenation DEF StreamAt, Stream
  <2> QED
    BY <2>1 DEF StreamInOrder, Increasing
<1> QED
  BY <1>1, PubInvariant, PTL

(* Until the server shuts down the next client finds a session: the newest *)
(* one, and no other.                                                      *)
THEOREM NextClientAwaited == Spec => []OneWelcoming
<1>1. ASSUME PubInv, down = {} PROVE Cardinality(Welcoming) = 1
  <2>0. NewestInv /\ TokenInv
    BY <1>1 DEF PubInv
  <2>1. Newest \in Welcoming
    BY <1>1, <2>0 DEF NewestInv
  <2>2. ASSUME NEW s \in Welcoming PROVE s = Newest
    <3>1. /\ s \in Ids /\ state[s] = "WAIT_CONNECT"
          /\ \/ s \in requested
             \/ [of |-> s, ok |-> TRUE] \in cq
             \/ rpc = [at |-> "construct", of |-> s]
      BY DEF Welcoming
    <3>2. TokenAt(s)
      BY <2>0, <3>1 DEF TokenInv
    <3>3. ~(rpc.of = s /\ rpc.at \in {"insert", "ready"})
      <4>1. CASE s \in requested
        BY <3>2, <4>1 DEF TokenAt
      <4>2. CASE [of |-> s, ok |-> TRUE] \in cq
        <5>1. Completions(s) # {}
          BY <4>2 DEF Completions
        <5> QED
          BY <3>2, <5>1 DEF TokenAt
      <4>3. CASE rpc = [at |-> "construct", of |-> s]
        BY <4>3
      <4> QED
        BY <3>1, <4>1, <4>2, <4>3
    <3> QED
      BY <2>0, <3>1, <3>3 DEF NewestInv
  <2>3. Welcoming = {Newest}
    BY <2>1, <2>2
  <2> QED
    BY <2>3, FS_Singleton
<1>2. PubInv => OneWelcoming
  BY <1>1 DEF OneWelcoming
<1> QED
  BY <1>2, PubInvariant, PTL

-----------------------------------------------------------------------------
(* What is kept for a client.                                              *)

LEMMA AppendConsecutive ==
  ASSUME NEW q \in Seq(States), NEW m \in States,
         Consecutive(q), q # <<>> => q[Len(q)] = m - 1
  PROVE  Consecutive(Append(q, m))
<1>1. /\ Len(q) \in Nat /\ Len(Append(q, m)) = Len(q) + 1
      /\ \A i \in 1..Len(q) : Append(q, m)[i] = q[i]
      /\ Append(q, m)[Len(q) + 1] = m /\ m \in Int
  BY Bounds DEF States
<1>2. ASSUME NEW i \in 1..Len(q) PROVE Append(q, m)[i + 1] = Append(q, m)[i] + 1
  <2>1. CASE i = Len(q)
    <3>1. q # <<>> /\ q[Len(q)] = m - 1
      BY <1>1, <1>2
    <3> QED
      BY <1>1, <2>1, <3>1
  <2>2. CASE i # Len(q)
    <3>1. i \in 1..(Len(q) - 1) /\ i + 1 \in 1..Len(q)
      BY <1>1, <2>2
    <3> QED
      BY <1>1, <3>1 DEF Consecutive
  <2> QED
    BY <2>1, <2>2
<1> QED
  BY <1>1, <1>2 DEF Consecutive

LEMMA TailConsecutive ==
  ASSUME NEW q \in Seq(States), q # <<>>, Consecutive(q)
  PROVE  /\ Consecutive(Tail(q))
         /\ Tail(q) # <<>> => Tail(q)[Len(Tail(q))] = q[Len(q)]
<1>1. /\ Len(q) \in Nat /\ Len(Tail(q)) = Len(q) - 1 /\ Tail(q) \in Seq(States)
      /\ \A i \in 1..Len(Tail(q)) : Tail(q)[i] = q[i + 1]
  BY TailOfStates, StateNumbers
<1>2. Consecutive(Tail(q))
  <2>1. ASSUME NEW i \in 1..(Len(Tail(q)) - 1) PROVE Tail(q)[i + 1] = Tail(q)[i] + 1
    <3>1. i \in 1..Len(Tail(q)) /\ i + 1 \in 1..Len(Tail(q)) /\ i + 1 \in 1..(Len(q) - 1)
      BY <1>1
    <3>2. q[(i + 1) + 1] = q[i + 1] + 1
      BY <3>1 DEF Consecutive
    <3> QED
      BY <1>1, <3>1, <3>2
  <2> QED
    BY <2>1 DEF Consecutive
<1>3. Tail(q) # <<>> => Tail(q)[Len(Tail(q))] = q[Len(q)]
  <2>1. Tail(q) # <<>> => Len(Tail(q)) \in 1..Len(Tail(q))
    BY <1>1, LenOfStates
  <2> QED
    BY <1>1, <2>1
<1> QED
  BY <1>2, <1>3

LEMMA ConcatOfAppend ==
  ASSUME NEW p \in Seq(States), NEW q \in Seq(States), NEW m \in States
  PROVE  p \o Append(q, m) = Append(p \o q, m) /\ p \o q \in Seq(States)
<1>1. /\ Len(p) \in Nat /\ Len(q) \in Nat /\ p \o q \in Seq(States) /\ Append(q, m) \in Seq(States)
      /\ Len(p \o q) = Len(p) + Len(q) /\ Len(Append(q, m)) = Len(q) + 1
  BY DEF States
<1>2. /\ p \o Append(q, m) \in Seq(States) /\ Append(p \o q, m) \in Seq(States)
      /\ Len(p \o Append(q, m)) = Len(p) + Len(q) + 1
      /\ Len(Append(p \o q, m)) = Len(p) + Len(q) + 1
  BY <1>1
<1>3. ASSUME NEW i \in 1..(Len(p) + Len(q) + 1) PROVE (p \o Append(q, m))[i] = Append(p \o q, m)[i]
  <2>1. CASE i <= Len(p)
    <3>1. (p \o Append(q, m))[i] = p[i] /\ (p \o q)[i] = p[i]
      BY <1>1, <2>1
    <3> QED
      BY <1>1, <2>1, <3>1
  <2>2. CASE i > Len(p) /\ i <= Len(p) + Len(q)
    <3>1. i - Len(p) \in 1..Len(q)
      BY <1>1, <2>2
    <3>2. (p \o Append(q, m))[i] = Append(q, m)[i - Len(p)] /\ (p \o q)[i] = q[i - Len(p)]
      BY <1>1, <2>2
    <3>3. Append(q, m)[i - Len(p)] = q[i - Len(p)]
      BY <1>1, <3>1
    <3>4. Append(p \o q, m)[i] = (p \o q)[i]
      BY <1>1, <2>2
    <3> QED
      BY <3>2, <3>3, <3>4
  <2>3. CASE i = Len(p) + Len(q) + 1
    <3>1. (p \o Append(q, m))[i] = Append(q, m)[i - Len(p)] /\ i - Len(p) = Len(q) + 1
      BY <1>1, <2>3
    <3>2. Append(q, m)[Len(q) + 1] = m
      BY <1>1
    <3>3. Append(p \o q, m)[Len(p \o q) + 1] = m
      BY <1>1
    <3> QED
      BY <1>1, <2>3, <3>1, <3>2, <3>3
  <2> QED
    BY <1>1, <2>1, <2>2, <2>3
<1> QED
  BY <1>1, <1>2, <1>3, SeqEqual

LEMMA StreamParts ==
  ASSUME PubInv, NEW s \in Ids
  PROVE  /\ wire[s] \o writes[s] \in Seq(States) /\ Stream(s) \in Seq(States)
         /\ wire[s] \in Seq(States) /\ writes[s] \in Seq(States) /\ queue[s] \in Seq(States)
         /\ Stream(s) = <<>> <=> wire[s] = <<>> /\ writes[s] = <<>> /\ queue[s] = <<>>
         /\ queue[s] # <<>> => Stream(s)[Len(Stream(s))] = queue[s][Len(queue[s])]
<1>1. wire[s] \in Seq(States) /\ writes[s] \in Seq(States) /\ queue[s] \in Seq(States)
  BY PartsOf
<1> DEFINE p == wire[s] \o writes[s]
<1>2. p \in Seq(States) /\ (p = <<>> <=> wire[s] = <<>> /\ writes[s] = <<>>)
  BY <1>1, ConcatEqualIffEmpty, ConcatProperties
<1> HIDE DEF p
<1>3. p \o queue[s] \in Seq(States) /\ (p \o queue[s] = <<>> <=> p = <<>> /\ queue[s] = <<>>)
  BY <1>1, <1>2, ConcatEqualIffEmpty, ConcatProperties
<1>4. ASSUME queue[s] # <<>>
      PROVE  (p \o queue[s])[Len(p \o queue[s])] = queue[s][Len(queue[s])]
  <2>1. Len(p) \in Nat /\ Len(queue[s]) \in Nat \ {0} /\ Len(p \o queue[s]) = Len(p) + Len(queue[s])
    BY <1>1, <1>2, <1>4, EmptySeq, ConcatProperties
  <2> QED
    BY <1>1, <1>2, <2>1, ConcatProperties
<1> QED
  BY <1>1, <1>2, <1>3, <1>4 DEF Stream, p

(* A session whose stream stays as it is.                                  *)
LEMMA SameStream ==
  ASSUME KeptInv, NEW s \in Ids, queueSize' = queueSize,
         Stream(s)' = Stream(s), Consecutive(queue[s]) => Consecutive(queue'[s]),
         Owed(s) => Current(s)' = Current(s),
         Serving(s)' /\ call'[s] = "open" /\ Stream(s) # <<>> => Serving(s) /\ call[s] = "open"
  PROVE  Owed(s)' => Kept(s)'
<1>1. ASSUME Owed(s)' PROVE Owed(s)
  BY <1>1 DEF Owed
<1>2. Owed(s) => Kept(s)
  BY DEF KeptInv, NewestKept
<1> QED
  BY <1>1, <1>2 DEF Kept

(* A step that leaves the queues and the wire alone.                       *)
LEMMA NoStreamKept ==
  ASSUME KeptInv, UNCHANGED <<queueSize, wire, writes, queue>>,
         \A s \in Ids : /\ Owed(s) => Current(s)' = Current(s)
                        /\ Serving(s)' /\ call'[s] = "open" /\ Stream(s) # <<>>
                             => Serving(s) /\ call[s] = "open"
  PROVE  NewestKept'
<1>1. ASSUME NEW s \in Ids PROVE Owed(s)' => Kept(s)'
  <2>1. Stream(s)' = Stream(s) /\ queue'[s] = queue[s]
    BY DEF Stream
  <2> QED
    BY <2>1, SameStream
<1> QED
  BY <1>1 DEF NewestKept

(* A step about one session.                                               *)
LEMMA OneStreamKept ==
  ASSUME KeptInv, NEW s \in Ids, UNCHANGED <<queueSize, call>>, Owed(s)' => Kept(s)',
         \A t \in Ids \ {s} :
           /\ wire'[t] = wire[t] /\ writes'[t] = writes[t] /\ queue'[t] = queue[t]
           /\ state'[t] = state[t] /\ Current(t)' = Current(t)
  PROVE  NewestKept'
<1>1. ASSUME NEW t \in Ids \ {s} PROVE Owed(t)' => Kept(t)'
  <2>1. Stream(t)' = Stream(t) /\ queue'[t] = queue[t] /\ (Serving(t)' <=> Serving(t))
    BY DEF Stream, Serving
  <2> QED
    BY <2>1, SameStream
<1> QED
  BY <1>1 DEF NewestKept

LEMMA WriteDoneKept ==
  ASSUME PubInv, KeptInv, [Next]_vars, NEW s \in Ids, WriteDone(s)
  PROVE  NewestKept'
<1>0. GrpcOK /\ TokenAt(s)
  BY DEF PubInv, TypeOK, TokenInv
<1>1. wire[s] \in Seq(States) /\ writes[s] \in Seq(States) /\ queue[s] \in Seq(States)
  BY PartsOf
<1>2. /\ writes[s] # <<>> /\ writes' = [writes EXCEPT ![s] = Tail(@)]
      /\ UNCHANGED <<queueSize, queue, state, call, app, left, published>>
      /\ \/ wire' = [wire EXCEPT ![s] = Append(@, Head(writes[s]))]
         \/ call[s] = "dead" /\ UNCHANGED wire
  BY DEF WriteDone, sessionVars, appVars
<1>3. \A t \in Ids \ {s} : writes'[t] = writes[t] /\ wire'[t] = wire[t]
  BY <1>0, <1>2 DEF GrpcOK
<1>4. \A t \in Ids : Current(t)' = Current(t)
  BY <1>2 DEF Current
<1>5. ASSUME call[s] = "open" PROVE Owed(s)' => Kept(s)'
  <2>1. Len(writes[s]) \in Nat \ {0} /\ Len(writes[s]) <= 1
    <3>1. Len(writes[s]) \in Nat \ {0}
      BY <1>1, <1>2, EmptySeq
    <3>2. Len(writes[s]) <= 1
      BY <1>0, Zenon DEF TokenAt
    <3> QED
      BY <3>1, <3>2, Zenon
  <2>2. Len(writes[s]) = 1
    <3>1. \A n \in Nat \ {0} : n <= 1 => n = 1
      OBVIOUS
    <3> QED
      BY <2>1, <3>1, Zenon
  <2>3. /\ Head(writes[s]) \in States /\ Tail(writes[s]) \in Seq(States) /\ Len(Tail(writes[s])) = 0
        /\ Head(writes[s]) = writes[s][1]
    BY <1>1, <1>2, <2>2, HeadTailProperties
  <2>4. Tail(writes[s]) = <<>> /\ writes[s] = <<Head(writes[s])>>
    <3>1. Tail(writes[s]) = <<>>
      BY <2>3, EmptySeq
    <3>2. <<writes[s][1]>> \in Seq(States) /\ Len(<<writes[s][1]>>) = 1 /\ <<writes[s][1]>>[1] = writes[s][1]
      BY <2>3
    <3>3. writes[s] = <<writes[s][1]>>
      <4>1. \A i \in 1..Len(writes[s]) : writes[s][i] = <<writes[s][1]>>[i]
        BY <2>2, <3>2
      <4> QED
        BY <1>1, <2>2, <3>2, <4>1, SeqEqual
    <3> QED
      BY <2>3, <3>1, <3>3
  <2>5. PICK m \in States : m = Head(writes[s])
    BY <2>3
  <2>6. wire'[s] = Append(wire[s], m) /\ writes'[s] = <<>> /\ writes[s] = <<m>>
    BY <1>0, <1>2, <1>5, <2>4, <2>5 DEF GrpcOK
  <2>7. Append(wire[s], m) \o <<>> = wire[s] \o <<m>>
    BY <1>1, <2>5
  <2>8. Stream(s)' = Stream(s)
    BY <1>2, <2>6, <2>7 DEF Stream
  <2> QED
    BY <1>2, <1>4, <2>8, SameStream DEF Serving
<1>6. Owed(s)' => Kept(s)'
  BY <1>2, <1>5 DEF Owed
<1> QED
  BY <1>2, <1>3, <1>4, <1>6, OneStreamKept

LEMMA WriteNextKept ==
  ASSUME PubInv, KeptInv, [Next]_vars, Written, queue[rpc.of] # <<>>
  PROVE  NewestKept'
<1>p. PICK s \in Ids : s = rpc.of
  BY RpcSession DEF Written
<1>0. GrpcOK /\ QueuesOK /\ SessionsOK /\ writes[s] = <<>>
  BY <1>p, RpcToken DEF PubInv, TypeOK, Written
<1>1. wire[s] \in Seq(States) /\ queue[s] \in Seq(States) /\ queue[s] # <<>>
  BY <1>p, PartsOf
<1>2. /\ writes' = [writes EXCEPT ![s] = Append(@, Head(queue[s]))]
      /\ queue' = [queue EXCEPT ![s] = Tail(@)]
      /\ UNCHANGED <<queueSize, wire, call, app, left, published>>
      /\ state' = [state EXCEPT ![s] = "WAIT_WRITE_DONE"]
  BY <1>p DEF Written, WriteNext, Write, Enter, appVars
<1>3. /\ writes'[s] = <<Head(queue[s])>> /\ \A t \in Ids \ {s} : writes'[t] = writes[t]
      /\ queue'[s] = Tail(queue[s]) /\ \A t \in Ids \ {s} : queue'[t] = queue[t]
      /\ \A t \in Ids \ {s} : state'[t] = state[t]
  BY <1>0, <1>2 DEF GrpcOK, QueuesOK, SessionsOK
<1>4. \A t \in Ids : Current(t)' = Current(t)
  BY <1>2 DEF Current
<1>5. (wire[s] \o <<Head(queue[s])>>) \o Tail(queue[s]) = (wire[s] \o <<>>) \o queue[s]
  <2>1. PICK h \in States : h = Head(queue[s])
    BY <1>1, TailOfStates
  <2>2. <<h>> \in Seq(States) /\ Tail(queue[s]) \in Seq(States)
    BY <1>1, TailOfStates
  <2>3. (wire[s] \o <<h>>) \o Tail(queue[s]) = wire[s] \o (<<h>> \o Tail(queue[s]))
    <3> DEFINE a == wire[s]
               b == <<h>>
               c == Tail(queue[s])
    <3>1. a \in Seq(States) /\ b \in Seq(States) /\ c \in Seq(States)
      BY <1>1, <2>2
    <3> HIDE DEF a, b, c
    <3>2. (a \o b) \o c = a \o (b \o c)
      BY <3>1, ConcatAssociative
    <3> QED
      BY <3>2 DEF a, b, c
  <2>4. <<h>> \o Tail(queue[s]) = queue[s]
    <3>1. <<h>> \o Tail(queue[s]) \in Seq(States)
      BY <2>2
    <3>2. Len(queue[s]) \in Nat \ {0} /\ Len(Tail(queue[s])) = Len(queue[s]) - 1
      BY <1>1, EmptySeq, HeadTailProperties
    <3>3. Len(<<h>> \o Tail(queue[s])) = Len(queue[s])
      BY <2>2, <3>2
    <3>4. \A i \in 1..Len(queue[s]) : (<<h>> \o Tail(queue[s]))[i] = queue[s][i]
      BY <1>1, <2>1, <2>2, <3>2, HeadTailProperties
    <3> QED
      BY <1>1, <3>1, <3>3, <3>4, SeqEqual
  <2>5. wire[s] \o <<>> = wire[s]
    BY <1>1
  <2> QED
    BY <2>1, <2>3, <2>4, <2>5
<1>6. Stream(s)' = Stream(s)
  BY <1>0, <1>2, <1>3, <1>5 DEF Stream
<1>7. Consecutive(queue[s]) => Consecutive(queue'[s])
  <2>1. Consecutive(queue[s]) => Consecutive(Tail(queue[s]))
    BY <1>1, TailConsecutive
  <2> QED
    BY <1>3, <2>1
<1>8. ASSUME call'[s] = "open" PROVE Serving(s)
  <2>1. state[s] \in {"WAIT_WRITE_DONE", "FINISHED"}
    <3>1. rpc.of = s /\ rpc.at = "written" /\ StateAt(s)
      BY <1>p DEF PubInv, TokenInv, Written
    <3> QED
      BY <3>1 DEF StateAt
  <2> QED
    BY <1>2, <1>8, <2>1 DEF KeptInv, ServedInv, Serving
<1>9. Owed(s)' => Kept(s)'
  BY <1>2, <1>4, <1>6, <1>7, <1>8, SameStream
<1> QED
  BY <1>2, <1>3, <1>4, <1>9, OneStreamKept

(* The state just published comes next, also when the oldest makes room.   *)
LEMMA PublishKept ==
  ASSUME PubInv, KeptInv, [Next]_vars, NEW s \in Ids, PublishTo(s)
  PROVE  NewestKept'
<1>0. GrpcOK /\ QueuesOK /\ SessionsOK /\ StateAt(s) /\ published \in States
  BY PublishedState DEF PubInv, TypeOK, TokenInv, PublishTo
<1>1. /\ wire[s] \in Seq(States) /\ writes[s] \in Seq(States) /\ queue[s] \in Seq(States)
      /\ wire[s] \o writes[s] \in Seq(States) /\ Stream(s) \in Seq(States)
      /\ Current(s) = published - 1 /\ Current(s)' = published /\ published \in Int
      /\ \A t \in Ids \ {s} : Current(t)' = Current(t)
  BY <1>0, StreamParts DEF PublishTo, Current, States
<1>2. UNCHANGED <<queueSize, wire, call>>
  BY DEF PublishTo
<1>3. ASSUME Owed(s)
      PROVE  /\ Stream(s)[Len(Stream(s))] = published - 1
             /\ Consecutive(queue[s])
             /\ queueSize < 0 => Consecutive(Stream(s))
  BY <1>1, <1>3 DEF KeptInv, NewestKept, Kept
<1>4. CASE WriteNow(s)
  <2>1. /\ writes[s] = <<>> /\ queue[s] = <<>> /\ UNCHANGED queue
        /\ writes' = [writes EXCEPT ![s] = Append(@, published)]
        /\ state[s] = "READY_TO_WRITE" /\ state' = [state EXCEPT ![s] = "WAIT_WRITE_DONE"]
    BY <1>0, <1>4 DEF StateAt, WriteNow, Write, Enter
  <2>2. /\ writes'[s] = <<published>> /\ \A t \in Ids \ {s} : writes'[t] = writes[t]
        /\ \A t \in Ids \ {s} : state'[t] = state[t]
    BY <1>0, <2>1 DEF GrpcOK, SessionsOK
  <2>3. Stream(s) = wire[s] /\ Stream(s)' = Append(wire[s], published)
    <3>1. (wire[s] \o <<>>) \o <<>> = wire[s]
      BY <1>1
    <3>2. (wire[s] \o <<published>>) \o <<>> = Append(wire[s], published)
      <4>1. wire[s] \o <<published>> = Append(wire[s], published) /\ Append(wire[s], published) \in Seq(States)
        BY <1>0, <1>1
      <4> DEFINE q == Append(wire[s], published)
      <4>2. q \o <<>> = q
        <5> HIDE DEF q
        <5>1. q \in Seq(States)
          BY <4>1 DEF q
        <5> QED
          BY <5>1
      <4> QED
        BY <4>1, <4>2
    <3> QED
      BY <1>2, <2>1, <2>2, <3>1, <3>2 DEF Stream
  <2>4. ASSUME Owed(s)' PROVE Kept(s)'
    <3>1. queueSize # 0 /\ call[s] = "open"
      BY <1>2, <2>4 DEF Owed
    <3>2. wire[s] # <<>> => Owed(s)
      BY <2>1, <2>3, <3>1 DEF Owed, Serving
    <3>3. Append(wire[s], published)[Len(Append(wire[s], published))] = published
      BY <1>0, <1>1
    <3>4. queueSize < 0 => Consecutive(Append(wire[s], published))
      <4>1. wire[s] = <<>> => Consecutive(wire[s])
        BY DEF Consecutive
      <4> QED
        BY <1>0, <1>1, <1>3, <2>3, <3>2, <4>1, AppendConsecutive
    <3>5. Consecutive(<<>>)
      BY DEF Consecutive
    <3> QED
      BY <1>1, <1>2, <2>1, <2>3, <3>3, <3>4, <3>5 DEF Kept
  <2> QED
    BY <1>1, <1>2, <2>1, <2>2, <2>4, OneStreamKept
<1>5. CASE WriteLater(s) /\ queueSize # 0
  <2> DEFINE q == IF queueSize > 0 /\ Len(queue[s]) >= queueSize
                  THEN Tail(queue[s]) ELSE queue[s]
             p == wire[s] \o writes[s]
  <2>1. /\ UNCHANGED <<writes, state>> /\ queue' = [queue EXCEPT ![s] = Append(q, published)]
        /\ state[s] = "WAIT_WRITE_DONE"
    BY <1>0, <1>5 DEF WriteLater, Enqueue, QueuesOK
  <2>2. /\ q = queue[s] \/ (queue[s] # <<>> /\ q = Tail(queue[s]))
        /\ queueSize < 0 => q = queue[s]
    <3>1. queueSize > 0 /\ Len(queue[s]) >= queueSize => queue[s] # <<>>
      BY <1>0, <1>1, LenOfStates, Bounds DEF QueuesOK
    <3>2. queueSize < 0 => ~(queueSize > 0)
      BY <1>0, Bounds DEF QueuesOK
    <3> QED
      BY <3>1, <3>2
  <2>3. p \in Seq(States) /\ p \o queue[s] = Stream(s)
    BY <1>1 DEF Stream
  <2> HIDE DEF q, p
  <2>4. queue'[s] = Append(q, published) /\ \A t \in Ids \ {s} : queue'[t] = queue[t]
    BY <1>0, <2>1 DEF QueuesOK
  <2>5. q \in Seq(States)
    BY <1>1, <2>2, TailOfStates
  <2>6. Stream(s)' = p \o Append(q, published)
    BY <1>2, <2>1, <2>4 DEF Stream, p
  <2>7. p \o Append(q, published) = Append(p \o q, published) /\ p \o q \in Seq(States)
    BY <1>0, <2>3, <2>5, ConcatOfAppend
  <2>8. ASSUME Owed(s)' PROVE Kept(s)'
    <3>1. queueSize # 0 /\ call[s] = "open"
      BY <1>2, <2>8 DEF Owed
    <3>2. Stream(s) # <<>> => Owed(s)
      BY <2>1, <3>1 DEF Owed, Serving
    <3>3. Append(p \o q, published)[Len(Append(p \o q, published))] = published
      BY <1>0, <2>7
    <3>4. Consecutive(<<>>)
      BY DEF Consecutive
    <3>5. /\ queue[s] = <<>> \/ Stream(s) # <<>>
          /\ queue[s] # <<>> => Stream(s)[Len(Stream(s))] = queue[s][Len(queue[s])]
      BY StreamParts
    <3>6. Consecutive(queue[s]) /\ (queue[s] # <<>> => queue[s][Len(queue[s])] = published - 1)
      BY <1>3, <3>2, <3>4, <3>5
    <3>7. Consecutive(q) /\ (q # <<>> => q[Len(q)] = published - 1)
      BY <1>1, <2>2, <3>6, TailConsecutive
    <3>8. Consecutive(Append(q, published))
      BY <1>0, <2>5, <3>7, AppendConsecutive
    <3>9. ASSUME queueSize < 0 PROVE Consecutive(Append(p \o q, published))
      <4>1. p \o q = Stream(s)
        BY <2>2, <2>3, <3>9
      <4>2. Consecutive(p \o q) /\ (p \o q # <<>> => (p \o q)[Len(p \o q)] = published - 1)
        BY <1>3, <3>2, <3>4, <3>9, <4>1
      <4> QED
        BY <1>0, <2>7, <4>2, AppendConsecutive
    <3> QED
      BY <1>1, <1>2, <2>4, <2>6, <2>7, <3>3, <3>8, <3>9 DEF Kept
  <2> QED
    BY <1>1, <1>2, <2>1, <2>4, <2>8, OneStreamKept
<1>6. CASE \/ WriteLater(s) /\ queueSize = 0
           \/ state[s] \notin {"READY_TO_WRITE", "WAIT_WRITE_DONE"} /\ UNCHANGED <<state, queue, writes>>
  <2>1. UNCHANGED <<state, queue, writes>>
    BY <1>6 DEF WriteLater
  <2>2. ~Owed(s)'
    BY <1>2, <1>6, <2>1 DEF WriteLater, Owed, Serving
  <2> QED
    BY <1>1, <1>2, <2>1, <2>2, OneStreamKept
<1> QED
  BY <1>4, <1>5, <1>6 DEF PublishTo

LEMMA KeptStep ==
  ASSUME PubInv, KeptInv, [Next]_vars
  PROVE  NewestKept'
<1>0. /\ SessionsOK /\ TokenInv /\ NewestInv /\ ServedInv /\ published \in Int
      /\ \A s \in Ids : StateAt(s) /\ TokenAt(s)
  BY DEF PubInv, TypeOK, ThreadsOK, KeptInv, TokenInv
<1>1. \A s \in Ids : UNCHANGED appVars => Current(s)' = Current(s)
  BY DEF appVars, Current
<1>2. ASSUME UNCHANGED <<queueSize, wire, writes, queue>>, UNCHANGED appVars,
             \A s \in Ids : Serving(s)' /\ call'[s] = "open" /\ Stream(s) # <<>>
                                 => Serving(s) /\ call[s] = "open"
      PROVE  NewestKept'
  BY <1>1, <1>2, NoStreamKept
<1>3. ASSUME NEW s \in Ids, Connect(s) PROVE NewestKept'
  <2>1. /\ UNCHANGED <<queueSize, wire, writes, queue, state>> /\ UNCHANGED appVars
        /\ state[s] = "WAIT_CONNECT" /\ \A t \in Ids \ {s} : call'[t] = call[t]
    BY <1>0, <1>3 DEF Connect, sessionVars, StateAt, PubInv, TypeOK, GrpcOK
  <2> QED
    BY <1>2, <2>1 DEF Serving
<1>4. ASSUME NEW s \in Ids, Disconnect(s) \/ OnCompletionEvent(s) \/ OnFailed(s) PROVE NewestKept'
  <2>1. /\ UNCHANGED <<queueSize, wire, writes, queue, state>> /\ UNCHANGED appVars
        /\ \A t \in Ids : call'[t] = "open" => call[t] = "open"
    BY <1>4 DEF Disconnect, OnCompletionEvent, OnConnected, OnWritten, OnOther, OnFailed, Take,
       TryCancel, sessionVars, PubInv, TypeOK, GrpcOK
  <2> QED
    BY <1>2, <2>1 DEF Serving
<1>5. ASSUME NEW s \in Ids, TryCancelCallAndShutdown(s) PROVE NewestKept'
  <2>1. /\ UNCHANGED <<queueSize, wire, writes, queue, app, published>> /\ app = "cancel"
        /\ \A t \in Ids : state'[t] = state[t] \/ state'[t] = "FINISHED"
        /\ \A t \in Ids : call'[t] = "open" => call[t] = "open"
    BY <1>0, <1>5 DEF TryCancelCallAndShutdown, StopCancels, StopFinishes, Enter, sessionVars, appVars,
       grpcVars, TryCancel, PubInv, TypeOK, GrpcOK, SessionsOK
  <2>2. \A t \in Ids : Current(t)' = Current(t)
    BY <2>1 DEF Current
  <2> QED
    BY <2>1, <2>2, NoStreamKept DEF Serving
<1>6. CASE Finish \/ NewSession
  <2>1. /\ UNCHANGED <<queueSize, wire, writes, queue, call>> /\ UNCHANGED appVars
        /\ \A t \in Ids : state'[t] = state[t] \/ state'[t] \in {"FINISHED", "WAIT_CONNECT"}
    BY <1>0, <1>6 DEF Finish, NewSession, Enter, grpcVars, SessionsOK
  <2> QED
    BY <1>2, <2>1 DEF Serving
<1>7. CASE AddSession \/ WrittenAborts \/ Exit \/ UNCHANGED vars
  <2>1. UNCHANGED <<queueSize, wire, writes, queue, state, call>> /\ UNCHANGED appVars
    BY <1>7 DEF AddSession, WrittenAborts, Exit, sessionVars, grpcVars, vars
  <2> QED
    BY <1>2, <2>1 DEF Serving
<1>8. CASE ReadyToWrite
  <2>1. PICK s \in Ids : s = rpc.of /\ rpc.at = "ready"
    BY <1>8, RpcSession DEF ReadyToWrite
  <2>2. state[s] = "WAIT_CONNECT"
    BY <1>0, <2>1 DEF StateAt
  <2>3. Stream(s) = <<>>
    <3>1. writes[s] = <<>> /\ queue[s] = <<>> /\ wire[s] = <<>>
      BY <1>0, <2>2 DEF StateAt, ServedInv
    <3> QED
      BY <3>1, StreamParts
  <2>4. /\ UNCHANGED <<queueSize, wire, writes, queue, call>> /\ UNCHANGED appVars
        /\ \A t \in Ids \ {s} : state'[t] = state[t]
    BY <1>0, <1>8, <2>1 DEF ReadyToWrite, Enter, grpcVars, SessionsOK
  <2> QED
    BY <1>2, <2>3, <2>4 DEF Serving
<1>9. CASE Written /\ queue[rpc.of] = <<>>
  <2>1. PICK s \in Ids : s = rpc.of /\ rpc.at = "written"
    BY <1>9, RpcSession DEF Written
  <2>2. /\ UNCHANGED <<queueSize, wire, writes, queue, call>> /\ UNCHANGED appVars
        /\ \A t \in Ids \ {s} : state'[t] = state[t]
    BY <1>0, <1>9, <2>1 DEF Written, Enter, SessionsOK
  <2>3. call[s] = "open" => Serving(s)
    <3>1. state[s] \in {"WAIT_WRITE_DONE", "FINISHED"}
      BY <1>0, <2>1 DEF StateAt
    <3> QED
      BY <1>0, <3>1 DEF ServedInv, Serving
  <2> QED
    BY <1>2, <2>2, <2>3 DEF Serving
<1>10. CASE Publish
  <2>1. /\ UNCHANGED <<queueSize, wire, writes, queue, state, call>>
        /\ published' = published + 1 /\ app' = "publish" /\ app = "idle" /\ left' = sessions
    BY <1>10 DEF Publish, sessionVars, grpcVars
  <2>2. ASSUME NEW s \in Ids, Serving(s) PROVE Current(s)' = Current(s)
    <3>1. s # Newest /\ s \in Created
      BY <1>0, <2>2 DEF Serving, NewestInv, Created
    <3>2. s \in sessions
      BY <1>0, <3>1 DEF ServedInv
    <3> QED
      BY <1>0, <2>1, <3>2 DEF Current
  <2>3. \A s \in Ids : Owed(s) => Current(s)' = Current(s)
    BY <2>2 DEF Owed
  <2> QED
    BY <2>1, <2>3, NoStreamKept DEF Serving
<1>11. CASE Published \/ Stop \/ StopServer \/ StopQueue \/ Stopped
  <2>1. /\ UNCHANGED <<queueSize, wire, writes, queue, state, call>>
        /\ published' = published /\ app' # "publish" /\ (app = "publish" => left = {})
    BY <1>11 DEF Published, Stop, StopServer, StopQueue, Stopped, sessionVars, grpcVars
  <2>2. \A s \in Ids : Current(s)' = Current(s)
    BY <2>1 DEF Current
  <2> QED
    BY <2>1, <2>2, NoStreamKept DEF Serving
<1> QED
  BY <1>3, <1>4, <1>5, <1>6, <1>7, <1>8, <1>9, <1>10, <1>11, WriteDoneKept, WriteNextKept, PublishKept
     DEF Next, Dispatch, Application, Network

LEMMA ServedStep ==
  ASSUME PubInv, ServedInv, [Next]_vars
  PROVE  ServedInv'
<1>0. /\ SessionsOK /\ NewestInv /\ GrpcOK /\ \A s \in Ids : StateAt(s) /\ TokenAt(s)
  BY DEF PubInv, TypeOK, TokenInv
<1>1. /\ \A s \in Ids : state[s] \in {"none", "WAIT_CONNECT"} => wire[s] = <<>>
      /\ \A s \in Ids : state[s] = "FINISHED" => call[s] # "open"
      /\ rpc.at = "finish" => call[rpc.of] # "open"
      /\ Created \ {Newest} \subseteq sessions
      /\ rpc.at # "insert" => Newest \in sessions
  BY DEF ServedInv
<1>2. ASSUME UNCHANGED <<state, sessions>> PROVE Created' = Created /\ Newest' = Newest
  BY <1>2, SameCreated
<1>3. ASSUME NEW s \in Ids, Connect(s) PROVE ServedInv'
  <2>1. UNCHANGED <<state, sessions, wire, rpc>> /\ state[s] = "WAIT_CONNECT" /\ s \in requested
        /\ \A t \in Ids \ {s} : call'[t] = call[t]
    BY <1>0, <1>3 DEF Connect, sessionVars, StateAt, GrpcOK
  <2>2. rpc.of # s
    BY <1>0, <2>1 DEF TokenAt
  <2>3. rpc.at = "finish" => rpc.of \in Ids
    BY RpcSession
  <2> QED
    BY <1>1, <1>2, <2>1, <2>2, <2>3 DEF ServedInv
<1>4. ASSUME NEW s \in Ids, Disconnect(s) \/ OnCompletionEvent(s) PROVE ServedInv'
  <2>1. /\ UNCHANGED <<state, sessions, wire>> /\ \A t \in Ids : call'[t] = "open" => call[t] = "open"
        /\ rpc' = rpc \/ (rpc.at = "next" /\ rpc'.at \in {"construct", "written"})
    BY <1>0, <1>4 DEF Disconnect, OnCompletionEvent, OnConnected, OnWritten, OnOther, Take, Goto, Idle,
       sessionVars, GrpcOK
  <2>2. rpc.at = "finish" => rpc.of \in Ids
    BY RpcSession
  <2> QED
    BY <1>1, <1>2, <2>1, <2>2 DEF ServedInv
<1>5. ASSUME NEW s \in Ids, OnFailed(s) PROVE ServedInv'
  <2>1. /\ UNCHANGED <<state, sessions, wire>> /\ \A t \in Ids : call'[t] = "open" => call[t] = "open"
        /\ rpc.at = "next"
        /\ rpc' = rpc \/ (rpc' = [at |-> "finish", of |-> s] /\ call'[s] # "open")
    BY <1>0, <1>5 DEF OnFailed, Take, Goto, Idle, TryCancel, sessionVars, GrpcOK
  <2> QED
    BY <1>1, <1>2, <2>1 DEF ServedInv
<1>6. ASSUME NEW s \in Ids, WriteDone(s) PROVE ServedInv'
  <2>1. UNCHANGED <<state, sessions, call, rpc>> /\ writes[s] # <<>>
        /\ \A t \in Ids \ {s} : wire'[t] = wire[t]
    BY <1>0, <1>6 DEF WriteDone, sessionVars, GrpcOK
  <2>2. state[s] \notin {"none", "WAIT_CONNECT"}
    BY <1>0, <2>1 DEF StateAt
  <2> QED
    BY <1>1, <1>2, <2>1, <2>2 DEF ServedInv
<1>7. ASSUME NEW s \in Ids, state[s] # "none", Enter(s, state'[s]), state'[s] \in {"READY_TO_WRITE", "WAIT_WRITE_DONE", "FINISHED"},
             state'[s] = "FINISHED" => call'[s] # "open",
             UNCHANGED <<sessions, wire, call>>, rpc' = rpc \/ rpc' = Idle, rpc.at # "insert"
      PROVE  ServedInv'
  <2>1. \A t \in Ids \ {s} : state'[t] = state[t]
    BY <1>0, <1>7 DEF Enter, SessionsOK
  <2>2. Created' = Created /\ Newest' = Newest
    BY <1>0, <1>7, EnterKeepsCreated
  <2> QED
    BY <1>1, <1>7, <2>1, <2>2 DEF ServedInv, Idle
<1>8. CASE Finish \/ ReadyToWrite \/ Written
  <2>1. PICK s \in Ids : s = rpc.of /\ rpc.at \in {"finish", "ready", "written"}
    BY <1>8, RpcSession DEF Finish, ReadyToWrite, Written
  <2>2. PICK st \in {"READY_TO_WRITE", "WAIT_WRITE_DONE", "FINISHED"} :
          /\ Enter(s, st) /\ rpc' = Idle /\ UNCHANGED <<sessions, wire, call>>
          /\ st = "FINISHED" => rpc.at = "finish"
    BY <1>8, <2>1 DEF Finish, ReadyToWrite, Written, grpcVars
  <2>3. state'[s] = st /\ state[s] # "none"
    BY <1>0, <2>1, <2>2, RpcSession DEF Enter, SessionsOK
  <2> QED
    BY <1>1, <1>7, <2>1, <2>2, <2>3
<1>9. CASE NewSession
  <2>1. CASE QueueClosed
    <3>1. UNCHANGED <<state, sessions, wire, call>> /\ rpc.at = "construct" /\ rpc'.at = "aborted"
      BY <1>9, <2>1 DEF NewSession, Goto
    <3> QED
      BY <1>1, <1>2, <3>1 DEF ServedInv
  <2>2. CASE ~QueueClosed
    <3>1. /\ Enter(Newest + 1, "WAIT_CONNECT") /\ UNCHANGED <<sessions, wire, call>>
          /\ rpc.at = "construct" /\ rpc'.at = "insert" /\ Newest < MaxSessions
      BY <1>0, <1>9, <2>2 DEF NewSession, Goto, NewestInv
    <3>2. /\ Newest + 1 \in Ids /\ state[Newest + 1] = "none"
          /\ Newest' = Newest + 1 /\ Created' = 1..Newest'
      BY <1>0, <3>1, NewSessionCreates
    <3>3. /\ state'[Newest + 1] = "WAIT_CONNECT"
          /\ \A t \in Ids \ {Newest + 1} : state'[t] = state[t]
      BY <1>0, <3>1, <3>2 DEF Enter, SessionsOK
    <3>4. Created' \ {Newest'} \subseteq sessions'
      <4>1. Newest \in Nat /\ Created = 1..Newest
        BY <1>0, Bounds DEF SessionsOK, Ids
      <4>2. Created' \ {Newest'} = Created
        BY <3>2, <4>1
      <4> QED
        BY <1>1, <3>1, <4>2
    <3> QED
      BY <1>1, <3>1, <3>2, <3>3, <3>4 DEF ServedInv
  <2> QED
    BY <2>1, <2>2
<1>10. CASE AddSession
  <2>1. UNCHANGED <<state, wire, call>> /\ sessions' = sessions \union {Newest} /\ rpc'.at = "ready"
    BY <1>10 DEF AddSession, Goto, grpcVars
  <2>2. Created' = Created /\ Newest' = Newest
    BY <2>1, SameCreated
  <2> QED
    BY <1>1, <2>1, <2>2 DEF ServedInv
<1>11. CASE WrittenAborts \/ Exit \/ UNCHANGED vars
  <2>1. UNCHANGED <<state, sessions, wire, call>>
    BY <1>11 DEF WrittenAborts, Exit, sessionVars, grpcVars, vars
  <2>2. rpc' = rpc \/ (rpc.at # "insert" /\ rpc'.at \in {"aborted", "exited"})
    BY <1>11 DEF WrittenAborts, Exit, Idle, Goto, vars
  <2> QED
    BY <1>1, <1>2, <2>1, <2>2 DEF ServedInv
<1>12. CASE Publish \/ Published \/ Stop \/ StopServer \/ StopQueue \/ Stopped
  <2>1. UNCHANGED <<state, sessions, wire, call, rpc>>
    BY <1>12 DEF Publish, Published, Stop, StopServer, StopQueue, Stopped, sessionVars, grpcVars
  <2> QED
    BY <1>1, <1>2, <2>1 DEF ServedInv
<1>13. ASSUME NEW s \in Ids, StopCancels(s) PROVE ServedInv'
  <2>1. UNCHANGED <<state, sessions, wire, rpc>> /\ \A t \in Ids : call'[t] = "open" => call[t] = "open"
    BY <1>0, <1>13 DEF StopCancels, TryCancel, sessionVars, GrpcOK
  <2>2. rpc.at = "finish" => rpc.of \in Ids
    BY RpcSession
  <2> QED
    BY <1>1, <1>2, <2>1, <2>2 DEF ServedInv
<1>14. ASSUME NEW s \in Ids, StopFinishes(s) \/ PublishTo(s) PROVE ServedInv'
  <2>1. UNCHANGED <<sessions, wire, call, rpc>>
    BY <1>14 DEF StopFinishes, PublishTo, grpcVars
  <2>2. CASE UNCHANGED state
    BY <1>1, <1>2, <2>1, <2>2 DEF ServedInv
  <2>3. CASE state' # state
    <3>1. PICK st \in {"WAIT_WRITE_DONE", "FINISHED"} :
            /\ Enter(s, st) /\ (st = "FINISHED" => call[s] = "dead")
      BY <1>14, <2>3 DEF StopFinishes, PublishTo, WriteNow, WriteLater
    <3>2. state[s] # "none"
      BY <1>0, <1>14, <2>3 DEF StopFinishes, SessionsOK, Created, PublishTo
    <3>3. state'[s] = st /\ \A t \in Ids \ {s} : state'[t] = state[t]
      BY <1>0, <3>1 DEF Enter, SessionsOK
    <3>4. Created' = Created /\ Newest' = Newest
      BY <1>0, <3>1, <3>2, EnterKeepsCreated
    <3> QED
      BY <1>1, <2>1, <3>1, <3>2, <3>3, <3>4 DEF ServedInv
  <2> QED
    BY <2>2, <2>3
<1> QED
  BY <1>3, <1>4, <1>5, <1>6, <1>8, <1>9, <1>10, <1>11, <1>12, <1>13, <1>14
     DEF Next, Dispatch, Application, Network, TryCancelCallAndShutdown

(* The newest state reaches the stream of every client that listens, for   *)
(* any number of sessions and states and any size of the queue but 0.      *)
THEOREM NewestStateKept == Spec => []NewestKept
<1>1. Init => KeptInv
  <2>1. ASSUME Init PROVE KeptInv
    <3>1. \A s \in Ids : ~Serving(s) /\ wire[s] = <<>> /\ state[s] # "FINISHED"
      BY <2>1 DEF Init, Serving
    <3>2. /\ NewestKept
      BY <3>1 DEF NewestKept, Owed
    <3>3. Created = {1} /\ Newest = 1
      <4>1. 1 \in Ids
        BY Bounds DEF Ids
      <4>2. Created = {1}
        BY <2>1, <4>1 DEF Init, Created
      <4> QED
        BY <4>2, FS_Singleton DEF Newest
    <3>4. sessions = {1} /\ rpc.at = "next"
      BY <2>1 DEF Init, Idle
    <3> QED
      BY <3>1, <3>2, <3>3, <3>4 DEF KeptInv, ServedInv
  <2> QED
    BY <2>1
<1>2. PubInv /\ KeptInv /\ [Next]_vars => KeptInv'
  BY KeptStep, ServedStep DEF KeptInv
<1>3. KeptInv => NewestKept
  BY DEF KeptInv
<1> QED
  BY <1>1, <1>2, <1>3, PubInvariant, PTL DEF Spec

=============================================================================
