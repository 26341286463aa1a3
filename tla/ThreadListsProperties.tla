------------------------ MODULE ThreadListsProperties ------------------------
(***************************************************************************)
(* What the lists of dt::Thread, its lock and a program with them satisfy. *)
(***************************************************************************)
EXTENDS ThreadLists

(* Every variable has its type, and a list has the places 0 to its number  *)
(* less one.                                                               *)
ProcStates == [at : {"lock", "read", "write", "unlock"}, read : Int, added : 0..inc_per_thread]
ListsOK ==
  /\ list = [k \in Kinds |-> list[k]]
  /\ \A k \in Kinds : /\ Num(k) \in Nat /\ DOMAIN list[k] = 0..(Num(k) - 1)
                      /\ list[k] = [i \in DOMAIN list[k] |-> list[k][i]]
TypeOK ==
  /\ ListsOK
  /\ state \in [Objects -> {"new", "live", "ended", "gone", "stray"}]
  /\ listIdx \in [Objects -> Nat]
  /\ value \in [Sems -> Nat] /\ sem \in [Waiters -> Sems]
  /\ main.idx \in Int
  /\ main.at \in {"setup", "overrun", "DeleteAllThread", "DeleteAllSemaphore", "DeleteAllMutex", "done"}
  /\ _lock \in BOOLEAN /\ sum \in Int
  /\ proc \in [Adders -> ProcStates]

(* What the loop of a DeleteAll... has passed: it joins and destroys, and  *)
(* leaves the place as it is.                                              *)
LoopOf == [thread |-> "DeleteAllThread", sem |-> "DeleteAllSemaphore", mutex |-> "DeleteAllMutex"]
After  == [thread |-> {"DeleteAllSemaphore", "DeleteAllMutex", "done"},
           sem    |-> {"DeleteAllMutex", "done"},
           mutex  |-> {"done"}]
Passed(k, i) == main.at \in After[k] \/ (main.at = LoopOf[k] /\ i > main.idx)

(* An object that is created and not yet deleted is at its listIdx.        *)
Registered(o) == state[o] \in {"live", "ended"}
Located ==
  \A o \in Objects : Registered(o) =>
    listIdx[o] \in DOMAIN list[Kind(o)] /\ list[Kind(o)][listIdx[o]] = o

(* As long as no list was overrun, a place names such an object, or one    *)
(* that its loop has passed and deleted.                                   *)
Holds(k, i, o) ==
  /\ o \in Objects /\ Kind(o) = k /\ listIdx[o] = i
  /\ IF Passed(k, i) THEN state[o] = "gone" ELSE Registered(o)
PlacesRight ==
  main.at # "overrun" =>
    \A k \in Kinds : \A i \in DOMAIN list[k] :
      list[k][i] # NoObject => Holds(k, i, list[k][i])

(* The lists of threadImp.cpp hold what is created and not yet deleted,    *)
(* each object in one place, through the setup and the loops of the        *)
(* shutdown: PostAllSemaphore reaches every semaphore, and nothing is      *)
(* joined or destroyed twice, although the loops leave the places as they  *)
(* are.                                                                    *)
ListsAreLive == Located /\ PlacesRight

(* What example_thread_lock prints: when DeleteAllThread has returned, no  *)
(* thread that was created runs and no addition was lost.                  *)
Successes == {t \in Adders : proc[t].added > 0}
SumIsExact ==
  main.at \notin {"setup", "overrun", "DeleteAllThread"} /\ (\A t \in Threads : state[t] # "stray") =>
    /\ \A t \in Threads : state[t] \in {"new", "gone"}
    /\ sum = inc_per_thread * Cardinality(Successes)

(* The shutdown ends: PostAllSemaphore wakes every waiter, the spinning    *)
(* threads finish, and so every join of DeleteAllThread returns.           *)
ShutdownEnds == main.at = "DeleteAllThread" ~> main.at = "done"

-----------------------------------------------------------------------------
(* The invariant that is inductive, in parts.                              *)

(* DeleteAllThread has joined the threads above the place it is at.        *)
Joined ==
  /\ main.at = "DeleteAllThread" =>
       \A t \in Threads : Registered(t) => listIdx[t] <= main.idx
  /\ main.at \notin {"setup", "overrun", "DeleteAllThread"} => \A t \in Threads : ~Registered(t)

(* A loop is at a place of its list, or below the first one.               *)
LoopsInside == \A k \in Kinds : main.at = LoopOf[k] => main.idx <= Last(k)

(* An adder that has not begun has added nothing, one that has ended all.  *)
AddersInv ==
  \A t \in Adders :
    /\ proc[t].at # "lock" => proc[t].added < inc_per_thread
    /\ ~Runs(t) => proc[t].at = "lock" /\ proc[t].added \in {0, inc_per_thread}
    /\ state[t] = "new" => proc[t].added = 0

(* Mutual exclusion: what an adder has read is still the sum.              *)
LockInv ==
  \A t \in Adders : proc[t].at # "lock" =>
    /\ _lock
    /\ \A u \in Adders : proc[u].at # "lock" => u = t
    /\ proc[t].at = "write" => proc[t].read = sum

(* The sum counts the additions, each a thread and how many it has made.   *)
Additions(t) == proc[t].added + (IF proc[t].at = "unlock" THEN 1 ELSE 0)
Made == {a \in Adders \X (1..inc_per_thread) : a[2] <= Additions(a[1])}
SumInv == sum = Cardinality(Made)

ThreadsInv ==
  /\ TypeOK /\ ListsAreLive /\ LoopsInside /\ Joined
  /\ AddersInv /\ LockInv /\ SumInv
=============================================================================
