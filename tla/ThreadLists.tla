----------------------------- MODULE ThreadLists -----------------------------
(***************************************************************************)
(* The lists of threads, semaphores and mutexes of dt::Thread, the spin    *)
(* lock dt::Utils::Lock, and a program that uses them the way the examples *)
(* do: main creates its threads, semaphores and mutexes, and at the end    *)
(* posts all semaphores, joins all threads and destroys the rest.  A thread *)
(* either adds to a shared sum under the lock or waits for a semaphore.    *)
(***************************************************************************)
EXTENDS Integers, FiniteSets

CONSTANTS
  Adders, Waiters,   (* the threads of main                                *)
  Sems, Mutexes,
  Places,            (* the lengths of threadList, semList and mtxList     *)
  inc_per_thread,    (* how often an adder adds                            *)
  NoObject           (* nullptr                                            *)

Threads == Adders \union Waiters
Objects == Threads \union Sems \union Mutexes
Kinds   == {"thread", "sem", "mutex"}

ASSUME ThreadListsAssumption ==
  /\ Adders \intersect Waiters = {} /\ Threads \intersect (Sems \union Mutexes) = {}
  /\ Sems \intersect Mutexes = {} /\ NoObject \notin Objects
  /\ inc_per_thread \in Nat /\ IsFiniteSet(Objects)
  /\ Places \in [Kinds -> Nat]

VARIABLES
  list,          (* threadList, semList, mtxList: the places in use, which *)
                 (* are threadNum, semNum and mtxNum in number             *)
  state,         (* of an object: "new", "live", "ended" for a thread that *)
                 (* has returned, "gone" when joined or destroyed; "stray" *)
                 (* for what exists and is in no list                      *)
  listIdx,
  value,         (* of a semaphore                                         *)
  sem,           (* the semaphore a waiter was created with                *)
  main,          (* what main does: its phase and the index of a loop      *)
  _lock,         (* of the spin lock                                       *)
  proc,          (* of an adder: its step, the sum it has read, how often  *)
                 (* it has added                                           *)
  sum

vars == <<list, state, listIdx, value, sem, main, _lock, proc, sum>>

Kind(o) == IF o \in Threads THEN "thread" ELSE IF o \in Sems THEN "sem" ELSE "mutex"
Num(k)  == Cardinality(DOMAIN list[k])

Init ==
  /\ list = [k \in Kinds |-> [i \in {} |-> NoObject]]
  /\ state = [o \in Objects |-> "new"] /\ listIdx = [o \in Objects |-> 0]
  /\ value = [s \in Sems |-> 0] /\ sem \in [Waiters -> Sems]
  /\ (\A v, w \in Waiters : sem[v] = sem[w] => v = w)
  /\ main = [at |-> "setup", idx |-> -1]
  /\ _lock = FALSE /\ sum = 0
  /\ proc = [t \in Adders |-> [at |-> "lock", read |-> 0, added |-> 0]]

-----------------------------------------------------------------------------
(* The lists: an object is put at the next place, which is never used      *)
(* again.                                                                  *)

(* Mutant: The place is counted by what the list still holds.              *)
PlaceReused(k) == Cardinality({i \in DOMAIN list[k] : list[k][i] # NoObject})

Place(k) == Num(k)
Register(o) ==
  LET k == Kind(o)
  IN  /\ list' = [list EXCEPT ![k] = [i \in DOMAIN @ \union {Place(k)} |-> IF i = Place(k) THEN o ELSE @[i]]]
      /\ listIdx' = [listIdx EXCEPT ![o] = Place(k)]

Unregister(o) ==
  list' = IF listIdx[o] \in DOMAIN list[Kind(o)]
          THEN [list EXCEPT ![Kind(o)][listIdx[o]] = NoObject] ELSE list

InSetup == main.at = "setup"
Phase(at, idx) == main' = [at |-> at, idx |-> idx]

(* A thread is created when the semaphore it waits for is there.           *)
Creatable(o) == InSetup /\ state[o] = "new" /\ (o \in Waiters => state[sem[o]] = "live")
Created(o) == state' = [state EXCEPT ![o] = "live"] /\ Register(o)
Others == UNCHANGED <<main, _lock, proc, sum, sem>>

(* No Create... looks whether there is a place: the address is written     *)
(* beyond the list, and what main does from then on is not modelled.       *)
HasPlace(o) == Num(Kind(o)) < Places[Kind(o)]
Overrun(o) ==
  /\ Creatable(o) /\ ~HasPlace(o)
  /\ state' = [state EXCEPT ![o] = "stray"] /\ Phase("overrun", -1)
  /\ UNCHANGED <<list, listIdx, value, _lock, proc, sum, sem>>

(* CreateThread with addList.  It may fail, before the thread exists or    *)
(* after: then the thread runs and is in no list.                          *)
CreateThread(t) ==
  /\ Creatable(t)
  /\ \/ HasPlace(t) /\ Created(t)
     \/ /\ state' \in {[state EXCEPT ![t] = "stray"], [state EXCEPT ![t] = "gone"]}
        /\ UNCHANGED <<list, listIdx>>
  /\ UNCHANGED value /\ Others

(* DeleteThread returns when the thread has ended.                         *)
DeleteThread(t) ==
  /\ InSetup /\ state[t] = "ended"
  /\ state' = [state EXCEPT ![t] = "gone"] /\ Unregister(t)
  /\ UNCHANGED <<listIdx, value>> /\ Others

CreateSemaphore(s) ==
  /\ Creatable(s) /\ HasPlace(s) /\ Created(s)
  /\ value' = [value EXCEPT ![s] = 0] /\ Others

CreateMutex(m) ==
  Creatable(m) /\ HasPlace(m) /\ Created(m) /\ UNCHANGED value /\ Others

(* main destroys only what no thread uses.                                 *)
DeleteSemaphore(s) ==
  /\ InSetup /\ state[s] = "live" /\ \A w \in Waiters : sem[w] = s => state[w] \notin {"live", "stray"}
  /\ state' = [state EXCEPT ![s] = "gone"] /\ Unregister(s)
  /\ UNCHANGED <<listIdx, value>> /\ Others

DeleteMutex(m) ==
  /\ InSetup /\ state[m] = "live"
  /\ state' = [state EXCEPT ![m] = "gone"] /\ Unregister(m)
  /\ UNCHANGED <<listIdx, value>> /\ Others

Last(k) == Num(k) - 1

(* Mutant: The loop stops before the first place.                          *)
FirstLeftOut(k) == {list[k][i] : i \in DOMAIN list[k] \ {0}} \ {NoObject}

Listed(k) == {list[k][i] : i \in DOMAIN list[k]} \ {NoObject}
PostAllSemaphore ==
  /\ InSetup
  /\ value' = [s \in Sems |-> IF s \in Listed("sem") THEN value[s] + 1 ELSE value[s]]
  /\ Phase("DeleteAllThread", Last("thread"))
  /\ UNCHANGED <<list, state, listIdx, sem, _lock, proc, sum>>

(* The loop of a DeleteAll...: from the last place down; the list is not   *)
(* changed.  Joining waits for the thread to end.                          *)
Loop(k, at, from, next) ==
  /\ main.at = at
  /\ IF main.idx < 0 THEN Phase(next[1], next[2]) /\ UNCHANGED state
     ELSE /\ Phase(at, main.idx - 1)
          /\ LET o == list[k][main.idx]
             IN  IF o = NoObject THEN UNCHANGED state
                 ELSE state[o] = from /\ state' = [state EXCEPT ![o] = "gone"]
  /\ UNCHANGED <<list, listIdx, value, sem, _lock, proc, sum>>

DeleteAllThread    == Loop("thread", "DeleteAllThread", "ended", <<"DeleteAllSemaphore", Last("sem")>>)
DeleteAllSemaphore == Loop("sem", "DeleteAllSemaphore", "live", <<"DeleteAllMutex", Last("mutex")>>)
DeleteAllMutex     == Loop("mutex", "DeleteAllMutex", "live", <<"done", -1>>)

-----------------------------------------------------------------------------
(* The threads.  An adder spins until it has the lock; a waiter waits for  *)
(* its semaphore once.                                                     *)

Runs(t) == state[t] \in {"live", "stray"}
Ends(t) == state' = [state EXCEPT ![t] = IF @ = "live" THEN "ended" ELSE "gone"]
InProc == UNCHANGED <<list, listIdx, sem, main>>

(* Mutant: The lock is taken whatever its value.                           *)
AlwaysAcquires == TRUE

(* compare_exchange_strong                                                 *)
Acquires == ~_lock

Lock(t) ==
  /\ Runs(t) /\ proc[t].at = "lock" /\ proc[t].added < inc_per_thread
  /\ Acquires /\ _lock' = TRUE
  /\ proc' = [proc EXCEPT ![t].at = "read"]
  /\ InProc /\ UNCHANGED <<state, value, sum>>

Read(t) ==
  /\ Runs(t) /\ proc[t].at = "read"
  /\ proc' = [proc EXCEPT ![t].at = "write", ![t].read = sum]
  /\ InProc /\ UNCHANGED <<state, value, sum, _lock>>

Write(t) ==
  /\ Runs(t) /\ proc[t].at = "write"
  /\ sum' = proc[t].read + 1
  /\ proc' = [proc EXCEPT ![t].at = "unlock"]
  /\ InProc /\ UNCHANGED <<state, value, _lock>>

Unlock(t) ==
  /\ Runs(t) /\ proc[t].at = "unlock"
  /\ _lock' = FALSE
  /\ proc' = [proc EXCEPT ![t].at = "lock", ![t].added = @ + 1]
  /\ InProc /\ UNCHANGED <<state, value, sum>>

Return(t) ==
  /\ Runs(t) /\ proc[t].at = "lock" /\ proc[t].added = inc_per_thread
  /\ Ends(t) /\ InProc /\ UNCHANGED <<value, sum, _lock, proc>>

threadProc(t) == Lock(t) \/ Read(t) \/ Write(t) \/ Unlock(t) \/ Return(t)

WaitSemaphore(t) ==
  /\ Runs(t) /\ value[sem[t]] > 0
  /\ value' = [value EXCEPT ![sem[t]] = @ - 1]
  /\ Ends(t) /\ InProc /\ UNCHANGED <<sum, _lock, proc>>

-----------------------------------------------------------------------------
Setup ==
  \/ \E t \in Threads : CreateThread(t) \/ DeleteThread(t)
  \/ \E s \in Sems    : CreateSemaphore(s) \/ DeleteSemaphore(s)
  \/ \E m \in Mutexes : CreateMutex(m) \/ DeleteMutex(m)
  \/ \E o \in Objects : Overrun(o)
  \/ PostAllSemaphore

Shutdown == DeleteAllThread \/ DeleteAllSemaphore \/ DeleteAllMutex

Next ==
  \/ Setup \/ Shutdown
  \/ \E t \in Adders  : threadProc(t)
  \/ \E t \in Waiters : WaitSemaphore(t)

Spec == Init /\ [][Next]_vars

(* Every thread is scheduled again and again; main goes on once it has     *)
(* begun to shut down.                                                     *)
FairSpec ==
  /\ Spec /\ WF_vars(Shutdown)
  /\ \A t \in Adders  : WF_vars(threadProc(t))
  /\ \A t \in Waiters : WF_vars(WaitSemaphore(t))
=============================================================================
