------------------------- MODULE ThreadLists_proofs --------------------------
(***************************************************************************)
(* Proofs that the lists of dt::Thread hold what was created and not       *)
(* deleted, and that the sum the threads add to under the lock is exact    *)
(* when they are joined, for any number of threads, semaphores, mutexes    *)
(* and additions.                                                          *)
(***************************************************************************)
EXTENDS ThreadListsProperties, FiniteSetTheorems, TLAPS

USE DEF Objects

LEMMA Constants ==
  /\ inc_per_thread \in Nat /\ NoObject \notin Objects
  /\ \A t \in Adders : t \notin Waiters
  /\ \A t \in Threads : t \notin Sems /\ t \notin Mutexes
  /\ \A s \in Sems : s \notin Mutexes
  /\ Adders \subseteq Threads /\ Waiters \subseteq Threads
  /\ IsFiniteSet(Adders)
<1>1. Adders \subseteq Objects /\ IsFiniteSet(Objects)
  BY ThreadListsAssumption DEF Threads
<1>2. IsFiniteSet(Adders)
  BY <1>1, FS_Subset
<1> QED
  BY <1>2, ThreadListsAssumption DEF Threads

LEMMA KindOf ==
  /\ \A o \in Objects : Kind(o) \in Kinds
  /\ \A t \in Threads : Kind(t) = "thread"
BY DEF Kind, Kinds

(* An object put at the next place.                                        *)
LEMMA Registers ==
  ASSUME ListsOK, NEW o \in Objects, Register(o)
  PROVE  /\ ListsOK'
         /\ Num(Kind(o)) \in Nat /\ Num(Kind(o)) \notin DOMAIN list[Kind(o)]
         /\ DOMAIN list[Kind(o)]' = DOMAIN list[Kind(o)] \union {Num(Kind(o))}
         /\ list[Kind(o)]'[Num(Kind(o))] = o
         /\ \A k \in Kinds : \A i \in DOMAIN list[k] :
              i \in DOMAIN list'[k] /\ list'[k][i] = list[k][i]
         /\ \A k \in Kinds \ {Kind(o)} : list'[k] = list[k]
         /\ listIdx' = [listIdx EXCEPT ![o] = Num(Kind(o))]
<1> DEFINE k == Kind(o)  n == Num(k)
           new == [i \in DOMAIN list[k] \union {n} |-> IF i = n THEN o ELSE list[k][i]]
<1>1. k \in Kinds
  BY KindOf
<1>2. n \in Nat /\ DOMAIN list[k] = 0..(n - 1) /\ list = [j \in Kinds |-> list[j]]
  BY <1>1 DEF ListsOK
<1>3. list' = [list EXCEPT ![k] = new] /\ listIdx' = [listIdx EXCEPT ![o] = n]
  BY DEF Register, Place
<1> HIDE DEF k, n, new
<1>4. list'[k] = new /\ \A j \in Kinds \ {k} : list'[j] = list[j]
  BY <1>1, <1>2, <1>3
<1>5. list' = [j \in Kinds |-> list'[j]]
  BY <1>2, <1>3
<1>6. n \notin DOMAIN list[k]
  BY <1>2
<1>7. DOMAIN new = 0..n /\ DOMAIN new = DOMAIN list[k] \union {n}
  BY <1>2 DEF new
<1>8. Cardinality(0..n) = n + 1
  <2>1. n \in Nat
    BY <1>2
  <2> QED
    BY <2>1, FS_Interval
<1>9. Cardinality(DOMAIN list'[k]) = n + 1
  BY <1>4, <1>7, <1>8
<1>10. new[n] = o /\ \A i \in DOMAIN list[k] : new[i] = list[k][i]
  BY <1>6 DEF new
<1>11. new = [i \in DOMAIN new |-> new[i]]
  BY DEF new
<1>12. \A j \in Kinds \ {k} : Num(j)' = Num(j)
  BY <1>4 DEF Num
<1>13. ListsOK'
  <2> SUFFICES ASSUME NEW j \in Kinds
      PROVE  /\ Num(j)' \in Nat /\ DOMAIN list'[j] = 0..(Num(j)' - 1)
             /\ list'[j] = [i \in DOMAIN list'[j] |-> list'[j][i]]
    BY <1>5 DEF ListsOK
  <2>1. CASE j = k
    <3>1. Num(j)' = n + 1
      BY <2>1, <1>9 DEF Num
    <3> QED
      BY <2>1, <3>1, <1>2, <1>4, <1>7, <1>11
  <2>2. CASE j # k
    BY <2>2, <1>4, <1>12 DEF ListsOK
  <2> QED
    BY <2>1, <2>2
<1> QED
  BY <1>2, <1>3, <1>4, <1>6, <1>7, <1>10, <1>13 DEF k, n

(* An object whose place is emptied.                                       *)
LEMMA Unregisters ==
  ASSUME ListsOK, NEW o \in Objects, Unregister(o)
  PROVE  /\ ListsOK'
         /\ \A k \in Kinds : DOMAIN list'[k] = DOMAIN list[k]
         /\ \A k \in Kinds : \A i \in DOMAIN list[k] :
              list'[k][i] = IF k = Kind(o) /\ i = listIdx[o] THEN NoObject ELSE list[k][i]
<1> DEFINE k == Kind(o)
           new == [list[k] EXCEPT ![listIdx[o]] = NoObject]
<1>1. k \in Kinds /\ list = [j \in Kinds |-> list[j]]
  BY KindOf DEF ListsOK
<1>2. list[k] = [i \in DOMAIN list[k] |-> list[k][i]]
  BY <1>1 DEF ListsOK
<1>3. DOMAIN new = DOMAIN list[k] /\ new = [i \in DOMAIN new |-> new[i]]
  BY <1>2
<1>4. \A i \in DOMAIN list[k] : new[i] = IF i = listIdx[o] THEN NoObject ELSE list[k][i]
  BY <1>2
<1>5. list' = IF listIdx[o] \in DOMAIN list[k] THEN [list EXCEPT ![k] = new] ELSE list
  BY DEF Unregister
<1> HIDE DEF k, new
<1>6. CASE listIdx[o] \in DOMAIN list[k]
  <2>1. list' = [list EXCEPT ![k] = new]
    BY <1>5, <1>6
  <2>2. list'[k] = new /\ \A j \in Kinds \ {k} : list'[j] = list[j]
    BY <1>1, <2>1
  <2>3. list' = [j \in Kinds |-> list'[j]]
    BY <1>1, <2>1
  <2>4. \A j \in Kinds : DOMAIN list'[j] = DOMAIN list[j]
    BY <2>2, <1>3
  <2>5. \A j \in Kinds : Num(j)' = Num(j)
    BY <2>4 DEF Num
  <2>6. ListsOK'
    BY <2>2, <2>3, <2>4, <2>5, <1>3 DEF ListsOK
  <2> QED
    BY <2>2, <2>4, <2>6, <1>4 DEF k
<1>7. CASE listIdx[o] \notin DOMAIN list[k]
  <2>1. list' = list
    BY <1>5, <1>7
  <2>2. ListsOK'
    BY <2>1 DEF ListsOK, Num
  <2> QED
    BY <2>1, <2>2, <1>7 DEF k
<1> QED
  BY <1>6, <1>7

-----------------------------------------------------------------------------
(* The types.                                                              *)

States == {"new", "live", "ended", "gone", "stray"}

LEMMA SameLists == ASSUME ListsOK, UNCHANGED list PROVE ListsOK'
BY DEF ListsOK, Num

LEMMA TypeStep == TypeOK /\ [Next]_vars => TypeOK'
<1> SUFFICES ASSUME TypeOK, [Next]_vars PROVE TypeOK'
  OBVIOUS
<1> USE Constants
<1> DEFINE Rest == /\ value' \in [Sems -> Nat] /\ sem' \in [Waiters -> Sems]
                   /\ main'.idx \in Int /\ main'.at \in {"setup", "overrun", "DeleteAllThread", "DeleteAllSemaphore", "DeleteAllMutex", "done"}
                   /\ _lock' \in BOOLEAN /\ sum' \in Int /\ proc' \in [Adders -> ProcStates]
           Lists == ListsOK' /\ listIdx' \in [Objects -> Nat]
           Stated == state' \in [Objects -> States]
<1>0. (Rest /\ Lists /\ Stated) => TypeOK'
  BY DEF TypeOK, States
<1> HIDE DEF Rest, Lists, Stated
<1>1. UNCHANGED <<list, listIdx>> => Lists
  BY SameLists DEF TypeOK, Lists
<1>2. ASSUME NEW o \in Objects, Created(o) PROVE Lists /\ Stated
  <2>1. Lists
    BY <1>2, Registers DEF TypeOK, Lists, Created
  <2>2. Stated
    BY <1>2 DEF TypeOK, Stated, Created, States
  <2> QED
    BY <2>1, <2>2
<1>3. ASSUME NEW o \in Objects, Unregister(o), UNCHANGED listIdx PROVE Lists
  BY <1>3, Unregisters DEF TypeOK, Lists
<1>4. ASSUME NEW o \in Objects, state' = [state EXCEPT ![o] = "gone"] PROVE Stated
  BY <1>4 DEF TypeOK, Stated, States
<1>5. Others /\ UNCHANGED value => Rest
  BY DEF TypeOK, Rest, Others
<1>6. CASE Setup
  <2>1. ASSUME NEW t \in Threads, CreateThread(t) PROVE TypeOK'
    <3>1. Rest
      BY <2>1, <1>5 DEF CreateThread
    <3>2. Lists
      BY <2>1, <1>1, <1>2 DEF CreateThread, Threads
    <3>3. Stated
      <4>1. CASE Created(t)
        BY <4>1, <2>1, <1>2 DEF Threads
      <4>2. CASE state' \in {[state EXCEPT ![t] = "stray"], [state EXCEPT ![t] = "gone"]}
        BY <4>2 DEF TypeOK, Stated, States
      <4> QED
        BY <2>1, <4>1, <4>2 DEF CreateThread
    <3> QED
      BY <1>0, <3>1, <3>2, <3>3
  <2>2. ASSUME NEW t \in Threads, DeleteThread(t) PROVE TypeOK'
    BY <2>2, <1>0, <1>3, <1>4, <1>5 DEF DeleteThread, Threads
  <2>3. ASSUME NEW s \in Sems, CreateSemaphore(s) PROVE TypeOK'
    <3>1. Rest
      BY <2>3 DEF TypeOK, Rest, Others, CreateSemaphore
    <3> QED
      BY <3>1, <2>3, <1>0, <1>2 DEF CreateSemaphore
  <2>4. ASSUME NEW s \in Sems, DeleteSemaphore(s) PROVE TypeOK'
    BY <2>4, <1>0, <1>3, <1>4, <1>5 DEF DeleteSemaphore
  <2>5. ASSUME NEW m \in Mutexes, CreateMutex(m) PROVE TypeOK'
    BY <2>5, <1>0, <1>2, <1>5 DEF CreateMutex
  <2>6. ASSUME NEW m \in Mutexes, DeleteMutex(m) PROVE TypeOK'
    BY <2>6, <1>0, <1>3, <1>4, <1>5 DEF DeleteMutex
  <2>7. CASE PostAllSemaphore
    <3>1. Rest
      <4>1. Last("thread") \in Int
        BY DEF TypeOK, ListsOK, Last, Kinds
      <4> QED
        BY <2>7, <4>1 DEF TypeOK, Rest, PostAllSemaphore, Phase
    <3>2. Lists /\ Stated
      BY <2>7, <1>1 DEF TypeOK, PostAllSemaphore, Stated, States
    <3> QED
      BY <1>0, <3>1, <3>2
  <2>8. ASSUME NEW o \in Objects, Overrun(o) PROVE TypeOK'
    <3>1. Rest
      BY <2>8 DEF TypeOK, Rest, Overrun, Phase
    <3>2. Lists /\ Stated
      BY <2>8, <1>1 DEF TypeOK, Overrun, Stated, States
    <3> QED
      BY <1>0, <3>1, <3>2
  <2> QED
    BY <1>6, <2>1, <2>2, <2>3, <2>4, <2>5, <2>6, <2>7, <2>8 DEF Setup
<1>7. CASE Shutdown
  <2>1. Last("thread") \in Int /\ Last("sem") \in Int /\ Last("mutex") \in Int
    BY DEF TypeOK, ListsOK, Last, Kinds
  <2>2. ASSUME NEW k, NEW at, NEW from, NEW next, Loop(k, at, from, next),
               at \in {"DeleteAllThread", "DeleteAllSemaphore", "DeleteAllMutex"},
               next[1] \in {"DeleteAllSemaphore", "DeleteAllMutex", "done"}, next[2] \in Int
        PROVE  TypeOK'
    <3>1. Rest
      BY <2>2 DEF TypeOK, Rest, Loop, Phase
    <3>2. Lists
      BY <2>2, <1>1 DEF Loop
    <3>3. Stated
      BY <2>2 DEF Loop, TypeOK, Stated, States
    <3> QED
      BY <1>0, <3>1, <3>2, <3>3
  <2>3. CASE DeleteAllThread
    BY <2>3, <2>1, <2>2 DEF DeleteAllThread
  <2>4. CASE DeleteAllSemaphore
    BY <2>4, <2>1, <2>2 DEF DeleteAllSemaphore
  <2>5. CASE DeleteAllMutex
    BY <2>5, <2>1, <2>2 DEF DeleteAllMutex
  <2> QED
    BY <1>7, <2>3, <2>4, <2>5 DEF Shutdown
<1>8. ASSUME NEW t \in Adders, threadProc(t) PROVE TypeOK'
  <2> USE <1>0, <1>1 DEF InProc
  <2>1. CASE Lock(t)
    BY <2>1 DEF Lock, TypeOK, ProcStates, Rest, Stated, States
  <2>2. CASE Read(t)
    BY <2>2 DEF Read, TypeOK, ProcStates, Rest, Stated, States
  <2>3. CASE Write(t)
    BY <2>3 DEF Write, TypeOK, ProcStates, Rest, Stated, States
  <2>4. CASE Unlock(t)
    BY <2>4 DEF Unlock, TypeOK, ProcStates, Rest, Stated, States
  <2>5. CASE Return(t)
    BY <2>5 DEF Return, Ends, TypeOK, ProcStates, Rest, Stated, States, Threads
  <2> QED
    BY <1>8, <2>1, <2>2, <2>3, <2>4, <2>5 DEF threadProc
<1>9. ASSUME NEW t \in Waiters, WaitSemaphore(t) PROVE TypeOK'
  <2>1. Rest
    BY <1>9 DEF WaitSemaphore, InProc, TypeOK, Rest
  <2>2. Lists /\ Stated
    BY <1>9, <1>1 DEF WaitSemaphore, InProc, Ends, TypeOK, Stated, States, Threads
  <2> QED
    BY <1>0, <2>1, <2>2
<1>10. CASE UNCHANGED vars
  BY <1>10, <1>0, <1>1 DEF vars, TypeOK, Rest, Stated, States
<1> QED
  BY <1>6, <1>7, <1>8, <1>9, <1>10 DEF Next

-----------------------------------------------------------------------------
(* What is in the lists.                                                   *)

LEMMA RegisteredMeans ==
  \A o \in Objects : Registered(o)' <=> state'[o] \in {"live", "ended"}
BY DEF Registered

LEMMA NothingPassed == \A k \in Kinds : \A i : main.at = "setup" => ~Passed(k, i)
BY DEF Passed, After, LoopOf, Kinds

(* A step that leaves the lists and main alone deletes nothing.            *)
LEMMA ListsUntouched ==
  ASSUME ListsAreLive, LoopsInside, UNCHANGED <<list, listIdx, main>>,
         \A o \in Objects : Registered(o)' <=> Registered(o),
         \A o \in Objects : state[o] = "gone" => state'[o] = "gone"
  PROVE  ListsAreLive' /\ LoopsInside'
<1>1. Located' /\ LoopsInside'
  BY DEF ListsAreLive, Located, LoopsInside, Last, Num
<1>2. \A k, i : Passed(k, i)' <=> Passed(k, i)
  BY DEF Passed
<1>3. PlacesRight'
  BY <1>2 DEF ListsAreLive, PlacesRight, Holds
<1> QED
  BY <1>1, <1>3 DEF ListsAreLive

LEMMA ListsCreated ==
  ASSUME TypeOK, ListsAreLive, main' = main, main.at = "setup",
         NEW o \in Objects, state[o] = "new", Created(o)
  PROVE  ListsAreLive'
<1> DEFINE n == Num(Kind(o))
<1>1. /\ n \notin DOMAIN list[Kind(o)] /\ n \in Nat
      /\ DOMAIN list'[Kind(o)] = DOMAIN list[Kind(o)] \union {n}
      /\ list'[Kind(o)][n] = o
      /\ \A k \in Kinds : \A i \in DOMAIN list[k] : i \in DOMAIN list'[k] /\ list'[k][i] = list[k][i]
      /\ \A k \in Kinds \ {Kind(o)} : list'[k] = list[k]
      /\ listIdx' = [listIdx EXCEPT ![o] = n]
  BY Registers DEF TypeOK, Created
<1>2. state' = [state EXCEPT ![o] = "live"]
  BY DEF Created
<1>3. state \in [Objects -> States] /\ listIdx \in [Objects -> Nat]
  BY DEF TypeOK, States
<1> HIDE DEF n
<1>4. \A p \in Objects : Registered(p)' <=> p = o \/ Registered(p)
  BY <1>2, <1>3 DEF Registered
<1>5. ~Registered(o)
  BY DEF Registered
<1>6. Located'
  <2> SUFFICES ASSUME NEW p \in Objects, Registered(p)'
      PROVE  listIdx'[p] \in DOMAIN list'[Kind(p)] /\ list'[Kind(p)][listIdx'[p]] = p
    BY DEF Located
  <2>1. CASE p = o
    BY <2>1, <1>1, <1>3
  <2>2. CASE p # o
    <3>1. Registered(p) /\ listIdx'[p] = listIdx[p] /\ Kind(p) \in Kinds
      BY <2>2, <1>1, <1>3, <1>4, KindOf
    <3>2. listIdx[p] \in DOMAIN list[Kind(p)] /\ list[Kind(p)][listIdx[p]] = p
      BY <3>1 DEF ListsAreLive, Located
    <3> QED
      BY <3>1, <3>2, <1>1
  <2> QED
    BY <2>1, <2>2
<1>7. PlacesRight'
  <2> SUFFICES ASSUME NEW k \in Kinds, NEW i \in DOMAIN list'[k], NEW p,
                      p = list'[k][i], p # NoObject
      PROVE  Holds(k, i, p)'
    BY DEF PlacesRight, Holds
  <2>1. ~Passed(k, i)'
    BY NothingPassed DEF Passed
  <2>2. CASE i \in DOMAIN list[k]
    <3>1. list[k][i] = p /\ p # NoObject
      BY <2>2, <1>1
    <3>2. p \in Objects /\ Kind(p) = k /\ listIdx[p] = i /\ Registered(p)
      BY <2>2, <3>1, NothingPassed DEF ListsAreLive, PlacesRight, Holds
    <3>3. p # o
      BY <3>2, <1>5
    <3>4. listIdx'[p] = i /\ Registered(p)'
      BY <3>2, <3>3, <1>1, <1>3, <1>4
    <3> QED
      BY <3>2, <3>4, <2>1 DEF Holds
  <2>3. CASE i \notin DOMAIN list[k]
    <3>1. k = Kind(o) /\ i = n
      BY <2>3, <1>1
    <3>2. p = o /\ listIdx'[p] = i /\ Registered(p)'
      BY <3>1, <1>1, <1>3, <1>4
    <3> QED
      BY <3>1, <3>2, <2>1 DEF Holds
  <2> QED
    BY <2>2, <2>3
<1> QED
  BY <1>6, <1>7 DEF ListsAreLive

LEMMA ListsDeleted ==
  ASSUME TypeOK, ListsAreLive, main' = main, main.at = "setup", listIdx' = listIdx,
         NEW o \in Objects, Registered(o), Unregister(o), state' = [state EXCEPT ![o] = "gone"]
  PROVE  ListsAreLive'
<1>1. /\ \A k \in Kinds : DOMAIN list'[k] = DOMAIN list[k]
      /\ \A k \in Kinds : \A i \in DOMAIN list[k] :
           list'[k][i] = IF k = Kind(o) /\ i = listIdx[o] THEN NoObject ELSE list[k][i]
  BY Unregisters DEF TypeOK
<1>2. state \in [Objects -> States] /\ listIdx \in [Objects -> Nat]
  BY DEF TypeOK, States
<1>3. \A p \in Objects : Registered(p)' <=> p # o /\ Registered(p)
  BY <1>2 DEF Registered
<1>4. listIdx[o] \in DOMAIN list[Kind(o)] /\ list[Kind(o)][listIdx[o]] = o
  BY DEF ListsAreLive, Located
<1>5. Located'
  <2> SUFFICES ASSUME NEW p \in Objects, Registered(p)'
      PROVE  listIdx[p] \in DOMAIN list'[Kind(p)] /\ list'[Kind(p)][listIdx[p]] = p
    BY DEF Located
  <2>1. p # o /\ Registered(p) /\ Kind(p) \in Kinds
    BY <1>3, KindOf
  <2>2. listIdx[p] \in DOMAIN list[Kind(p)] /\ list[Kind(p)][listIdx[p]] = p
    BY <2>1 DEF ListsAreLive, Located
  <2> QED
    BY <2>1, <2>2, <1>1, <1>4
<1>6. PlacesRight'
  <2> SUFFICES ASSUME NEW k \in Kinds, NEW i \in DOMAIN list'[k], NEW p,
                      p = list'[k][i], p # NoObject
      PROVE  Holds(k, i, p)'
    BY DEF PlacesRight, Holds
  <2>1. ~Passed(k, i)' /\ i \in DOMAIN list[k]
    BY NothingPassed, <1>1 DEF Passed
  <2>2. list[k][i] = p /\ p # NoObject /\ ~(k = Kind(o) /\ i = listIdx[o])
    BY <2>1, <1>1
  <2>3. p \in Objects /\ Kind(p) = k /\ listIdx[p] = i /\ Registered(p)
    BY <2>1, <2>2, NothingPassed DEF ListsAreLive, PlacesRight, Holds
  <2>4. p # o
    BY <2>2, <2>3
  <2>5. Registered(p)'
    BY <2>3, <2>4, <1>3
  <2> QED
    BY <2>1, <2>3, <2>5, <1>2 DEF Holds
<1> QED
  BY <1>5, <1>6 DEF ListsAreLive

(* A loop deletes what is in a place and goes on to the place below, or to *)
(* the last place of the next list.                                        *)
LEMMA ListsLooped ==
  ASSUME TypeOK, ListsAreLive, LoopsInside,
         NEW k \in Kinds, NEW from \in {"live", "ended"}, NEW next,
         Loop(k, LoopOf[k], from, next),
         \/ k = "thread" /\ next = <<"DeleteAllSemaphore", Last("sem")>>
         \/ k = "sem" /\ next = <<"DeleteAllMutex", Last("mutex")>>
         \/ k = "mutex" /\ next = <<"done", -1>>
  PROVE  ListsAreLive' /\ LoopsInside'
<1>1. /\ main.at = LoopOf[k] /\ UNCHANGED <<list, listIdx>> /\ main.idx \in Int
      /\ state \in [Objects -> States] /\ listIdx \in [Objects -> Nat]
  BY DEF Loop, TypeOK, States
<1>2. \A j \in Kinds : DOMAIN list[j] = 0..Last(j) /\ Last(j) \in Int /\ Last(j)' = Last(j)
  BY <1>1 DEF TypeOK, ListsOK, Last, Num
<1>3. main.at # "overrun" /\ main.idx <= Last(k)
  BY <1>1 DEF LoopOf, Kinds, LoopsInside
<1>4. CASE main.idx < 0
  <2>1. main' = [at |-> next[1], idx |-> next[2]] /\ state' = state
    BY <1>1, <1>4 DEF Loop, Phase
  <2>2. \A o : Registered(o)' <=> Registered(o)
    BY <2>1 DEF Registered
  <2>3. ASSUME NEW j \in Kinds, NEW i \in DOMAIN list[j] PROVE Passed(j, i)' <=> Passed(j, i)
    <3>1. i \in 0..Last(j) /\ i > main.idx
      BY <1>1, <1>2, <1>4
    <3>2. CASE k = "thread"
      <4>1. main.at = "DeleteAllThread" /\ main'.at = "DeleteAllSemaphore" /\ main'.idx = Last("sem")
        BY <1>1, <2>1, <3>2 DEF LoopOf
      <4> QED
        BY <4>1, <1>2, <3>1 DEF Passed, LoopOf, After, Kinds
    <3>3. CASE k = "sem"
      <4>1. main.at = "DeleteAllSemaphore" /\ main'.at = "DeleteAllMutex" /\ main'.idx = Last("mutex")
        BY <1>1, <2>1, <3>3 DEF LoopOf
      <4> QED
        BY <4>1, <1>2, <3>1 DEF Passed, LoopOf, After, Kinds
    <3>4. CASE k = "mutex"
      <4>1. main.at = "DeleteAllMutex" /\ main'.at = "done"
        BY <1>1, <2>1, <3>4 DEF LoopOf
      <4> QED
        BY <4>1, <1>2, <3>1 DEF Passed, LoopOf, After, Kinds
    <3> QED
      BY <3>2, <3>3, <3>4
  <2>4. Located'
    BY <1>1, <2>1, <2>2 DEF ListsAreLive, Located
  <2>5. PlacesRight'
    BY <1>1, <1>3, <2>1, <2>2, <2>3 DEF ListsAreLive, PlacesRight, Holds
  <2>6. LoopsInside'
    BY <1>2, <2>1 DEF LoopsInside, LoopOf, Kinds
  <2> QED
    BY <2>4, <2>5, <2>6 DEF ListsAreLive
<1>5. CASE main.idx >= 0
  <2> DEFINE x == list[k][main.idx]
  <2>1. main' = [at |-> LoopOf[k], idx |-> main.idx - 1]
    BY <1>1, <1>5 DEF Loop, Phase
  <2>2. IF x = NoObject THEN state' = state ELSE state[x] = from /\ state' = [state EXCEPT ![x] = "gone"]
    BY <1>1, <1>5 DEF Loop
  <2>3. main.idx \in DOMAIN list[k]
    BY <1>1, <1>2, <1>3, <1>5
  <2>4. x # NoObject => x \in Objects /\ Kind(x) = k /\ listIdx[x] = main.idx
    BY <1>3, <2>3 DEF ListsAreLive, PlacesRight, Holds
  <2> HIDE DEF x
  <2>5. \A o \in Objects : o # NoObject /\ (Registered(o)' <=> o # x /\ Registered(o))
    BY <1>1, <2>2, Constants DEF Registered
  <2>6. \A o \in Objects : state[o] = "gone" \/ (o = x /\ x # NoObject) => state'[o] = "gone"
    BY <1>1, <2>2
  <2>7. ASSUME NEW j \in Kinds, NEW i \in DOMAIN list[j]
        PROVE  Passed(j, i)' <=> Passed(j, i) \/ (j = k /\ i = main.idx)
    <3>1. i \in Int
      BY <1>2
    <3> QED
      BY <1>1, <2>1, <3>1 DEF Passed, LoopOf, After, Kinds
  <2>8. Located'
    BY <1>1, <2>5 DEF ListsAreLive, Located
  <2>9. PlacesRight'
    <3> SUFFICES ASSUME NEW j \in Kinds, NEW i \in DOMAIN list[j], list[j][i] # NoObject
        PROVE  Holds(j, i, list[j][i])'
      BY <1>1 DEF PlacesRight
    <3> DEFINE o == list[j][i]
    <3>1. Holds(j, i, o)
      BY <1>3 DEF ListsAreLive, PlacesRight
    <3>2. o \in Objects /\ o # NoObject
      BY <3>1 DEF Holds
    <3> HIDE DEF o
    <3>3. CASE j = k /\ i = main.idx
      <4>1. o = x
        BY <3>3 DEF o, x
      <4> QED
        BY <1>1, <3>1, <3>2, <3>3, <4>1, <2>6, <2>7 DEF Holds, o
    <3>4. CASE ~(j = k /\ i = main.idx)
      <4>1. Passed(j, i)' <=> Passed(j, i)
        BY <2>7, <3>4
      <4>2. o # x
        BY <3>1, <3>2, <3>4, <2>4 DEF Holds
      <4> QED
        BY <1>1, <3>1, <3>2, <4>1, <4>2, <2>5, <2>6 DEF Holds, o
    <3> QED
      BY <3>3, <3>4
  <2>10. LoopsInside'
    BY <1>1, <1>2, <1>3, <2>1 DEF LoopsInside
  <2> QED
    BY <2>8, <2>9, <2>10 DEF ListsAreLive
<1> QED
  BY <1>1, <1>4, <1>5

ListsInv == ListsAreLive /\ LoopsInside

LEMMA ListsStep == TypeOK /\ ListsInv /\ [Next]_vars => ListsInv'
<1> SUFFICES ASSUME TypeOK, ListsAreLive, LoopsInside, [Next]_vars
    PROVE  ListsAreLive' /\ LoopsInside'
  BY DEF ListsInv
<1> USE Constants
<1>1. state \in [Objects -> States]
  BY DEF TypeOK, States
<1>2. main'.at = "setup" => LoopsInside'
  BY DEF LoopsInside, LoopOf, Kinds
<1>3. CASE Setup
  <2>1. ASSUME NEW t \in Threads, CreateThread(t) PROVE ListsInv'
    <3>1. CASE Created(t)
      BY <3>1, <2>1, <1>2, ListsCreated DEF CreateThread, Creatable, InSetup, Others, Threads, ListsInv
    <3>2. CASE ~Created(t)
      <4>1. state' \in {[state EXCEPT ![t] = "stray"], [state EXCEPT ![t] = "gone"]} /\ state[t] = "new"
        BY <3>2, <2>1 DEF CreateThread, Creatable
      <4>2. \A o \in Objects : (Registered(o)' <=> Registered(o)) /\ (state[o] = "gone" => state'[o] = "gone")
        BY <4>1, <1>1 DEF Registered
      <4> QED
        BY <4>2, <3>2, <2>1, ListsUntouched DEF CreateThread, Others, ListsInv
    <3> QED
      BY <3>1, <3>2
  <2>2. ASSUME NEW t \in Threads, DeleteThread(t) PROVE ListsInv'
    BY <2>2, <1>2, ListsDeleted DEF DeleteThread, InSetup, Others, Threads, Registered, ListsInv
  <2>3. ASSUME NEW s \in Sems, CreateSemaphore(s) PROVE ListsInv'
    BY <2>3, <1>2, ListsCreated DEF CreateSemaphore, Creatable, InSetup, Others, ListsInv
  <2>4. ASSUME NEW s \in Sems, DeleteSemaphore(s) PROVE ListsInv'
    BY <2>4, <1>2, ListsDeleted DEF DeleteSemaphore, InSetup, Others, Registered, ListsInv
  <2>5. ASSUME NEW m \in Mutexes, CreateMutex(m) PROVE ListsInv'
    BY <2>5, <1>2, ListsCreated DEF CreateMutex, Creatable, InSetup, Others, ListsInv
  <2>6. ASSUME NEW m \in Mutexes, DeleteMutex(m) PROVE ListsInv'
    BY <2>6, <1>2, ListsDeleted DEF DeleteMutex, InSetup, Others, Registered, ListsInv
  <2>7. ASSUME NEW o \in Objects, Overrun(o) PROVE ListsInv'
    <3>1. main' = [at |-> "overrun", idx |-> -1] /\ UNCHANGED <<list, listIdx>>
      BY <2>7 DEF Overrun, Phase
    <3>2. \A p \in Objects : Registered(p)' <=> Registered(p)
      BY <2>7, <1>1 DEF Overrun, Creatable, Registered
    <3>3. Located' /\ PlacesRight' /\ LoopsInside'
      BY <3>1, <3>2 DEF ListsAreLive, Located, PlacesRight, LoopsInside, LoopOf, Kinds
    <3> QED
      BY <3>3 DEF ListsInv, ListsAreLive
  <2>8. CASE PostAllSemaphore
    <3>1. /\ main' = [at |-> "DeleteAllThread", idx |-> Last("thread")] /\ main.at = "setup"
          /\ UNCHANGED <<list, listIdx, state>>
      BY <2>8 DEF PostAllSemaphore, Phase, InSetup
    <3>2. DOMAIN list["thread"] = 0..Last("thread") /\ Last("thread") \in Int /\ Last("thread")' = Last("thread")
      BY <3>1 DEF TypeOK, ListsOK, Last, Num, Kinds
    <3>3. \A k \in Kinds : \A i \in DOMAIN list[k] : ~Passed(k, i) /\ ~Passed(k, i)'
      BY <3>1, <3>2 DEF Passed, After, LoopOf, Kinds
    <3>4. \A o : Registered(o)' <=> Registered(o)
      BY <3>1 DEF Registered
    <3>5. LoopsInside'
      BY <3>1, <3>2 DEF LoopsInside, LoopOf, Kinds
    <3>6. Located'
      BY <3>1, <3>4 DEF ListsAreLive, Located
    <3>7. PlacesRight'
      BY <3>1, <3>3, <3>4 DEF ListsAreLive, PlacesRight, Holds
    <3> QED
      BY <3>5, <3>6, <3>7 DEF ListsInv, ListsAreLive
  <2> QED
    BY <1>3, <2>1, <2>2, <2>3, <2>4, <2>5, <2>6, <2>7, <2>8 DEF Setup, ListsInv
<1>4. CASE Shutdown
  <2>1. /\ LoopOf["thread"] = "DeleteAllThread" /\ LoopOf["sem"] = "DeleteAllSemaphore"
        /\ LoopOf["mutex"] = "DeleteAllMutex" /\ Kinds = {"thread", "sem", "mutex"}
    BY DEF LoopOf, Kinds
  <2>2. CASE DeleteAllThread
    <3>1. Loop("thread", LoopOf["thread"], "ended", <<"DeleteAllSemaphore", Last("sem")>>)
      BY <2>1, <2>2 DEF DeleteAllThread
    <3> QED
      BY <2>1, <3>1, ListsLooped
  <2>3. CASE DeleteAllSemaphore
    <3>1. Loop("sem", LoopOf["sem"], "live", <<"DeleteAllMutex", Last("mutex")>>)
      BY <2>1, <2>3 DEF DeleteAllSemaphore
    <3> QED
      BY <2>1, <3>1, ListsLooped
  <2>4. CASE DeleteAllMutex
    <3>1. Loop("mutex", LoopOf["mutex"], "live", <<"done", -1>>)
      BY <2>1, <2>4 DEF DeleteAllMutex
    <3> QED
      BY <2>1, <3>1, ListsLooped
  <2> QED
    BY <1>4, <2>2, <2>3, <2>4 DEF Shutdown
<1>5. ASSUME NEW t \in Threads, Ends(t), Runs(t), UNCHANGED <<list, listIdx, main>> PROVE ListsInv'
  <2>1. \A o \in Objects : (Registered(o)' <=> Registered(o)) /\ (state[o] = "gone" => state'[o] = "gone")
    BY <1>5, <1>1 DEF Ends, Runs, Registered, Threads
  <2> QED
    BY <2>1, <1>5, ListsUntouched DEF ListsInv
<1>6. ASSUME UNCHANGED <<list, listIdx, main, state>> PROVE ListsInv'
  BY <1>6, ListsUntouched DEF Registered, ListsInv
<1>7. ASSUME NEW t \in Adders, threadProc(t) PROVE ListsInv'
  BY <1>7, <1>5, <1>6 DEF threadProc, Lock, Read, Write, Unlock, Return, InProc
<1>8. ASSUME NEW t \in Waiters, WaitSemaphore(t) PROVE ListsInv'
  BY <1>8, <1>5 DEF WaitSemaphore, InProc
<1> QED
  BY <1>3, <1>4, <1>6, <1>7, <1>8 DEF Next, vars, ListsInv

-----------------------------------------------------------------------------
(* The threads that are joined.                                            *)

LEMMA JoinedStep == TypeOK /\ ListsInv /\ Joined /\ [Next]_vars => Joined'
<1> SUFFICES ASSUME TypeOK, ListsInv, Joined, [Next]_vars PROVE Joined'
  OBVIOUS
<1> USE Constants
<1>1. state \in [Objects -> States] /\ listIdx \in [Objects -> Nat]
  BY DEF TypeOK, States
<1>2. ASSUME main'.at \in {"setup", "overrun"} PROVE Joined'
  BY <1>2 DEF Joined
<1>3. ASSUME UNCHANGED <<main, listIdx>>, \A t \in Threads : Registered(t)' => Registered(t) PROVE Joined'
  BY <1>3 DEF Joined
<1>4. CASE Setup
  <2>1. CASE PostAllSemaphore
    <3>1. main' = [at |-> "DeleteAllThread", idx |-> Num("thread") - 1] /\ UNCHANGED <<state, listIdx>>
      BY <2>1 DEF PostAllSemaphore, Phase, Last
    <3>2. ASSUME NEW t \in Threads, Registered(t) PROVE listIdx[t] <= Num("thread") - 1
      <4>1. listIdx[t] \in DOMAIN list["thread"]
        BY <3>2, KindOf DEF ListsInv, ListsAreLive, Located
      <4> QED
        BY <4>1 DEF TypeOK, ListsOK, Kinds
    <3> QED
      BY <3>1, <3>2 DEF Joined, Registered
  <2>2. CASE ~PostAllSemaphore
    BY <1>2, <1>4, <2>2 DEF Setup, CreateThread, DeleteThread, CreateSemaphore, DeleteSemaphore,
                            CreateMutex, DeleteMutex, Creatable, Overrun, Phase, InSetup, Others
  <2> QED
    BY <2>1, <2>2
<1>5. CASE DeleteAllThread
  <2>1. main.at = "DeleteAllThread" /\ listIdx' = listIdx /\ main.idx \in Int
    BY <1>5 DEF DeleteAllThread, Loop, TypeOK
  <2>2. CASE main.idx < 0
    <3>1. main'.at = "DeleteAllSemaphore" /\ state' = state
      BY <1>5, <2>2 DEF DeleteAllThread, Loop, Phase
    <3>2. \A t \in Threads : ~Registered(t)
      BY <2>1, <2>2, <1>1 DEF Joined, Threads
    <3> QED
      BY <3>1, <3>2 DEF Joined, Registered
  <2>3. CASE main.idx >= 0
    <3> DEFINE o == list["thread"][main.idx]
    <3>1. main' = [at |-> "DeleteAllThread", idx |-> main.idx - 1]
      BY <1>5, <2>1, <2>3 DEF DeleteAllThread, Loop, Phase
    <3>2. state' = IF o = NoObject THEN state ELSE [state EXCEPT ![o] = "gone"]
      BY <1>5, <2>1, <2>3 DEF DeleteAllThread, Loop
    <3>3. ASSUME NEW t \in Threads, Registered(t)' PROVE listIdx[t] <= main.idx - 1
      <4>1. Registered(t) /\ t # o
        <5>1. state'[t] \in {"live", "ended"} /\ t \in Objects /\ t # NoObject
          BY <3>3 DEF Registered, Threads
        <5>2. CASE o = NoObject
          BY <5>1, <5>2, <3>2 DEF Registered
        <5>3. CASE o # NoObject
          BY <5>1, <5>3, <3>2, <1>1 DEF Registered
        <5> QED
          BY <5>2, <5>3
      <4>2. list["thread"][listIdx[t]] = t
        BY <4>1, KindOf DEF ListsInv, ListsAreLive, Located, Threads
      <4>3. listIdx[t] # main.idx
        BY <4>1, <4>2
      <4>4. listIdx[t] <= main.idx /\ listIdx[t] \in Nat
        BY <4>1, <2>1, <1>1 DEF Joined, Threads
      <4> QED
        BY <4>3, <4>4, <2>1
    <3> QED
      BY <3>1, <3>3, <2>1 DEF Joined
  <2> QED
    BY <2>1, <2>2, <2>3
<1>6. ASSUME NEW k, NEW from, NEW at, NEW next, Loop(k, at, from, next),
             at \in {"DeleteAllSemaphore", "DeleteAllMutex"}, next[1] \in {"DeleteAllMutex", "done"}
      PROVE  Joined'
  <2>1. /\ main.at \notin {"setup", "overrun", "DeleteAllThread"}
        /\ main'.at \notin {"setup", "overrun", "DeleteAllThread"}
    BY <1>6 DEF Loop, Phase
  <2>2. \A t \in Threads : Registered(t)' => Registered(t)
    BY <1>6, <1>1 DEF Loop, Registered, Threads
  <2> QED
    BY <2>1, <2>2 DEF Joined
<1>7. CASE Shutdown
  BY <1>5, <1>6, <1>7 DEF Shutdown, DeleteAllSemaphore, DeleteAllMutex
<1>8. ASSUME NEW t \in Threads, Ends(t), Runs(t), UNCHANGED <<listIdx, main>> PROVE Joined'
  BY <1>1, <1>3, <1>8 DEF Ends, Runs, Registered, Threads
<1>9. ASSUME UNCHANGED <<listIdx, main, state>> PROVE Joined'
  BY <1>3, <1>9 DEF Registered
<1>10. ASSUME NEW t \in Adders, threadProc(t) PROVE Joined'
  BY <1>8, <1>9, <1>10 DEF threadProc, Lock, Read, Write, Unlock, Return, InProc
<1>11. ASSUME NEW t \in Waiters, WaitSemaphore(t) PROVE Joined'
  BY <1>8, <1>11 DEF WaitSemaphore, InProc
<1> QED
  BY <1>4, <1>7, <1>9, <1>10, <1>11 DEF Next, vars

-----------------------------------------------------------------------------
(* The lock and the sum.                                                   *)

AdditionInv == AddersInv /\ LockInv /\ SumInv

(* A step of another kind changes the state of a thread only.              *)
LEMMA AdditionUntouched ==
  ASSUME AdditionInv, UNCHANGED <<_lock, proc, sum>>,
         \A t \in Adders : /\ state'[t] \in {"new", "ended", "gone"} => state[t] \in {"new", "ended", "gone"}
                           /\ state'[t] = "new" => state[t] = "new",
         state \in [Objects -> States], state' \in [Objects -> States]
  PROVE  AdditionInv'
<1>1. \A t \in Adders : ~Runs(t)' => ~Runs(t)
  BY Constants DEF Runs, States, Threads
<1>2. AddersInv'
  BY <1>1 DEF AdditionInv, AddersInv
<1>3. LockInv'
  BY DEF AdditionInv, LockInv
<1>4. Made' = Made
  BY DEF Made, Additions
<1> QED
  BY <1>2, <1>3, <1>4 DEF AdditionInv, SumInv

(* The additions made are finitely many; adding a step makes one more.     *)
LEMMA MadeFinite == IsFiniteSet(Made)
<1>1. IsFiniteSet(1..inc_per_thread) /\ IsFiniteSet(Adders)
  BY Constants, FS_Interval
<1>2. IsFiniteSet(Adders \X (1..inc_per_thread))
  BY <1>1, FS_Product
<1> QED
  BY <1>2, FS_Subset DEF Made

LEMMA WriteAdds ==
  ASSUME TypeOK, AdditionInv, NEW t \in Adders, Write(t)
  PROVE  SumInv'
<1> DEFINE n == proc[t].added + 1
<1>1. proc[t].at = "write" /\ proc' = [proc EXCEPT ![t].at = "unlock"] /\ sum' = proc[t].read + 1
  BY DEF Write
<1>2. proc \in [Adders -> ProcStates] /\ inc_per_thread \in Nat /\ sum \in Int
  BY Constants DEF TypeOK
<1>3. proc[t].read = sum /\ n \in 1..inc_per_thread
  BY <1>1, <1>2 DEF AdditionInv, LockInv, AddersInv, ProcStates
<1>4. Additions(t) = n - 1 /\ Additions(t)' = n
  BY <1>1, <1>2 DEF Additions, ProcStates
<1>5. \A u \in Adders \ {t} : Additions(u)' = Additions(u)
  BY <1>1, <1>2 DEF Additions
<1> HIDE DEF n
<1>6. Made' = Made \union {<<t, n>>} /\ <<t, n>> \notin Made
  BY <1>3, <1>4, <1>5, <1>2 DEF Made
<1>7. Cardinality(Made') = Cardinality(Made) + 1
  BY <1>6, MadeFinite, FS_AddElement
<1> QED
  BY <1>1, <1>3, <1>7 DEF AdditionInv, SumInv

LEMMA AdditionStep == TypeOK /\ Joined /\ AdditionInv /\ [Next]_vars => AdditionInv'
<1> SUFFICES ASSUME TypeOK, Joined, AdditionInv, [Next]_vars PROVE AdditionInv'
  OBVIOUS
<1> USE Constants
<1>0. TypeOK'
  BY TypeStep
<1>1. /\ state \in [Objects -> States] /\ state' \in [Objects -> States]
      /\ proc \in [Adders -> ProcStates] /\ proc' \in [Adders -> ProcStates]
  BY <1>0 DEF TypeOK, States
<1>2. CASE Setup
  <2>1. UNCHANGED <<_lock, proc, sum>>
    BY <1>2 DEF Setup, CreateThread, DeleteThread, CreateSemaphore, DeleteSemaphore,
                CreateMutex, DeleteMutex, PostAllSemaphore, Overrun, Others
  <2>2. ASSUME NEW t \in Threads, CreateThread(t) PROVE AdditionInv'
    <3>1. CASE Created(t)
      <4>1. state' = [state EXCEPT ![t] = "live"]
        BY <3>1 DEF Created
      <4> QED
        BY <4>1, <2>1, <1>1, AdditionUntouched DEF Threads
    <3>2. CASE ~Created(t)
      <4>1. state[t] = "new" /\ state' \in {[state EXCEPT ![t] = "stray"], [state EXCEPT ![t] = "gone"]}
        BY <3>2, <2>2 DEF CreateThread, Creatable
      <4> QED
        BY <4>1, <2>1, <1>1, AdditionUntouched DEF Threads
    <3> QED
      BY <3>1, <3>2
  <2>3. ASSUME NEW t \in Threads, DeleteThread(t) PROVE AdditionInv'
    <3>1. state[t] = "ended" /\ state' = [state EXCEPT ![t] = "gone"]
      BY <2>3 DEF DeleteThread
    <3> QED
      BY <3>1, <2>1, <1>1, AdditionUntouched DEF Threads
  <2>4. ASSUME NEW o \in Sems \union Mutexes,
               \/ state' = [state EXCEPT ![o] = "live"]
               \/ state' = [state EXCEPT ![o] = "gone"]
        PROVE  AdditionInv'
    <3>1. \A t \in Adders : state'[t] = state[t]
      BY <2>4, <1>1 DEF Threads
    <3> QED
      BY <3>1, <2>1, <1>1, AdditionUntouched
  <2>5. CASE PostAllSemaphore
    BY <2>1, <2>5, <1>1, AdditionUntouched DEF PostAllSemaphore
  <2>6. ASSUME NEW o \in Objects, Overrun(o) PROVE AdditionInv'
    <3>1. state[o] = "new" /\ state' = [state EXCEPT ![o] = "stray"]
      BY <2>6 DEF Overrun, Creatable
    <3> QED
      BY <3>1, <2>1, <1>1, AdditionUntouched DEF Threads
  <2> QED
    BY <1>2, <2>2, <2>3, <2>4, <2>5, <2>6
       DEF Setup, CreateSemaphore, DeleteSemaphore, CreateMutex, DeleteMutex, Created
<1>3. ASSUME NEW k, NEW at, NEW from, NEW next, Loop(k, at, from, next), from \in {"live", "ended"},
             from = "live" => \A t \in Adders : state[t] # "live"
      PROVE  AdditionInv'
  <2>1. UNCHANGED <<_lock, proc, sum>>
    BY <1>3 DEF Loop
  <2>2. \A t \in Adders : /\ state'[t] \in {"new", "ended", "gone"} => state[t] \in {"new", "ended", "gone"}
                          /\ state'[t] = "new" => state[t] = "new"
    BY <1>3, <1>1 DEF Loop, Threads
  <2> QED
    BY <2>1, <2>2, <1>1, AdditionUntouched
<1>4. CASE Shutdown
  <2>1. main.at \in {"DeleteAllSemaphore", "DeleteAllMutex"} => \A t \in Adders : state[t] # "live"
    BY DEF Joined, Registered
  <2>2. CASE DeleteAllThread
    BY <2>2, <1>3 DEF DeleteAllThread
  <2>3. CASE DeleteAllSemaphore
    <3>1. main.at = "DeleteAllSemaphore"
      BY <2>3 DEF DeleteAllSemaphore, Loop
    <3> QED
      BY <3>1, <2>1, <2>3, <1>3 DEF DeleteAllSemaphore
  <2>4. CASE DeleteAllMutex
    <3>1. main.at = "DeleteAllMutex"
      BY <2>4 DEF DeleteAllMutex, Loop
    <3> QED
      BY <3>1, <2>1, <2>4, <1>3 DEF DeleteAllMutex
  <2> QED
    BY <1>4, <2>2, <2>3, <2>4 DEF Shutdown
<1>5. ASSUME NEW t \in Adders, threadProc(t) PROVE AdditionInv'
  <2>1. t \in Objects /\ Runs(t)
    BY <1>5 DEF threadProc, Lock, Read, Write, Unlock, Return, Threads
  <2>2. CASE Lock(t)
    <3>1. /\ proc' = [proc EXCEPT ![t].at = "read"] /\ proc[t].at = "lock"
          /\ proc[t].added < inc_per_thread /\ ~_lock /\ _lock' /\ UNCHANGED <<state, sum>>
      BY <2>2 DEF Lock, Acquires
    <3>2. AddersInv'
      BY <3>1, <2>1, <1>1 DEF AdditionInv, AddersInv, Runs, ProcStates, Threads, States
    <3>3. LockInv'
      BY <3>1, <1>1 DEF AdditionInv, LockInv, ProcStates
    <3>4. \A u \in Adders : Additions(u)' = Additions(u)
      BY <3>1, <1>1 DEF Additions, ProcStates
    <3> QED
      BY <3>1, <3>2, <3>3, <3>4 DEF AdditionInv, SumInv, Made
  <2>3. CASE Read(t)
    <3>1. /\ proc' = [proc EXCEPT ![t].at = "write", ![t].read = sum] /\ proc[t].at = "read"
          /\ UNCHANGED <<state, sum, _lock>>
      BY <2>3 DEF Read, InProc
    <3>2. AddersInv'
      BY <3>1, <2>1, <1>1 DEF AdditionInv, AddersInv, Runs, ProcStates, Threads, States
    <3>3. LockInv'
      BY <3>1, <1>1 DEF AdditionInv, LockInv, ProcStates
    <3>4. \A u \in Adders : Additions(u)' = Additions(u)
      BY <3>1, <1>1 DEF Additions, ProcStates
    <3> QED
      BY <3>1, <3>2, <3>3, <3>4 DEF AdditionInv, SumInv, Made
  <2>4. CASE Write(t)
    <3>1. /\ proc' = [proc EXCEPT ![t].at = "unlock"] /\ proc[t].at = "write" /\ UNCHANGED <<state, _lock>>
      BY <2>4 DEF Write, InProc
    <3>2. AddersInv'
      BY <3>1, <2>1, <1>1 DEF AdditionInv, AddersInv, Runs, ProcStates, Threads, States
    <3>3. LockInv'
      BY <3>1, <1>1 DEF AdditionInv, LockInv, ProcStates
    <3> QED
      BY <3>2, <3>3, <2>4, WriteAdds DEF AdditionInv
  <2>5. CASE Unlock(t)
    <3>1. /\ proc' = [proc EXCEPT ![t].at = "lock", ![t].added = @ + 1] /\ proc[t].at = "unlock"
          /\ UNCHANGED <<state, sum>>
      BY <2>5 DEF Unlock, InProc
    <3>2. AddersInv'
      BY <3>1, <2>1, <1>1 DEF AdditionInv, AddersInv, Runs, ProcStates, Threads, States
    <3>3. \A u \in Adders : proc'[u].at = "lock"
      BY <3>1, <1>1 DEF AdditionInv, LockInv, ProcStates
    <3>4. \A u \in Adders : Additions(u)' = Additions(u)
      BY <3>1, <1>1 DEF Additions, ProcStates
    <3> QED
      BY <3>1, <3>2, <3>3, <3>4 DEF AdditionInv, SumInv, Made, LockInv
  <2>6. CASE Return(t)
    <3>1. /\ UNCHANGED <<_lock, proc, sum>> /\ proc[t].at = "lock" /\ proc[t].added = inc_per_thread
          /\ state'[t] \in {"ended", "gone"} /\ \A u \in Adders \ {t} : state'[u] = state[u]
      BY <2>6, <2>1, <1>1 DEF Return, Ends, Runs, Threads
    <3>2. AddersInv'
      BY <3>1, <2>1, <1>1 DEF AdditionInv, AddersInv, Runs
    <3>3. LockInv' /\ Made' = Made
      BY <3>1 DEF AdditionInv, LockInv, Made, Additions
    <3> QED
      BY <3>1, <3>2, <3>3 DEF AdditionInv, SumInv
  <2> QED
    BY <1>5, <2>2, <2>3, <2>4, <2>5, <2>6 DEF threadProc
<1>6. ASSUME NEW t \in Waiters, WaitSemaphore(t) PROVE AdditionInv'
  <2>1. UNCHANGED <<_lock, proc, sum>> /\ \A u \in Adders : state'[u] = state[u]
    BY <1>6, <1>1 DEF WaitSemaphore, Ends, Threads
  <2> QED
    BY <2>1, <1>1, AdditionUntouched
<1>7. CASE UNCHANGED vars
  BY <1>7, <1>1, AdditionUntouched DEF vars
<1> QED
  BY <1>2, <1>4, <1>5, <1>6, <1>7 DEF Next

-----------------------------------------------------------------------------
LEMMA InitInv == Init => ThreadsInv
<1> SUFFICES ASSUME Init PROVE ThreadsInv
  OBVIOUS
<1> USE Constants
<1>1. \A k \in Kinds : list[k] = [i \in {} |-> NoObject] /\ DOMAIN list[k] = {} /\ Num(k) = 0
  BY FS_EmptySet DEF Init, Num
<1>2. ListsOK
  BY <1>1 DEF Init, ListsOK
<1>3. TypeOK
  <2>1. proc \in [Adders -> ProcStates] /\ value \in [Sems -> Nat]
    BY DEF Init, ProcStates
  <2>2. main.at = "setup" /\ main.idx \in Int
    BY DEF Init
  <2>3. state \in [Objects -> States] /\ listIdx \in [Objects -> Nat]
    <3>1. state = [o \in Objects |-> "new"] /\ listIdx = [o \in Objects |-> 0]
      BY DEF Init
    <3> QED
      BY <3>1 DEF States
  <2>5. sum \in Int /\ _lock \in BOOLEAN
    <3>1. sum \in Int
      BY DEF Init
    <3>2. _lock \in BOOLEAN
      BY Zenon DEF Init
    <3> QED
      BY <3>1, <3>2
  <2>4. sem \in [Waiters -> Sems]
    BY DEF Init
  <2> QED
    BY <2>1, <2>2, <2>3, <2>4, <2>5, <1>2 DEF TypeOK, States
<1>4. \A o \in Objects : ~Registered(o)
  BY DEF Init, Registered
<1>5. ListsAreLive /\ LoopsInside
  BY <1>1, <1>4 DEF Init, ListsAreLive, Located, PlacesRight, LoopsInside, LoopOf, Kinds
<1>6. Joined
  BY <1>4 DEF Init, Joined
<1>7. AddersInv /\ LockInv
  BY DEF Init, AddersInv, LockInv, Threads
<1>8. Made = {}
  BY DEF Init, Made, Additions
<1>9. SumInv
  BY <1>8, FS_EmptySet DEF Init, SumInv
<1> QED
  BY <1>3, <1>5, <1>6, <1>7, <1>9 DEF ThreadsInv

(* The invariant from which the properties follow.                         *)
THEOREM ThreadsInvariant == Spec => []ThreadsInv
<1>1. ThreadsInv /\ [Next]_vars => ThreadsInv'
  BY TypeStep, ListsStep, JoinedStep, AdditionStep DEF ThreadsInv, ListsInv, AdditionInv
<1> QED
  BY InitInv, <1>1, PTL DEF Spec

(* CreateThread, DeleteThread and their like for semaphores and mutexes    *)
(* keep what is live in the lists, each object at its listIdx, and, until  *)
(* a list is overrun, nothing else but what a loop of the shutdown has     *)
(* deleted in passing.                                                     *)
THEOREM ListsHoldTheLive == Spec => []ListsAreLive
BY ThreadsInvariant, PTL DEF ThreadsInv

(* When no thread runs the additions are those of the threads that ran.    *)
LEMMA AllAdded ==
  ASSUME TypeOK, AdditionInv, \A t \in Adders : ~Runs(t)
  PROVE  sum = inc_per_thread * Cardinality(Successes)
<1>1. inc_per_thread \in Nat /\ proc \in [Adders -> ProcStates] /\ IsFiniteSet(Adders)
  BY Constants DEF TypeOK
<1>2. \A t \in Adders : proc[t].at = "lock" /\ proc[t].added \in {0, inc_per_thread}
  BY DEF AdditionInv, AddersInv
<1>3. Made = Successes \X (1..inc_per_thread)
  BY <1>1, <1>2 DEF Made, Additions, Successes
<1>4. IsFiniteSet(Successes)
  BY <1>1, FS_Subset DEF Successes
<1>5. IsFiniteSet(1..inc_per_thread) /\ Cardinality(1..inc_per_thread) = inc_per_thread
  BY <1>1, FS_Interval
<1>6. Cardinality(Made) = Cardinality(Successes) * Cardinality(1..inc_per_thread)
  BY <1>3, <1>4, <1>5, FS_Product
<1>7. Cardinality(Successes) \in Nat
  BY <1>4, FS_CardinalityType
<1> QED
  BY <1>1, <1>5, <1>6, <1>7 DEF AdditionInv, SumInv

(* After DeleteAllThread the sum is what example_thread_lock expects: the  *)
(* spin lock of dt::Utils::Lock loses no addition.                         *)
THEOREM SumExact == Spec => []SumIsExact
<1>1. ThreadsInv => SumIsExact
  <2> SUFFICES ASSUME ThreadsInv, main.at \notin {"setup", "overrun", "DeleteAllThread"},
                      \A t \in Threads : state[t] # "stray"
      PROVE  /\ \A t \in Threads : state[t] \in {"new", "gone"}
             /\ sum = inc_per_thread * Cardinality(Successes)
    BY DEF SumIsExact
  <2>1. \A t \in Threads : state[t] \in {"new", "gone"}
    BY DEF ThreadsInv, TypeOK, Joined, Registered, Threads
  <2>2. \A t \in Adders : ~Runs(t)
    BY <2>1, Constants DEF Runs
  <2> QED
    BY <2>1, <2>2, AllAdded DEF ThreadsInv, AdditionInv
<1> QED
  BY <1>1, ThreadsInvariant, PTL
=============================================================================
