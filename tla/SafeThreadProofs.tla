-------------------------- MODULE SafeThreadProofs --------------------------
(***************************************************************************)
(* Proofs about SafeThread for every set of threads and every number of    *)
(* calls: the types of its state, and that the mutex is neither freed by a *)
(* thread that does not have it nor kept by one that has gone on.          *)
(***************************************************************************)
EXTENDS SafeThread, TLAPS

(* The flags of a sleep that leave it a sleep, and the calls.              *)
Flags == {{}, {DontUnlock}, {DontLock, DontUnlock}}
Calls == [flags : Flags, timed : BOOLEAN]

(* Where a thread goes on when it has got the mutex.                       *)
LEMMA Points ==
    /\ DOMAIN LockPoints = {"guardLock", "sleepLock", "wakeLock", "awake"}
    /\ LockPoints["guardLock"] = "holding"
    /\ LockPoints["sleepLock"] = "sleep"
    /\ LockPoints["wakeLock"] = "wake"
    /\ LockPoints["awake"] = "slept"
  BY DEF LockPoints

(* The places of a client, of the thread itself, and those of a sleep,     *)
(* which both may be in.                                                   *)
ClientPlaces == {"guardLock", "wakeLock", "idle", "holding", "await", "wake",
                 "woken"}
WorkerPlaces == {"none", "loop", "run", "done"}
SleepPlaces == {"sleepLock", "sleep", "asleep", "awake", "slept"}
Places == ClientPlaces \cup WorkerPlaces \cup SleepPlaces

(* The types of the variables, more exactly than TypeOK: where a thread of *)
(* each kind may be, and the flags it may sleep with.                      *)
Types ==
    /\ running \in BOOLEAN /\ finish \in BOOLEAN
    /\ sleeping \in BOOLEAN /\ ready \in BOOLEAN
    /\ mutex \in Threads \cup {NoThread}
    /\ pc \in [Threads -> Places]
    /\ call \in [Threads -> Calls]
    /\ flocked \in [Threads -> BOOLEAN]
    /\ calls \in [Clients -> 0 .. MaxCalls]
    /\ pc[Worker] \in WorkerPlaces \cup SleepPlaces
    /\ call[Worker].flags = {}
    /\ \A t \in Clients : pc[t] \in ClientPlaces \cup SleepPlaces
    /\ ~running => pc[Worker] = "none"

(* t is in a section that it has locked.                                   *)
InSection(t) ==
    \/ pc[t] \in {"await", "sleep", "slept", "wake", "woken"}
    \/ pc[t] = "holding" /\ flocked[t]

(* The invariant: a thread in such a section has the mutex; a thread that  *)
(* has it is there, or called wait() with it; and one that awaits the data *)
(* will find its CMutexLock locked when it goes on.                        *)
Balanced ==
    \A t \in Threads :
        /\ InSection(t) => mutex = t
        /\ mutex = t => \/ InSection(t)
                        \/ pc[t] = "sleepLock" /\ call[t].flags = {DontUnlock}
        /\ pc[t] = "await" => flocked[t]

(* The invariant: the types, and the owner of the mutex as the places of   *)
(* the threads say.                                                        *)
Inv == Types /\ Balanced

(* It has the properties the run checks.                                   *)
LEMMA InvImplies == Inv => TypeOK /\ MutexBalanced
<1> SUFFICES ASSUME Inv PROVE TypeOK /\ MutexBalanced
  OBVIOUS
<1>1. TypeOK
  <2>1. pc \in [Threads -> DOMAIN LockPoints \cup
                  {"none", "idle", "holding", "await", "sleep", "asleep",
                   "slept", "wake", "woken", "loop", "run", "done"}]
    BY Points DEF Inv, Types, Places, ClientPlaces, WorkerPlaces,
                  SleepPlaces
  <2>2. call \in [Threads -> [flags : SUBSET {DontLock, DontUnlock},
                              timed : BOOLEAN]]
    BY DEF Inv, Types, Calls, Flags
  <2> QED
    BY <2>1, <2>2 DEF Inv, Types, TypeOK
<1>2. MutexBalanced
  <2>1. OnlyWait = {DontUnlock}
    BY DEF OnlyWait
  <2>2. ASSUME NEW t \in Threads
        PROVE  /\ ~Hung(t) => (mutex = t <=> InSection(t))
               /\ Hung(t) => pc[t] = "sleepLock" /\ call[t].flags = OnlyWait
    BY <2>1, Points DEF Inv, Balanced, InSection, Hung
  <2> QED
    BY <2>2 DEF MutexBalanced, InSection
<1> QED
  BY <1>1, <1>2

(* Nobody has the mutex at the start.                                      *)
LEMMA InitInv == Init => Inv
<1> SUFFICES ASSUME Init PROVE Inv
  OBVIOUS
<1> USE ThreadsAssumption
<1>1. Types
  <2>1. /\ pc \in [Threads -> Places]
        /\ pc[Worker] = "none"
        /\ \A t \in Clients : pc[t] = "idle"
    BY DEF Init, Threads, Places, ClientPlaces, WorkerPlaces
  <2>2. call \in [Threads -> Calls]
    BY DEF Init, NoCall, Calls, Flags
  <2>3. call[Worker].flags = {}
    BY DEF Init, NoCall, Threads
  <2>4. calls \in [Clients -> 0 .. MaxCalls] /\ flocked \in [Threads -> BOOLEAN]
    BY DEF Init
  <2> QED
    BY <2>1, <2>2, <2>3, <2>4 DEF Init, Types, ClientPlaces, WorkerPlaces
<1>2. Balanced
  BY DEF Init, Balanced, InSection, Threads
<1> QED
  BY <1>1, <1>2 DEF Inv

(***************************************************************************)
(* A step moves one thread, t, and wakes others at most; it takes or frees *)
(* the mutex, or leaves it; and it leaves t balanced.                      *)
(***************************************************************************)
Moves(t) ==
    /\ \A u \in Threads \ {t} :
           /\ pc'[u] = pc[u] \/ (pc[u] = "asleep" /\ pc'[u] = "awake")
           /\ call'[u] = call[u] /\ flocked'[u] = flocked[u]
    /\ \/ mutex' = mutex
       \/ mutex = NoThread /\ mutex' = t
       \/ mutex = t /\ mutex' = NoThread
    /\ InSection(t)' => mutex' = t
    /\ mutex' = t => \/ InSection(t)'
                     \/ pc'[t] = "sleepLock" /\ call'[t].flags = {DontUnlock}
    /\ pc'[t] = "await" => flocked'[t]

(* A thread that moves as the code lets it leaves the mutex balanced: at   *)
(* most one thread is at a place that has it.                              *)
LEMMA MovesBalanced ==
    ASSUME Inv, NEW t \in Threads, Moves(t)
    PROVE  Balanced'
<1> USE ThreadsAssumption
<1>1. ASSUME NEW u \in Threads, u # t
      PROVE  /\ InSection(u)' => mutex' = u
             /\ mutex' = u => \/ InSection(u)'
                              \/ pc'[u] = "sleepLock" /\ call'[u].flags = {DontUnlock}
             /\ pc'[u] = "await" => flocked'[u]
  <2>1. /\ pc'[u] = pc[u] \/ (pc[u] = "asleep" /\ pc'[u] = "awake")
        /\ call'[u] = call[u] /\ flocked'[u] = flocked[u]
    BY <1>1 DEF Moves
  <2>2. /\ InSection(u)' <=> InSection(u)
        /\ pc'[u] = "await" <=> pc[u] = "await"
        /\ pc'[u] = "sleepLock" <=> pc[u] = "sleepLock"
    BY <2>1 DEF InSection
  <2>3. mutex' = u <=> mutex = u
    BY <1>1 DEF Moves, Threads
  <2> QED
    BY <2>1, <2>2, <2>3 DEF Inv, Balanced
<1> QED
  BY <1>1 DEF Balanced, Moves

(* The counter of calls of a client.                                       *)
LEMMA CallingType ==
    ASSUME Types, NEW t \in Clients, Calling(t)
    PROVE  calls' \in [Clients -> 0 .. MaxCalls]
<1> USE ThreadsAssumption
<1>1. calls[t] \in 0 .. MaxCalls /\ calls[t] < MaxCalls
  BY DEF Types, Calling
<1>2. calls[t] + 1 \in 0 .. MaxCalls
  BY <1>1
<1> QED
  BY <1>2 DEF Types, Calling

(* Every step of the system is such a move of one thread.                  *)
LEMMA NextMoves ==
    ASSUME Inv, Next
    PROVE  Types' /\ \E t \in Threads : Moves(t)
<1> USE ThreadsAssumption, Points
    DEF Inv, Types, Threads, Places, ClientPlaces, WorkerPlaces, SleepPlaces
<1>1. ASSUME NEW t \in Threads, Lock(t)
      PROVE  Types' /\ Moves(t)
  <2>1. Types'
    BY <1>1 DEF Lock, GoTo, object
  <2>2. Moves(t)
    BY <1>1 DEF Moves, Balanced, InSection, Lock, GoTo, object
  <2> QED
    BY <2>1, <2>2
<1>2. ASSUME NEW t \in Clients, Guard(t)
      PROVE  Types' /\ Moves(t)
  <2>1. calls' \in [Clients -> 0 .. MaxCalls]
    BY <1>2, CallingType DEF Guard
  <2>2. Types'
    BY <1>2, <2>1 DEF Guard, GoTo, object
  <2>3. Moves(t)
    BY <1>2 DEF Moves, Balanced, InSection, Guard, GoTo, object
  <2> QED
    BY <2>2, <2>3
<1>3. ASSUME NEW t \in Clients, TryGuard(t)
      PROVE  Types' /\ Moves(t)
  <2>1. calls' \in [Clients -> 0 .. MaxCalls]
    BY <1>3, CallingType DEF TryGuard
  <2>2. Types'
    BY <1>3, <2>1 DEF TryGuard, GoTo, object
  <2>3. Moves(t)
    BY <1>3 DEF Moves, Balanced, InSection, TryGuard, GoTo, object
  <2> QED
    BY <2>2, <2>3
<1>4. ASSUME NEW t \in Threads, EndGuard(t)
      PROVE  Types' /\ Moves(t)
  <2>1. Types'
    BY <1>4 DEF EndGuard, GoTo, object, Unlock
  <2>2. Moves(t)
    BY <1>4 DEF Moves, Balanced, InSection, EndGuard, GoTo, object, Unlock
  <2> QED
    BY <2>1, <2>2
<1>5. ASSUME NEW t \in Clients, NEW flags, NEW timed \in BOOLEAN, SleepCall(t, flags, timed)
      PROVE  Types' /\ Moves(t)
  <2>1. calls' \in [Clients -> 0 .. MaxCalls]
    BY <1>5, CallingType DEF SleepCall
  <2>2. Types'
    BY <1>5, <2>1, SMTT(40) DEF SleepCall, EnterSleep, OnlyWait, DontLock,
         DontUnlock, GoTo, object, Calls, Flags
  <2>3. Moves(t)
    BY <1>5 DEF Moves, Balanced, InSection, SleepCall, EnterSleep,
         OnlyWait, DontLock, DontUnlock, GoTo, object, Calls, Flags
  <2> QED
    BY <2>2, <2>3
<1>6. ASSUME NEW t \in Clients, Await(t)
      PROVE  Types' /\ Moves(t)
  <2>1. calls' \in [Clients -> 0 .. MaxCalls]
    BY <1>6, CallingType DEF Await
  <2>2. Types'
    BY <1>6, <2>1 DEF Await, GoTo, object
  <2>3. Moves(t)
    BY <1>6 DEF Moves, Balanced, InSection, Await, GoTo, object
  <2> QED
    BY <2>2, <2>3
<1>7. ASSUME NEW t \in Threads, AwaitTest(t)
      PROVE  Types' /\ Moves(t)
  <2>1. Types'
    <3>1. t \in Clients /\ t # Worker
      BY <1>7 DEF AwaitTest
    <3>2. call' \in [Threads -> Calls] /\ call'[Worker].flags = {}
      <4>1. [flags |-> {DontLock, DontUnlock}, timed |-> FALSE] \in Calls
        BY DEF Calls, Flags
      <4> QED
        BY <1>7, <3>1, <4>1, ZenonT(60) DEF AwaitTest, EnterSleep
    <3>3. pc' \in [Threads -> Places] /\ pc'[Worker] = pc[Worker]
          /\ \A u \in Clients : pc'[u] \in ClientPlaces \cup SleepPlaces
      BY <1>7, <3>1 DEF AwaitTest, EnterSleep, GoTo
    <3> QED
      BY <1>7, <3>2, <3>3 DEF AwaitTest, object
  <2>2. Moves(t)
    BY <1>7 DEF Moves, Balanced, InSection, AwaitTest, EnterSleep, GoTo,
         object, DontLock, DontUnlock, Calls, Flags
  <2> QED
    BY <2>1, <2>2
<1>8. ASSUME NEW t \in Threads, Wait(t)
      PROVE  Types' /\ Moves(t)
  <2>1. Types'
    BY <1>8 DEF Wait, Unlock, GoTo, object
  <2>2. Moves(t)
    BY <1>8 DEF Moves, Balanced, InSection, Wait, Unlock, GoTo, object
  <2> QED
    BY <2>1, <2>2
<1>9. ASSUME NEW t \in Threads, TimeOut(t)
      PROVE  Types' /\ Moves(t)
  <2>1. Types'
    BY <1>9 DEF TimeOut, GoTo, object
  <2>2. Moves(t)
    BY <1>9 DEF Moves, Balanced, InSection, TimeOut, GoTo, object
  <2> QED
    BY <2>1, <2>2
<1>10. ASSUME NEW t \in Threads, SpuriousWakeUp(t)
      PROVE  Types' /\ Moves(t)
  <2>1. Types'
    BY <1>10 DEF SpuriousWakeUp, GoTo, object
  <2>2. Moves(t)
    BY <1>10 DEF Moves, Balanced, InSection, SpuriousWakeUp, GoTo, object
  <2> QED
    BY <2>1, <2>2
<1>11. ASSUME NEW t \in Threads, EndSleep(t)
      PROVE  Types' /\ Moves(t)
  <2>1. Types'
    BY <1>11, ZenonT(60) DEF EndSleep, Back, NoCall, DontLock, DontUnlock, Unlock,
         GoTo, object, Calls, Flags
  <2>2. Moves(t)
    BY <1>11 DEF Moves, Balanced, InSection, EndSleep, Back, NoCall,
         DontLock, DontUnlock, Unlock, GoTo, object, Calls, Flags
  <2> QED
    BY <2>1, <2>2
<1>12. ASSUME NEW t \in Clients, WakeUp(t)
      PROVE  Types' /\ Moves(t)
  <2>1. calls' \in [Clients -> 0 .. MaxCalls]
    BY <1>12, CallingType DEF WakeUp
  <2>2. Types'
    BY <1>12, <2>1 DEF WakeUp, GoTo, object
  <2>3. Moves(t)
    BY <1>12 DEF Moves, Balanced, InSection, WakeUp, GoTo, object
  <2> QED
    BY <2>2, <2>3
<1>13. ASSUME NEW t \in Clients, WakeUpUnlock(t)
      PROVE  Types' /\ Moves(t)
  <2>1. calls' \in [Clients -> 0 .. MaxCalls]
    BY <1>13, CallingType DEF WakeUpUnlock
  <2>2. Types'
    BY <1>13, <2>1 DEF WakeUpUnlock, GoTo, object
  <2>3. Moves(t)
    BY <1>13 DEF Moves, Balanced, InSection, WakeUpUnlock, GoTo, object
  <2> QED
    BY <2>2, <2>3
<1>14. ASSUME NEW t \in Threads, Broadcast(t)
      PROVE  Types' /\ Moves(t)
  <2>1. Types'
    BY <1>14 DEF Broadcast, object
  <2>2. Moves(t)
    BY <1>14 DEF Moves, Balanced, InSection, Broadcast, object
  <2> QED
    BY <2>1, <2>2
<1>15. ASSUME NEW t \in Threads, EndWakeUp(t)
      PROVE  Types' /\ Moves(t)
  <2>1. Types'
    BY <1>15 DEF EndWakeUp, Unlock, GoTo, object
  <2>2. Moves(t)
    BY <1>15 DEF Moves, Balanced, InSection, EndWakeUp, Unlock, GoTo, object
  <2> QED
    BY <2>1, <2>2
<1>16. ASSUME Start
      PROVE  Types' /\ Moves(Worker)
  <2>1. calls' \in [Clients -> 0 .. MaxCalls]
    BY <1>16, CallingType DEF Start
  <2>2. Types'
    BY <1>16, <2>1 DEF Start, GoTo
  <2>3. Moves(Worker)
    BY <1>16 DEF Moves, Balanced, InSection, Start, GoTo
  <2> QED
    BY <2>2, <2>3
<1>17. ASSUME Terminate
      PROVE  Types' /\ Moves(Owner)
  <2>1. calls' \in [Clients -> 0 .. MaxCalls]
    BY <1>17, CallingType DEF Terminate
  <2>2. Types'
    BY <1>17, <2>1 DEF Terminate
  <2>3. Moves(Owner)
    BY <1>17 DEF Moves, Balanced, InSection, Terminate
  <2> QED
    BY <2>2, <2>3
<1>18. ASSUME Loop
      PROVE  Types' /\ Moves(Worker)
  <2>1. Types'
    BY <1>18 DEF Loop, GoTo, object
  <2>2. Moves(Worker)
    BY <1>18 DEF Moves, Balanced, InSection, Loop, GoTo, object
  <2> QED
    BY <2>1, <2>2
<1>19. ASSUME NEW ms \in RunResults, Run(ms)
      PROVE  Types' /\ Moves(Worker)
  <2>1. Types'
    <3>1. running /\ pc[Worker] = "run"
      BY <1>19 DEF Run
    <3>2. call' \in [Threads -> Calls] /\ call'[Worker].flags = {}
      <4>1. [flags |-> {}, timed |-> TRUE] \in Calls
        BY DEF Calls, Flags
      <4>2. \/ call' = call
            \/ call' = [call EXCEPT ![Worker] = [flags |-> {}, timed |-> TRUE]]
        BY <1>19 DEF Run, EnterSleep
      <4>3. PICK c \in Calls : c = [flags |-> {}, timed |-> TRUE]
        BY <4>1
      <4>4. c.flags = {}
        BY <4>3
      <4>5. call' = call \/ call' = [call EXCEPT ![Worker] = c]
        BY <4>2, <4>3
      <4> QED
        BY <4>4, <4>5
    <3>3. pc' \in [Threads -> Places]
          /\ pc'[Worker] \in WorkerPlaces \cup SleepPlaces
          /\ \A u \in Clients : pc'[u] = pc[u]
      BY <1>19, <3>1 DEF Run, EnterSleep, GoTo, DontLock
    <3> QED
      BY <1>19, <3>1, <3>2, <3>3 DEF Run, object
  <2>2. Moves(Worker)
    BY <1>19 DEF Moves, Balanced, InSection, Run, EnterSleep, DontLock,
         GoTo, object, Calls, Flags
  <2> QED
    BY <2>1, <2>2
<1> HIDE DEF Inv, Types, Threads
<1> QED
  BY <1>1, <1>2, <1>3, <1>4, <1>5, <1>6, <1>7, <1>8, <1>9, <1>10, <1>11,
       <1>12, <1>13, <1>14, <1>15, <1>16, <1>17, <1>18, <1>19 DEF Next,
       Continue, Begin, Threads

(* The invariant is inductive.                                             *)
LEMMA NextInv == Inv /\ [Next]_vars => Inv'
<1> SUFFICES ASSUME Inv, [Next]_vars PROVE Inv'
  OBVIOUS
<1>1. CASE Next
  BY <1>1, NextMoves, MovesBalanced DEF Inv
<1>2. CASE UNCHANGED vars
  BY <1>2 DEF vars, Inv, Types, Balanced, InSection
<1> QED
  BY <1>1, <1>2

(* The invariant holds in every behaviour.                                 *)
LEMMA Invariant == Spec => []Inv
<1> QED
  BY InitInv, NextInv, PTL DEF Spec

(* The state of the thread, the condition and the mutex keeps its types.   *)
THEOREM TypeCorrect == Spec => []TypeOK
<1>1. Inv => TypeOK
  BY InvImplies
<1> QED
  BY <1>1, Invariant, PTL

(* Whatever the threads do, and however often a wait ends without a cause: *)
(* CMutexLock, sleep and wakeUp with every flag unlock the mutex exactly   *)
(* where their thread has it, and only wait() called with the mutex makes  *)
(* a thread wait for itself.                                               *)
THEOREM MutexAlwaysBalanced == Spec => []MutexBalanced
<1>1. Inv => MutexBalanced
  BY InvImplies
<1> QED
  BY <1>1, Invariant, PTL
=============================================================================
