----------------------------- MODULE SafeThread -----------------------------
(***************************************************************************)
(* CThread with what it is made of: CMutex, CMutexCond and the scoped      *)
(* CMutexLock.  One thread object, the thread it creates (Worker) and the  *)
(* threads that use the object as their mutex and condition (Clients).     *)
(* A step is what a thread does between two points where another thread    *)
(* can see or stop it: taking the mutex, waiting, broadcasting, unlocking. *)
(*                                                                         *)
(* The system's mutex and condition variable are modelled by what POSIX    *)
(* says of them: a wait gives the mutex up and sleeps in one step, may end *)
(* without a cause, and takes the mutex again before it returns; a mutex   *)
(* is freed by whoever unlocks it and its owner blocks if it locks again.  *)
(***************************************************************************)
EXTENDS Integers, FiniteSets

CONSTANTS
    Clients,   \* the other threads
    Owner,     \* the client that starts and terminates the thread
    Worker,    \* the thread of the object
    NoThread,  \* the owner of a free mutex
    MaxCalls   \* bound on the calls of each client

Threads == Clients \cup {Worker}

ASSUME ThreadsAssumption ==
    /\ Owner \in Clients
    /\ Worker \notin Clients
    /\ NoThread \notin Threads
    /\ MaxCalls \in Nat

VARIABLES
    running, finish,  \* CThread
    sleeping,         \* CMutexCond
    mutex,            \* who has the mutex of CMutex
    pc,               \* where each thread is
    call,             \* the arguments of its sleep or wakeUp: flags, and
                      \* whether the sleep has a time limit
    flocked,          \* its CMutexLock, or itself, has taken the mutex
    ready,            \* the data the clients guard with the mutex
    calls             \* calls made by each client (a bound)

vars == <<running, finish, sleeping, mutex, pc, call, flocked, ready, calls>>

DontLock   == "DONT_LOCK"
DontUnlock == "DONT_UNLOCK"

(* Mutant of OnlyWait: the flag of the time measurement instead.           *)
OnlyWaitGetUs == {DontUnlock} \cup {"GETUS"}

(* CMUTEX_COND_F_ONLY_WAIT names one flag twice: wait() locks like         *)
(* waitLock(), whoever calls it.                                           *)
OnlyWait == {DontUnlock} \cup {DontUnlock}

NoCall == [flags |-> {}, timed |-> FALSE]

Init ==
    /\ running = FALSE
    /\ finish = FALSE
    /\ sleeping = FALSE
    /\ mutex = NoThread
    /\ pc = [t \in Threads |-> IF t = Worker THEN "none" ELSE "idle"]
    /\ call = [t \in Threads |-> NoCall]
    /\ flocked = [t \in Threads |-> FALSE]
    /\ ready = FALSE
    /\ calls = [t \in Clients |-> 0]

GoTo(t, where) == pc' = [pc EXCEPT ![t] = where]
Unlock == mutex' = NoThread
Calling(t) == /\ calls[t] < MaxCalls
              /\ calls' = [calls EXCEPT ![t] = @ + 1]

object == <<running, finish>>

(***************************************************************************)
(* CMutex::lock, at the four places that call it: where a thread waits for *)
(* the mutex, and where it is once it has it.                              *)
(***************************************************************************)
LockPoints == [guardLock |-> "holding", sleepLock |-> "sleep",
               wakeLock |-> "wake", awake |-> "slept"]

Lock(t) ==
    /\ pc[t] \in DOMAIN LockPoints
    /\ mutex = NoThread
    /\ mutex' = t
    /\ GoTo(t, LockPoints[pc[t]])
    /\ flocked' = [flocked EXCEPT ![t] = pc[t] = "guardLock"]
    /\ UNCHANGED <<object, sleeping, call, ready, calls>>

(***************************************************************************)
(* CMutexLock: the scope of a lock, or of an attempt to lock.              *)
(***************************************************************************)
Guard(t) ==
    /\ pc[t] = "idle"
    /\ Calling(t)
    /\ GoTo(t, "guardLock")
    /\ UNCHANGED <<object, sleeping, mutex, call, flocked, ready>>

TryGuard(t) ==
    /\ pc[t] = "idle"
    /\ Calling(t)
    /\ GoTo(t, "holding")
    /\ flocked' = [flocked EXCEPT ![t] = mutex = NoThread]
    /\ mutex' = IF mutex = NoThread THEN t ELSE mutex
    /\ UNCHANGED <<object, sleeping, call, ready>>

(* Mutant of EndGuard: the destructor unlocks what it did not lock.        *)
EndGuardAlways(t) ==
    /\ pc[t] = "holding"
    /\ Unlock
    /\ flocked' = [flocked EXCEPT ![t] = FALSE]
    /\ GoTo(t, "idle")
    /\ UNCHANGED <<object, sleeping, call, ready, calls>>

EndGuard(t) ==
    /\ pc[t] = "holding"
    /\ IF flocked[t] THEN Unlock ELSE UNCHANGED mutex
    /\ flocked' = [flocked EXCEPT ![t] = FALSE]
    /\ GoTo(t, "idle")
    /\ UNCHANGED <<object, sleeping, call, ready, calls>>

(***************************************************************************)
(* CMutexCond::sleep, up to the wait and from it.                          *)
(***************************************************************************)
EnterSleep(t, flags, timed) ==
    /\ call' = [call EXCEPT ![t] = [flags |-> flags, timed |-> timed]]
    /\ GoTo(t, IF DontLock \in flags THEN "sleep" ELSE "sleepLock")

(* sleep, waitLock and wait.  A client that has the mutex may call wait()  *)
(* alone, as its name suggests.                                            *)
SleepCall(t, flags, timed) ==
    /\ \/ pc[t] = "idle"
       \/ pc[t] = "holding" /\ flocked[t] /\ flags = OnlyWait
    /\ flags \in {{}, {DontUnlock}, OnlyWait}
    /\ Calling(t)
    /\ EnterSleep(t, flags, timed)
    /\ UNCHANGED <<object, sleeping, mutex, flocked, ready>>

(* The clients' use of both flags: with the mutex, test the data and sleep *)
(* until it is there.                                                      *)
Await(t) ==
    /\ pc[t] = "holding" /\ flocked[t]
    /\ Calling(t)
    /\ GoTo(t, "await")
    /\ UNCHANGED <<object, sleeping, mutex, call, flocked, ready>>

AwaitTest(t) ==
    /\ pc[t] = "await"
    /\ IF ready
       THEN GoTo(t, "holding") /\ UNCHANGED call
       ELSE EnterSleep(t, {DontLock, DontUnlock}, FALSE)
    /\ UNCHANGED <<object, sleeping, mutex, flocked, ready, calls>>

Wait(t) ==
    /\ pc[t] = "sleep"
    /\ sleeping' = TRUE
    /\ Unlock
    /\ flocked' = [flocked EXCEPT ![t] = FALSE]
    /\ GoTo(t, "asleep")
    /\ UNCHANGED <<object, call, ready, calls>>

TimeOut(t) ==
    /\ pc[t] = "asleep"
    /\ call[t].timed
    /\ GoTo(t, "awake")
    /\ UNCHANGED <<object, sleeping, mutex, call, flocked, ready, calls>>

SpuriousWakeUp(t) ==
    /\ pc[t] = "asleep"
    /\ GoTo(t, "awake")
    /\ UNCHANGED <<object, sleeping, mutex, call, flocked, ready, calls>>

(* Where a sleep returns to.                                               *)
Back(t) == CASE t = Worker -> "loop"
             [] DontLock \in call[t].flags -> "await"
             [] call[t].flags = {DontUnlock} -> "holding"
             [] OTHER -> "idle"

EndSleep(t) ==
    /\ pc[t] = "slept"
    /\ sleeping' = FALSE
    /\ IF DontUnlock \in call[t].flags
       THEN flocked' = [flocked EXCEPT ![t] = TRUE] /\ UNCHANGED mutex
       ELSE Unlock /\ UNCHANGED flocked
    /\ GoTo(t, Back(t))
    /\ call' = [call EXCEPT ![t] = NoCall]
    /\ UNCHANGED <<object, ready, calls>>

(***************************************************************************)
(* CMutexCond::wakeUp, and wakeUpUnlock by a client that has the mutex and *)
(* has made the data ready.                                                *)
(***************************************************************************)
WakeUp(t) ==
    /\ pc[t] = "idle"
    /\ Calling(t)
    /\ GoTo(t, "wakeLock")
    /\ UNCHANGED <<object, sleeping, mutex, call, flocked, ready>>

WakeUpUnlock(t) ==
    /\ pc[t] = "holding" /\ flocked[t]
    /\ Calling(t)
    /\ ready' = TRUE
    /\ GoTo(t, "wake")
    /\ UNCHANGED <<object, sleeping, mutex, call, flocked>>

(* Mutant of Broadcast: it wakes one of the sleepers.                      *)
BroadcastOne(t) ==
    /\ pc[t] = "wake"
    /\ \E u \in Threads :
          /\ pc[u] = "asleep" \/ \A x \in Threads : pc[x] # "asleep"
          /\ pc' = [pc EXCEPT ![u] = IF @ = "asleep" THEN "awake" ELSE @,
                              ![t] = "woken"]
    /\ UNCHANGED <<object, sleeping, mutex, call, flocked, ready, calls>>

Broadcast(t) ==
    /\ pc[t] = "wake"
    /\ pc' = [u \in Threads |-> CASE u = t -> "woken"
                                  [] pc[u] = "asleep" -> "awake"
                                  [] OTHER -> pc[u]]
    /\ UNCHANGED <<object, sleeping, mutex, call, flocked, ready, calls>>

EndWakeUp(t) ==
    /\ pc[t] = "woken"
    /\ Unlock
    /\ flocked' = [flocked EXCEPT ![t] = FALSE]
    /\ GoTo(t, "idle")
    /\ UNCHANGED <<object, sleeping, call, ready, calls>>

(***************************************************************************)
(* CThread.                                                                *)
(***************************************************************************)
(* Nothing ever resets running: a thread that has ended is not started     *)
(* again.                                                                  *)
Start ==
    /\ pc[Owner] = "idle"
    /\ Calling(Owner)
    /\ running' = TRUE
    /\ IF running THEN UNCHANGED pc ELSE GoTo(Worker, "loop")
    /\ UNCHANGED <<finish, sleeping, mutex, call, flocked, ready>>

Terminate ==
    /\ pc[Owner] = "idle"
    /\ Calling(Owner)
    /\ finish' = TRUE
    /\ UNCHANGED <<running, sleeping, mutex, pc, call, flocked, ready>>

Loop ==
    /\ pc[Worker] = "loop"
    /\ GoTo(Worker, IF finish THEN "done" ELSE "run")
    /\ UNCHANGED <<object, sleeping, mutex, call, flocked, ready, calls>>

(* Mutant of Run: the thread sleeps without a time limit.                  *)
RunUntimed(ms) ==
    /\ pc[Worker] = "run"
    /\ CASE ms < 0 \/ finish -> GoTo(Worker, "done") /\ UNCHANGED call
         [] ms = 0 /\ ~finish -> GoTo(Worker, "loop") /\ UNCHANGED call
         [] OTHER -> EnterSleep(Worker, {}, FALSE)
    /\ UNCHANGED <<object, sleeping, mutex, flocked, ready, calls>>

(* run() of the parent, or the function, returns: what to do next.         *)
Run(ms) ==
    /\ pc[Worker] = "run"
    /\ CASE ms < 0 \/ finish -> GoTo(Worker, "done") /\ UNCHANGED call
         [] ms = 0 /\ ~finish -> GoTo(Worker, "loop") /\ UNCHANGED call
         [] OTHER -> EnterSleep(Worker, {}, TRUE)
    /\ UNCHANGED <<object, sleeping, mutex, flocked, ready, calls>>

(* What run() may return: stop, go on at once, sleep for some time.        *)
RunResults == {-1, 0, 1}

(* What a thread does next in a call it has begun, the mutex apart.        *)
Continue(t) ==
    \/ EndGuard(t)
    \/ AwaitTest(t) \/ Wait(t) \/ TimeOut(t) \/ EndSleep(t)
    \/ Broadcast(t) \/ EndWakeUp(t)
    \/ t = Worker /\ (Loop \/ \E ms \in RunResults : Run(ms))

Begin(t) ==
    \/ Guard(t) \/ TryGuard(t) \/ Await(t)
    \/ \E flags \in {{}, {DontUnlock}, OnlyWait}, timed \in BOOLEAN :
          SleepCall(t, flags, timed)
    \/ WakeUp(t) \/ WakeUpUnlock(t)

Next ==
    \/ \E t \in Threads : Lock(t) \/ Continue(t) \/ SpuriousWakeUp(t)
    \/ \E t \in Clients : Begin(t)
    \/ Start \/ Terminate

(* A thread that can go on does: scopes end, run() returns, time limits    *)
(* pass.  A mutex that is free again and again is got by each thread that  *)
(* waits for it.                                                           *)
Fairness == \A t \in Threads : WF_vars(Continue(t)) /\ SF_vars(Lock(t))

Spec == Init /\ [][Next]_vars /\ Fairness

(***************************************************************************)
(* Properties.                                                             *)
(***************************************************************************)

(* Type invariant.                                                         *)
TypeOK ==
    /\ {running, finish, sleeping, ready} \subseteq BOOLEAN
    /\ mutex \in Threads \cup {NoThread}
    /\ pc \in [Threads -> DOMAIN LockPoints \cup
                  {"none", "idle", "holding", "await", "sleep", "asleep",
                   "slept", "wake", "woken", "loop", "run", "done"}]
    /\ call \in [Threads -> [flags : SUBSET {DontLock, DontUnlock},
                             timed : BOOLEAN]]
    /\ flocked \in [Threads -> BOOLEAN]
    /\ calls \in [Clients -> 0..MaxCalls]

(* A thread hangs itself when it waits for the mutex it has.               *)
Hung(t) == mutex = t /\ pc[t] \in DOMAIN LockPoints

(* The mutex belongs to the thread that is in a section it has locked, and *)
(* to no other: every path of a scope, a sleep and a wake up, with every   *)
(* flag, unlocks what it has locked and nothing else, and only a wait()    *)
(* called with the mutex makes a thread wait for itself.                   *)
MutexBalanced ==
    \A t \in Threads :
        /\ ~Hung(t) =>
              (mutex = t <=> \/ pc[t] \in {"await", "sleep", "slept",
                                           "wake", "woken"}
                             \/ pc[t] = "holding" /\ flocked[t])
        /\ Hung(t) => pc[t] = "sleepLock" /\ call[t].flags = OnlyWait

(* After terminate() the thread ends, whatever it was doing, though nobody *)
(* wakes it and other threads use its mutex: unless one of them hangs with *)
(* the mutex.                                                              *)
TerminateStops ==
    finish ~> \/ pc[Worker] \in {"none", "done"}
              \/ \E t \in Threads : Hung(t)

(* No wake up is lost: a thread that tests its condition with the mutex    *)
(* and sleeps with both flags goes on once another thread has made the     *)
(* condition true and called wakeUpUnlock, whoever else was asleep.        *)
Awaits(t) == \/ pc[t] = "await"
             \/ /\ pc[t] \in {"sleep", "asleep", "awake", "slept"}
                /\ DontLock \in call[t].flags

WakeUpReaches ==
    \A t \in Clients :
        Awaits(t) /\ ready ~> ~Awaits(t) \/ \E u \in Threads : Hung(u)
=============================================================================
