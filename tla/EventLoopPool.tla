----------------------------- MODULE EventLoopPool -----------------------------
(***************************************************************************)
(* EventLoopPool from its construction to its destruction                  *)
(* (src/src/EventLoopPool.h): the thread that owns the pool calls          *)
(* setHelperThreadsNumAndStart once and later destroys the pool; each      *)
(* worker runs threadFunc.  mu_ is never kept across a step: what happens  *)
(* under it is one step.  getNextPool is modelled in TcpServer.            *)
(***************************************************************************)
EXTENDS Integers, FiniteSets

CONSTANT MaxThreads  (* MAX_THREADS, the number of loops                   *)

ASSUME EventLoopPoolAssumption == MaxThreads \in Nat

Worker == 0 .. MaxThreads - 1

VARIABLES
  caller,            (* where the owner of the pool is                     *)
  realSize,          (* realSize_, and the nums of the call                *)
  created,           (* how many threads threads_ holds                    *)
  joined,            (* how many of them the destructor has joined         *)
  stopped,           (* how many loops the destructor has stopped          *)
  cnt,               (* cnt                                                *)
  notified,          (* cv_ was notified since the owner waits             *)
  going,             (* looping_ of each loop, initialised by init()       *)
  initialised,       (* has init() made the loop's wakeUpFd?               *)
  wakeUp,            (* is its wakeUpFd readable?                          *)
  lost,              (* history: the word of stop() did not make it so     *)
  place              (* where each worker is in threadFunc                 *)

vars == <<caller, realSize, created, joined, stopped, cnt, notified, going,
          initialised, wakeUp, lost, place>>

ownerVars == <<caller, realSize, created, joined, stopped>>
waitVars  == <<cnt, notified>>
workerVars  == <<going, initialised, wakeUp, lost>>

Init ==
  /\ caller = "new"
  /\ realSize = 0
  /\ created = 0
  /\ joined = 0
  /\ stopped = 0
  /\ cnt = 0
  /\ notified = FALSE
  /\ going = [i \in Worker |-> FALSE]
  /\ initialised = [i \in Worker |-> FALSE]
  /\ wakeUp = [i \in Worker |-> FALSE]
  /\ lost = [i \in Worker |-> FALSE]
  /\ place = [i \in Worker |-> "none"]

-----------------------------------------------------------------------------
(* setHelperThreadsNumAndStart.                                            *)

SetHelperThreadsNum(nums) ==
  /\ caller = "new"
  /\ realSize' = nums
  /\ caller' = "creating"
  /\ UNCHANGED <<created, joined, stopped, waitVars, workerVars, place>>

(* The condition of the loop.                                              *)
ThreadsMissing == created < realSize

CreateThread ==
  /\ caller = "creating"
  /\ ThreadsMissing
  /\ place' = [place EXCEPT ![created] = "init"]
  /\ created' = created + 1
  /\ UNCHANGED <<caller, realSize, joined, stopped, waitVars, workerVars>>

(* A slip: the predicate is content with one thread.                       *)
AnyReady == cnt > 0 \/ realSize = 0

(* The predicate of the wait.                                              *)
AllReady == cnt = realSize

(* cv_.wait(ul, ...): the predicate is tested under mu_, at first and      *)
(* after each notification; a wake-up may also come from nowhere.          *)
WaitTests ==
  /\ \/ caller = "creating" /\ created = realSize
     \/ caller = "waiting"
  /\ caller' = IF AllReady THEN "returned" ELSE "waiting"
  /\ notified' = FALSE
  /\ UNCHANGED <<realSize, created, joined, stopped, cnt, workerVars, place>>

-----------------------------------------------------------------------------
(* threadFunc(i).                                                          *)

InitLoop(i) ==
  /\ place[i] = "init"
  /\ initialised' = [initialised EXCEPT ![i] = TRUE]
  /\ going' = [going EXCEPT ![i] = TRUE]
  /\ place' = [place EXCEPT ![i] = "count"]
  /\ UNCHANGED <<ownerVars, waitVars, wakeUp, lost>>

(* ++cnt and notify_one under mu_.                                         *)
Count(i) ==
  /\ place[i] = "count"
  /\ cnt' = cnt + 1
  /\ notified' = (caller = "waiting")
  /\ place' = [place EXCEPT ![i] = "run"]
  /\ UNCHANGED <<ownerVars, workerVars>>

(* loop.start(): looping_ is tested, and the loop polls.                   *)
TestLooping(i) ==
  /\ place[i] = "run"
  /\ place' = [place EXCEPT ![i] = IF going[i] THEN "poll" ELSE "ended"]
  /\ UNCHANGED <<ownerVars, waitVars, workerVars>>

(* poll() returns for the wakeUpFd, which readWakeUpFd empties.            *)
WakesUp(i) ==
  /\ place[i] = "poll"
  /\ wakeUp[i]
  /\ wakeUp' = [wakeUp EXCEPT ![i] = FALSE]
  /\ place' = [place EXCEPT ![i] = "run"]
  /\ UNCHANGED <<ownerVars, waitVars, going, initialised, lost>>

(* It returns for other events, of which there may be none: the loop of a  *)
(* worker has no periodic one.                                             *)
HandlesEvents(i) ==
  /\ place[i] = "poll"
  /\ place' = [place EXCEPT ![i] = "run"]
  /\ UNCHANGED <<ownerVars, waitVars, workerVars>>

-----------------------------------------------------------------------------
(* ~EventLoopPool.                                                         *)

(* A slip: only the loops behind those in use are stopped.                 *)
StopsFrom == realSize

(* The loops are stopped from the first one on.                            *)
FirstStopped == 0

Destroy ==
  /\ caller = "returned"
  /\ caller' = "stopping"
  /\ stopped' = FirstStopped
  /\ UNCHANGED <<realSize, created, joined, waitVars, workerVars, place>>

(* stop() of the next loop, also of one that no thread has initialised.    *)
StopLoop ==
  /\ caller = "stopping"
  /\ stopped < MaxThreads
  /\ going' = [going EXCEPT ![stopped] = FALSE]
  /\ caller' = "writing"
  /\ UNCHANGED <<realSize, created, joined, stopped, waitVars, initialised, wakeUp, lost, place>>

(* writeWakeUpFd writes a word that was not initialised (EventLoop.h:63):  *)
(* the eventfd takes no notice of 0, and refuses 2^64 - 1.  A loop that    *)
(* has no eventfd hears nothing; what its write hits is left out.          *)
WriteWakeUp ==
  /\ caller = "writing"
  /\ \E heard \in BOOLEAN :
       /\ heard => initialised[stopped]
       /\ wakeUp' = [wakeUp EXCEPT ![stopped] = @ \/ heard]
       /\ lost' = [lost EXCEPT ![stopped] = ~ heard]
  /\ stopped' = stopped + 1
  /\ caller' = "stopping"
  /\ UNCHANGED <<realSize, created, joined, waitVars, going, initialised, place>>

(* A slip: a thread is let go instead of joined.                           *)
LetGo(i) == TRUE

(* join() returns when the thread has ended.                               *)
Ended(i) == place[i] = "ended"

Join ==
  /\ caller = "stopping"
  /\ stopped = MaxThreads
  /\ joined < created
  /\ Ended(joined)
  /\ joined' = joined + 1
  /\ UNCHANGED <<caller, realSize, created, stopped, waitVars, workerVars, place>>

Destroyed ==
  /\ caller = "stopping"
  /\ stopped = MaxThreads
  /\ joined = created
  /\ caller' = "gone"
  /\ UNCHANGED <<realSize, created, joined, stopped, waitVars, workerVars, place>>

-----------------------------------------------------------------------------
WorkerStep(i) == InitLoop(i) \/ Count(i) \/ TestLooping(i) \/ WakesUp(i)

(* The owner wakes when it was notified.                                   *)
CallerStep ==
  \/ CreateThread
  \/ (caller = "waiting" => notified) /\ WaitTests
  \/ StopLoop \/ WriteWakeUp \/ Join \/ Destroyed

Next ==
  \/ \E nums \in 0 .. MaxThreads : SetHelperThreadsNum(nums)
  \/ CallerStep
  \/ WaitTests
  \/ Destroy
  \/ \E i \in Worker : WorkerStep(i) \/ HandlesEvents(i)

Spec == Init /\ [][Next]_vars

(***************************************************************************)
(* Fairness.  Threads run while they are not blocked; epoll_wait returns   *)
(* while the wakeUpFd is readable.  No other event has to come, no wake-up *)
(* of cv_ has to be spurious, and nobody has to start or to destroy the    *)
(* pool.                                                                   *)
(***************************************************************************)
Fairness ==
  /\ WF_vars(CallerStep)
  /\ \A i \in Worker : WF_vars(WorkerStep(i))

FairSpec == Spec /\ Fairness

-----------------------------------------------------------------------------
(* Properties.                                                             *)

TypeOK ==
  /\ caller \in {"new", "creating", "waiting", "returned", "stopping", "writing", "gone"}
  /\ realSize \in 0 .. MaxThreads
  /\ created \in 0 .. realSize
  /\ joined \in 0 .. created
  /\ stopped \in 0 .. MaxThreads
  /\ cnt \in 0 .. created
  /\ notified \in BOOLEAN
  /\ going \in [Worker -> BOOLEAN]
  /\ initialised \in [Worker -> BOOLEAN]
  /\ wakeUp \in [Worker -> BOOLEAN]
  /\ lost \in [Worker -> BOOLEAN]
  /\ place \in [Worker -> {"none", "init", "count", "run", "poll", "ended"}]

(* setHelperThreadsNumAndStart returns with every thread past init()       *)
(* (EventLoopPool.h:70): a loop that getNextPool hands out has its epoller *)
(* and wake-up descriptor, and stop() reaches it.                          *)
ReadyOnReturn ==
  caller \in {"returned", "stopping", "writing", "gone"} =>
    \A i \in 0 .. realSize - 1 : initialised[i] /\ place[i] \in {"run", "poll", "ended"}

(* The destructor ends with no thread left that would run on the loops it  *)
(* destroys.                                                               *)
NoThreadLeft == caller = "gone" => \A i \in Worker : place[i] \in {"none", "ended"}

(* Both calls of the owner return.  No notification is lost between the    *)
(* test of the predicate and the wait; and the destructor ends, wherever   *)
(* the workers are as it stops their loops, unless one that waits for      *)
(* events was sent a word that the eventfd does not hear of                *)
(* (EventLoop.h:63), and waits for ever.                                   *)
CallsReturn ==
  /\ caller = "creating" ~> caller = "returned"
  /\ \/ caller = "stopping" ~> caller = "gone"
     \/ \E i \in Worker : <>[](lost[i] /\ place[i] = "poll")
=============================================================================
