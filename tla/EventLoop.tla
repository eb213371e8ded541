------------------------------ MODULE EventLoop ------------------------------
(***************************************************************************)
(* One EventLoop (src/src/EventLoop.h): the thread that runs start(), the  *)
(* threads that call runInLoop() and stop(), and the two kernel objects    *)
(* they meet on, the epoll instance and the eventfd behind wakeUpFd.       *)
(*                                                                         *)
(* The critical sections of lock_ only touch tasks, so each of them is one *)
(* step; everything else a thread does to shared state is a step of its    *)
(* own.  The fields keep their names without the trailing underscore.      *)
(***************************************************************************)
EXTENDS Integers, SequencesExt

CONSTANTS
  Task,            (* the closures handed to runInLoop, each at most once   *)
  Caller,          (* the threads that call runInLoop or stop               *)
  LoopThread,      (* the thread that runs start(); its callbacks call too  *)
  Source,          (* descriptors registered besides wakeUpFd: sockets and  *)
                   (* timerfds, fewer than Epoller::MAX_EVENTS of them      *)
  EfdMax,          (* the largest count of an eventfd, 2^64 - 2 in Linux    *)
  WakeWord         (* what the uninitialised tmp of writeWakeUpFd may hold  *)

WakeUpFd == "wakeUpFd"
Thread   == Caller \union {LoopThread}

ASSUME EventLoopAssumption ==
  /\ LoopThread \notin Caller
  /\ WakeUpFd \notin Source
  /\ EfdMax \in Nat \ {0}
  /\ WakeWord \subseteq 0 .. EfdMax + 1
  /\ WakeWord # {}

VARIABLES
  looping,         (* looping_                                              *)
  isInTaskHanding, (* isInTaskHanding_                                      *)
  tasks,           (* tasks_                                                *)
  curTask,         (* the vector start() swapped out, less what it has run  *)
  done,            (* history: the tasks executed, in order                 *)
  wakeCount,       (* kernel: the count of the eventfd                      *)
  ready,           (* kernel: the sources that are readable                 *)
  polled,          (* what poll() returned, less what start() has handled   *)
  pc,              (* where the loop thread is in start()                   *)
  call             (* where each thread is in runInLoop() or stop()         *)

loopVars == <<looping, isInTaskHanding, tasks, curTask, done,
              wakeCount, ready, polled, pc, call>>

LoopInit ==
  /\ looping = TRUE
  /\ isInTaskHanding = FALSE
  /\ tasks = <<>>
  /\ curTask = <<>>
  /\ done = <<>>
  /\ wakeCount = 0
  /\ ready = {}
  /\ polled = {}
  /\ pc = "check"
  /\ call = [t \in Thread |-> "idle"]

-----------------------------------------------------------------------------
(* The threads that call into the loop.                                    *)

(* The loop thread calls from a callback or from a task, any other thread  *)
(* whenever it likes.                                                      *)
MayCall(t) ==
  /\ call[t] = "idle"
  /\ t = LoopThread => pc \in {"callback", "task"}

(* runInLoop: push_back under lock_.                                       *)
Push(t, k) ==
  /\ MayCall(t)
  /\ \A s \in {tasks, curTask, done} : k \notin ToSet(s)
  /\ tasks' = Append(tasks, k)
  /\ call' = [call EXCEPT ![t] = "pushed"]
  /\ UNCHANGED <<looping, isInTaskHanding, curTask, done, wakeCount, ready, polled, pc>>

(* runInLoop: the test of isInTaskHanding_ after lock_ is released.        *)
TestFlag(t) ==
  /\ call[t] = "pushed"
  /\ call' = [call EXCEPT ![t] = IF isInTaskHanding THEN "idle" ELSE "wake"]
  /\ UNCHANGED <<looping, isInTaskHanding, tasks, curTask, done, wakeCount,
                 ready, polled, pc>>

(* stop: looping_ = false, before the wake-up is written.                  *)
Stop(t) ==
  /\ MayCall(t)
  /\ looping' = FALSE
  /\ call' = [call EXCEPT ![t] = "wake"]
  /\ UNCHANGED <<isInTaskHanding, tasks, curTask, done, wakeCount, ready, polled, pc>>

(* A slip: the count of a blocking eventfd is taken to be unbounded.       *)
EfdWriteUnbounded(count, word) == count + word

(* write(2) on a non-blocking eventfd: the word 2^64 - 1 is refused with   *)
(* EINVAL, a word that does not fit with EAGAIN; the caller ignores both.  *)
EfdWrite(count, word) ==
  IF word = EfdMax + 1 \/ count + word > EfdMax THEN count ELSE count + word

(* writeWakeUpFd: eight uninitialised bytes are written.                   *)
WriteWakeUpFd(t) ==
  /\ call[t] = "wake"
  /\ \E word \in WakeWord : wakeCount' = EfdWrite(wakeCount, word)
  /\ call' = [call EXCEPT ![t] = "idle"]
  /\ UNCHANGED <<looping, isInTaskHanding, tasks, curTask, done, ready, polled, pc>>

(* The peer of a socket sends, a timer expires.                            *)
SourceReady(s) ==
  /\ s \notin ready
  /\ ready' = ready \union {s}
  /\ UNCHANGED <<looping, isInTaskHanding, tasks, curTask, done, wakeCount,
                 polled, pc, call>>

-----------------------------------------------------------------------------
(* The loop thread, in the order of start().                               *)

(* A slip: while (true).                                                   *)
LoopForever ==
  /\ pc = "check"
  /\ pc' = "poll"
  /\ UNCHANGED <<looping, isInTaskHanding, tasks, curTask, done, wakeCount,
                 ready, polled, call>>

CheckLooping ==
  /\ pc = "check"
  /\ pc' = IF looping THEN "poll" ELSE "exited"
  /\ UNCHANGED <<looping, isInTaskHanding, tasks, curTask, done, wakeCount,
                 ready, polled, call>>

Readable == ready \union (IF wakeCount > 0 THEN {WakeUpFd} ELSE {})

(* epoll_wait without a timeout: it returns when some descriptor is ready. *)
Poll ==
  /\ pc = "poll"
  /\ Readable # {}
  /\ polled' = Readable
  /\ pc' = "dispatch"
  /\ UNCHANGED <<looping, isInTaskHanding, tasks, curTask, done, wakeCount, ready, call>>

(* epoll_wait interrupted by a signal: poll() returns no event.            *)
PollInterrupted ==
  /\ pc = "poll"
  /\ pc' = "dispatch"
  /\ UNCHANGED <<looping, isInTaskHanding, tasks, curTask, done, wakeCount,
                 ready, polled, call>>

(* The event of wakeUpFd: readWakeUpFd resets the count.                   *)
HandleWakeUp ==
  /\ pc = "dispatch"
  /\ WakeUpFd \in polled
  /\ polled' = polled \ {WakeUpFd}
  /\ wakeCount' = 0
  /\ UNCHANGED <<looping, isInTaskHanding, tasks, curTask, done, ready, pc, call>>

(* Any other event: its callback consumes what made it ready.              *)
HandleSource(s) ==
  /\ pc = "dispatch"
  /\ s \in polled
  /\ polled' = polled \ {s}
  /\ ready' = ready \ {s}
  /\ pc' = "callback"
  /\ UNCHANGED <<looping, isInTaskHanding, tasks, curTask, done, wakeCount, call>>

CallbackReturns ==
  /\ pc = "callback"
  /\ call[LoopThread] = "idle"
  /\ pc' = "dispatch"
  /\ UNCHANGED <<looping, isInTaskHanding, tasks, curTask, done, wakeCount,
                 ready, polled, call>>

(* isInTaskHanding_ = true, before lock_ is taken.                         *)
BeginTasks ==
  /\ pc = "dispatch"
  /\ polled = {}
  /\ isInTaskHanding' = TRUE
  /\ pc' = "swap"
  /\ UNCHANGED <<looping, tasks, curTask, done, wakeCount, ready, polled, call>>

(* Slips a change to the swap could make: copying the queue instead of     *)
(* swapping it, and clearing it before the swap instead of after.          *)
SwapKeepsTasks ==
  /\ pc = "swap"
  /\ curTask' = tasks
  /\ pc' = "run"
  /\ UNCHANGED <<looping, isInTaskHanding, tasks, done, wakeCount, ready, polled, call>>

SwapAfterClear ==
  /\ pc = "swap"
  /\ curTask' = <<>>
  /\ tasks' = <<>>
  /\ pc' = "run"
  /\ UNCHANGED <<looping, isInTaskHanding, done, wakeCount, ready, polled, call>>

(* curTask.swap(tasks_) under lock_.                                       *)
SwapTasks ==
  /\ pc = "swap"
  /\ curTask' = tasks
  /\ tasks' = <<>>
  /\ pc' = "run"
  /\ UNCHANGED <<looping, isInTaskHanding, done, wakeCount, ready, polled, call>>

RunTask ==
  /\ pc = "run"
  /\ curTask # <<>>
  /\ done' = Append(done, Head(curTask))
  /\ curTask' = Tail(curTask)
  /\ pc' = "task"
  /\ UNCHANGED <<looping, isInTaskHanding, tasks, wakeCount, ready, polled, call>>

TaskReturns ==
  /\ pc = "task"
  /\ call[LoopThread] = "idle"
  /\ pc' = "run"
  /\ UNCHANGED <<looping, isInTaskHanding, tasks, curTask, done, wakeCount,
                 ready, polled, call>>

(* A slip: the flag is never lowered.                                      *)
EndTasksKeepsFlag ==
  /\ pc = "run"
  /\ curTask = <<>>
  /\ pc' = "check"
  /\ UNCHANGED <<looping, isInTaskHanding, tasks, curTask, done, wakeCount,
                 ready, polled, call>>

(* isInTaskHanding_ = false, after the last task.                          *)
EndTasks ==
  /\ pc = "run"
  /\ curTask = <<>>
  /\ isInTaskHanding' = FALSE
  /\ pc' = "check"
  /\ UNCHANGED <<looping, tasks, curTask, done, wakeCount, ready, polled, call>>

-----------------------------------------------------------------------------
CallStep(t) == TestFlag(t) \/ WriteWakeUpFd(t)

LoopStep ==
  \/ CheckLooping \/ Poll
  \/ HandleWakeUp \/ (\E s \in Source : HandleSource(s)) \/ CallbackReturns
  \/ BeginTasks \/ SwapTasks \/ RunTask \/ TaskReturns \/ EndTasks

LoopNext ==
  \/ LoopStep
  \/ PollInterrupted
  \/ \E t \in Thread :
       \/ CallStep(t)
       \/ Stop(t)
       \/ \E k \in Task : Push(t, k)
  \/ \E s \in Source : SourceReady(s)

LoopSpec == LoopInit /\ [][LoopNext]_loopVars

(***************************************************************************)
(* Fairness.  A thread that is not blocked keeps running, so the loop      *)
(* thread and a call that has begun make progress.  A callback and a task  *)
(* end, however often they call the loop before.  Nobody has to call, and  *)
(* a signal need not come.                                                 *)
(***************************************************************************)
ThreadFairness ==
  /\ WF_loopVars(LoopStep)
  /\ []<>(pc \notin {"callback", "task"})
  /\ \A t \in Thread : WF_loopVars(CallStep(t))

LoopFairSpec == LoopSpec /\ ThreadFairness

(* The same, with a periodic timer registered on the loop, which is what   *)
(* addTimedTask(1000, 1000, ...) of tests/example_server.cpp does.         *)
TickingSpec == LoopFairSpec /\ \A s \in Source : WF_loopVars(SourceReady(s))

-----------------------------------------------------------------------------
(* Properties.                                                             *)

(* Every field holds a value of its C++ type, and each local of start()    *)
(* and runInLoop() one that its code can give it.                          *)
LoopTypeOK ==
  /\ looping \in BOOLEAN
  /\ isInTaskHanding \in BOOLEAN
  /\ tasks \in Seq(Task)
  /\ curTask \in Seq(Task)
  /\ done \in Seq(Task)
  /\ wakeCount \in 0 .. EfdMax
  /\ ready \subseteq Source
  /\ polled \subseteq Source \union {WakeUpFd}
  /\ pc \in {"check", "poll", "dispatch", "callback", "swap", "run", "task", "exited"}
  /\ call \in [Thread -> {"idle", "pushed", "wake"}]

(* isInTaskHanding_ is up exactly from before the swap until the last task *)
(* has run: outside that window start() holds no task, so what runInLoop   *)
(* accepted and the loop has not executed is in tasks_.                    *)
FlagCoversTasks ==
  /\ isInTaskHanding <=> pc \in {"swap", "run", "task"}
  /\ curTask # <<>> => pc \in {"run", "task"}

(* The refinement: the vector start() runs, followed by tasks_, is the     *)
(* queue of accepted tasks.                                                *)
Abstract == INSTANCE TaskQueue WITH waiting <- curTask \o tasks, done <- done

(* Every accepted task is executed at most once and in the order of        *)
(* acceptance, whatever the callers, the flag and the wake-ups do.         *)
ImplementsTaskQueue == Abstract!Spec

(* The loop is asleep in epoll_wait and no call that could wake it is      *)
(* under way.                                                              *)
Asleep ==
  /\ pc = "poll"
  /\ Readable = {}
  /\ \A t \in Thread : call[t] = "idle"

(* EventLoop.h:73 says runInLoop interrupts poll() because tasks would     *)
(* otherwise starve when no new event comes: a sleeping loop has no task.  *)
NoTaskSleeps == Asleep => tasks = <<>>

(* A task that runInLoop accepted is executed, unless the loop is stopped. *)
TaskIsExecuted ==
  \A k \in Task :
    k \in ToSet(curTask \o tasks) ~> (k \in ToSet(done) \/ ~ looping)

(* stop() makes start() return.                                            *)
StopEndsLoop == ~ looping ~> pc = "exited"
=============================================================================
