--------------------------- MODULE EventLoopProofs ---------------------------
(***************************************************************************)
(* For every set of tasks, of calling threads and of descriptors, whatever *)
(* the wake-up words are: EventLoop keeps its types, its flag covers the   *)
(* vector being run, and it implements TaskQueue.                          *)
(***************************************************************************)
EXTENDS EventLoop, TLAPS

-----------------------------------------------------------------------------
(* Facts about the operators.                                              *)

(* A write to the eventfd keeps the count within what the kernel allows.   *)
LEMMA EfdWriteType ==
  ASSUME NEW count \in 0 .. EfdMax, NEW word \in WakeWord
  PROVE  EfdWrite(count, word) \in 0 .. EfdMax
BY EventLoopAssumption DEF EfdWrite

(* What waits in the abstract queue is in the running vector or in tasks_. *)
LEMMA OccursInConcat ==
  ASSUME NEW S, NEW a \in Seq(S), NEW b \in Seq(S), NEW k,
         k \notin ToSet(a), k \notin ToSet(b)
  PROVE  ~ Abstract!Occurs(k, a \o b)
<1>1. \A i \in 1 .. Len(a) : a[i] # k
  BY DEF ToSet
<1>2. \A i \in 1 .. Len(b) : b[i] # k
  BY DEF ToSet
<1>3. SUFFICES ASSUME NEW i \in 1 .. Len(a) + Len(b)
               PROVE  (a \o b)[i] # k
  BY DEF Abstract!Occurs
<1>4. CASE i <= Len(a)
  BY <1>1, <1>4
<1>5. CASE i > Len(a)
  <2>1. /\ i - Len(a) \in 1 .. Len(b)
        /\ (a \o b)[i] = b[i - Len(a)]
    BY <1>5
  <2>2. QED
    BY <2>1, <1>2
<1>6. QED
  BY <1>4, <1>5

LEMMA ConcatAppend ==
  ASSUME NEW S, NEW a \in Seq(S), NEW b \in Seq(S), NEW k \in S
  PROVE  a \o Append(b, k) = Append(a \o b, k)
OBVIOUS

LEMMA ConcatHeadTail ==
  ASSUME NEW S, NEW a \in Seq(S), NEW b \in Seq(S), a # <<>>
  PROVE  /\ a \o b # <<>>
         /\ Head(a \o b) = Head(a)
         /\ Tail(a \o b) = Tail(a) \o b
OBVIOUS

LEMMA ConcatEmpty ==
  ASSUME NEW S, NEW a \in Seq(S)
  PROVE  /\ <<>> \o a = a
         /\ a \o <<>> = a
OBVIOUS
-----------------------------------------------------------------------------
(* Type correctness.                                                       *)

(* No sequence of calls, wake-ups and events takes a field of EventLoop    *)
(* out of its type; the eventfd count stays within the kernel's bound.     *)
THEOREM TypeCorrect == LoopSpec => []LoopTypeOK
<1>1. LoopInit => LoopTypeOK
  <2> SUFFICES ASSUME LoopInit
               PROVE  LoopTypeOK
    OBVIOUS
  <2>1. wakeCount \in 0 .. EfdMax
    BY EventLoopAssumption DEF LoopInit
  <2>2. call \in [Thread -> {"idle", "pushed", "wake"}]
    BY DEF LoopInit
  <2>3. /\ tasks \in Seq(Task)
        /\ curTask \in Seq(Task)
        /\ done \in Seq(Task)
    BY DEF LoopInit
  <2>4. QED
    BY <2>1, <2>2, <2>3 DEF LoopInit, LoopTypeOK
<1>2. LoopTypeOK /\ [LoopNext]_loopVars => LoopTypeOK'
  <2> SUFFICES ASSUME LoopTypeOK, [LoopNext]_loopVars
               PROVE  LoopTypeOK'
    OBVIOUS
  <2> USE DEF LoopTypeOK
  <2>loop. CASE LoopStep
    <3>1. CASE CheckLooping
      BY <3>1 DEF CheckLooping
    <3>2. CASE Poll
      BY <3>2 DEF Poll, Readable
    <3>3. CASE HandleWakeUp
      BY <3>3, EventLoopAssumption DEF HandleWakeUp
    <3>4. CASE \E s \in Source : HandleSource(s)
      BY <3>4 DEF HandleSource
    <3>5. CASE CallbackReturns
      BY <3>5 DEF CallbackReturns
    <3>6. CASE BeginTasks
      BY <3>6 DEF BeginTasks
    <3>7. CASE SwapTasks
      BY <3>7 DEF SwapTasks
    <3>8. CASE RunTask
      BY <3>8 DEF RunTask
    <3>9. CASE TaskReturns
      BY <3>9 DEF TaskReturns
    <3>10. CASE EndTasks
      BY <3>10 DEF EndTasks
    <3>11. QED
      BY <2>loop, <3>1, <3>2, <3>3, <3>4, <3>5, <3>6, <3>7, <3>8, <3>9, <3>10
         DEF LoopStep
  <2>intr. CASE PollInterrupted
    BY <2>intr DEF PollInterrupted
  <2>test. ASSUME NEW t \in Thread, TestFlag(t)
        PROVE  LoopTypeOK'
    BY <2>test DEF TestFlag
  <2>write. ASSUME NEW t \in Thread, WriteWakeUpFd(t)
        PROVE  LoopTypeOK'
    <3>1. wakeCount' \in 0 .. EfdMax
      BY <2>write, EfdWriteType DEF WriteWakeUpFd
    <3>2. QED
      BY <2>write, <3>1 DEF WriteWakeUpFd
  <2>stop. ASSUME NEW t \in Thread, Stop(t)
        PROVE  LoopTypeOK'
    BY <2>stop DEF Stop
  <2>push. ASSUME NEW t \in Thread, NEW k \in Task, Push(t, k)
        PROVE  LoopTypeOK'
    BY <2>push DEF Push
  <2>source. ASSUME NEW s \in Source, SourceReady(s)
        PROVE  LoopTypeOK'
    BY <2>source DEF SourceReady
  <2>stutter. CASE UNCHANGED loopVars
    BY <2>stutter DEF loopVars
  <2> QED
    BY <2>loop, <2>intr, <2>test, <2>write, <2>stop, <2>push, <2>source,
       <2>stutter DEF LoopNext, CallStep
<1>3. QED
  BY <1>1, <1>2, PTL DEF LoopSpec

-----------------------------------------------------------------------------
(* The flag.                                                               *)

(* isInTaskHanding_ covers the whole life of the vector start() swapped    *)
(* out, so nothing that was accepted is ever outside curTask and tasks_.   *)
THEOREM FlagCorrect == LoopSpec => []FlagCoversTasks
<1>1. LoopInit => FlagCoversTasks
  BY DEF LoopInit, FlagCoversTasks
<1>2. LoopTypeOK /\ FlagCoversTasks /\ [LoopNext]_loopVars => FlagCoversTasks'
  <2> SUFFICES ASSUME LoopTypeOK, FlagCoversTasks, [LoopNext]_loopVars
               PROVE  FlagCoversTasks'
    OBVIOUS
  <2> USE DEF FlagCoversTasks
  <2>1. CASE LoopStep
    <3>1. CASE CheckLooping
      BY <3>1 DEF CheckLooping
    <3>2. CASE Poll
      BY <3>2 DEF Poll
    <3>3. CASE HandleWakeUp
      BY <3>3 DEF HandleWakeUp
    <3>4. CASE \E s \in Source : HandleSource(s)
      BY <3>4 DEF HandleSource
    <3>5. CASE CallbackReturns
      BY <3>5 DEF CallbackReturns
    <3>6. CASE BeginTasks
      BY <3>6 DEF BeginTasks
    <3>7. CASE SwapTasks
      BY <3>7 DEF SwapTasks
    <3>8. CASE RunTask
      BY <3>8 DEF RunTask
    <3>9. CASE TaskReturns
      BY <3>9 DEF TaskReturns
    <3>10. CASE EndTasks
      BY <3>10 DEF EndTasks
    <3>11. QED
      BY <2>1, <3>1, <3>2, <3>3, <3>4, <3>5, <3>6, <3>7, <3>8, <3>9, <3>10
         DEF LoopStep
  <2>2. CASE PollInterrupted
    BY <2>2 DEF PollInterrupted
  <2>3. CASE \E t \in Thread : \/ CallStep(t)
                               \/ Stop(t)
                               \/ \E k \in Task : Push(t, k)
    BY <2>3 DEF CallStep, TestFlag, WriteWakeUpFd, Stop, Push
  <2>4. CASE \E s \in Source : SourceReady(s)
    BY <2>4 DEF SourceReady
  <2>stutter. CASE UNCHANGED loopVars
    BY <2>stutter DEF loopVars
  <2>6. QED
    BY <2>stutter, <2>1, <2>2, <2>3, <2>4 DEF LoopNext
<1>3. QED
  BY <1>1, <1>2, TypeCorrect, PTL DEF LoopSpec

-----------------------------------------------------------------------------
(* The refinement.  Two actions move the abstract queue, Push and RunTask; *)
(* SwapTasks moves tasks from one half of it to the other, which is empty  *)
(* then because FlagCoversTasks holds; every other step leaves it alone.   *)

LEMMA PushSubmits ==
  ASSUME LoopTypeOK, NEW t \in Thread, NEW k \in Task, Push(t, k)
  PROVE  Abstract!Submit(k)
<1> USE DEF LoopTypeOK
<1>1. /\ tasks' = Append(tasks, k)
      /\ UNCHANGED <<curTask, done>>
      /\ k \notin ToSet(tasks)
      /\ k \notin ToSet(curTask)
      /\ k \notin ToSet(done)
  BY DEF Push
<1>2. ~ Abstract!Occurs(k, curTask \o tasks)
  BY <1>1, OccursInConcat
<1>3. ~ Abstract!Occurs(k, done)
  BY <1>1 DEF Abstract!Occurs, ToSet
<1>4. (curTask \o tasks)' = Append(curTask \o tasks, k)
  BY <1>1, ConcatAppend
<1>5. QED
  BY <1>1, <1>2, <1>3, <1>4 DEF Abstract!Submit

LEMMA RunTaskExecutes ==
  ASSUME LoopTypeOK, RunTask
  PROVE  Abstract!Execute
<1> USE DEF LoopTypeOK
<1>1. /\ curTask # <<>>
      /\ done' = Append(done, Head(curTask))
      /\ curTask' = Tail(curTask)
      /\ UNCHANGED tasks
  BY DEF RunTask
<1>2. /\ curTask \o tasks # <<>>
      /\ Head(curTask \o tasks) = Head(curTask)
      /\ Tail(curTask \o tasks) = Tail(curTask) \o tasks
  BY <1>1, ConcatHeadTail
<1>3. QED
  BY <1>1, <1>2 DEF Abstract!Execute

LEMMA SwapStutters ==
  ASSUME LoopTypeOK, FlagCoversTasks, SwapTasks
  PROVE  UNCHANGED Abstract!vars
<1> USE DEF LoopTypeOK
<1>1. /\ curTask = <<>>
      /\ curTask' = tasks
      /\ tasks' = <<>>
      /\ UNCHANGED done
  BY DEF SwapTasks, FlagCoversTasks
<1>2. /\ curTask \o tasks = tasks
      /\ tasks \o <<>> = tasks
  BY <1>1, ConcatEmpty
<1>3. QED
  BY <1>1, <1>2 DEF Abstract!vars

(* Whatever the interleaving of callers and loop, each accepted task is    *)
(* executed at most once and in the order in which lock_ admitted it.      *)
THEOREM Refinement == LoopSpec => ImplementsTaskQueue
<1>1. LoopInit => Abstract!Init
  BY ConcatEmpty DEF LoopInit, Abstract!Init
<1>2. LoopTypeOK /\ FlagCoversTasks /\ [LoopNext]_loopVars => [Abstract!Next]_(Abstract!vars)
  <2> SUFFICES ASSUME LoopTypeOK, FlagCoversTasks, [LoopNext]_loopVars
               PROVE  Abstract!Next \/ UNCHANGED Abstract!vars
    BY DEF Abstract!vars
  <2>1. ASSUME UNCHANGED <<curTask, tasks, done>>
        PROVE  UNCHANGED Abstract!vars
    BY <2>1 DEF Abstract!vars
  <2>2. CASE LoopStep
    <3>1. CASE SwapTasks
      BY <3>1, SwapStutters
    <3>2. CASE RunTask
      BY <3>2, RunTaskExecutes DEF Abstract!Next
    <3>3. CASE \/ CheckLooping \/ Poll
               \/ HandleWakeUp \/ (\E s \in Source : HandleSource(s)) \/ CallbackReturns
               \/ BeginTasks \/ TaskReturns \/ EndTasks
      BY <2>1, <3>3 DEF CheckLooping, Poll, HandleWakeUp, HandleSource,
         CallbackReturns, BeginTasks, TaskReturns, EndTasks
    <3>4. QED
      BY <2>2, <3>1, <3>2, <3>3 DEF LoopStep
  <2>3. ASSUME NEW t \in Thread, NEW k \in Task, Push(t, k)
        PROVE  Abstract!Next
    BY <2>3, PushSubmits DEF Abstract!Next
  <2>4. CASE \E t \in Thread : CallStep(t) \/ Stop(t)
    BY <2>1, <2>4 DEF CallStep, TestFlag, WriteWakeUpFd, Stop
  <2>5. CASE PollInterrupted \/ (\E s \in Source : SourceReady(s))
    BY <2>1, <2>5 DEF PollInterrupted, SourceReady
  <2>stutter. CASE UNCHANGED loopVars
    BY <2>1, <2>stutter DEF loopVars
  <2>7. QED
    BY <2>stutter, <2>2, <2>3, <2>4, <2>5 DEF LoopNext
<1>3. QED
  BY <1>1, <1>2, TypeCorrect, FlagCorrect, PTL
     DEF LoopSpec, ImplementsTaskQueue, Abstract!Spec
-----------------------------------------------------------------------------
(* The wake-up of stop().                                                  *)

(* A loop that was stopped and polls has a wake-up to read, or somebody is *)
(* about to write it: stop() lowers looping_ first, and no wake-up that is *)
(* read can be one that start() does not answer by testing looping_ again  *)
(* (EventLoop.h:51).  The words are those that the kernel takes: with 0 or *)
(* 2^64 - 1 in the uninitialised tmp the loop sleeps until something else  *)
(* happens.                                                                *)
StopIsHeard ==
  WakeWord \subseteq 1 .. EfdMax =>
    (~ looping /\ pc = "poll" => wakeCount > 0 \/ \E t \in Caller : call[t] = "wake")

(* The loop thread calls from its callbacks and tasks only.                *)
OwnCalls == call[LoopThread] # "idle" => pc \in {"callback", "task"}

(* A word of that kind leaves no eventfd at 0, fit or not.                 *)
LEMMA EfdWriteWakes ==
  ASSUME NEW count \in 0 .. EfdMax, NEW word \in 1 .. EfdMax
  PROVE  EfdWrite(count, word) > 0
BY EventLoopAssumption DEF EfdWrite

LEMMA OwnCallsCorrect == LoopSpec => []OwnCalls
<1>1. LoopInit => OwnCalls
  BY DEF LoopInit, OwnCalls, Thread
<1>2. LoopTypeOK /\ OwnCalls /\ [LoopNext]_loopVars => OwnCalls'
  <2> SUFFICES ASSUME LoopTypeOK, OwnCalls, [LoopNext]_loopVars
               PROVE  OwnCalls'
    OBVIOUS
  <2> USE DEF OwnCalls
  <2>1. CASE LoopStep
    BY <2>1 DEF LoopStep, CheckLooping, Poll, HandleWakeUp, HandleSource, CallbackReturns,
       BeginTasks, SwapTasks, RunTask, TaskReturns, EndTasks
  <2>2. ASSUME NEW t \in Thread,
               CallStep(t) \/ Stop(t) \/ (\E k \in Task : Push(t, k))
        PROVE  OwnCalls'
    <3>1. /\ pc' = pc
          /\ \E at \in {"idle", "pushed", "wake"} : call' = [call EXCEPT ![t] = at]
          /\ t = LoopThread /\ call[t] = "idle" => pc \in {"callback", "task"}
      BY <2>2 DEF CallStep, TestFlag, WriteWakeUpFd, Stop, Push, MayCall
    <3>2. call \in [Thread -> {"idle", "pushed", "wake"}] /\ LoopThread \in Thread
      BY DEF LoopTypeOK, Thread
    <3>3. CASE t = LoopThread
      BY <3>1, <3>3
    <3>4. CASE t # LoopThread
      BY <3>1, <3>2, <3>4
    <3>5. QED
      BY <3>3, <3>4
  <2>3. CASE PollInterrupted
    BY <2>3 DEF PollInterrupted
  <2>4. CASE \E s \in Source : SourceReady(s)
    BY <2>4 DEF SourceReady
  <2>stutter. CASE UNCHANGED loopVars
    BY <2>stutter DEF loopVars
  <2>5. QED
    BY <2>stutter, <2>1, <2>2, <2>3, <2>4 DEF LoopNext
<1>3. QED
  BY <1>1, <1>2, TypeCorrect, PTL DEF LoopSpec

(* For every number of callers, descriptors and tasks a stop() that was    *)
(* called reaches the loop, wherever in start() it finds it.               *)
THEOREM StopCorrect == LoopSpec => []StopIsHeard
<1>1. LoopInit => StopIsHeard
  BY DEF LoopInit, StopIsHeard
<1>2. LoopTypeOK /\ OwnCalls /\ StopIsHeard /\ [LoopNext]_loopVars => StopIsHeard'
  <2> SUFFICES ASSUME LoopTypeOK, OwnCalls, StopIsHeard, [LoopNext]_loopVars,
                      WakeWord \subseteq 1 .. EfdMax, ~ looping', pc' = "poll"
               PROVE  wakeCount' > 0 \/ \E t \in Caller : call'[t] = "wake"
    BY DEF StopIsHeard
  <2> DEFINE Heard == wakeCount > 0 \/ \E t \in Caller : call[t] = "wake"
  <2>1. ~ looping /\ pc = "poll" => Heard
    BY DEF StopIsHeard
  <2> HIDE DEF Heard
  <2>2. ASSUME NEW t \in Thread, Stop(t) PROVE Heard'
    <3>1. t # LoopThread /\ pc = "poll"
      BY <2>2 DEF Stop, MayCall
    <3>2. t \in Caller /\ call'[t] = "wake"
      BY <2>2, <3>1 DEF Stop, Thread, LoopTypeOK
    <3>3. QED
      BY <3>2 DEF Heard
  <2>3. ASSUME NEW t \in Thread, WriteWakeUpFd(t) PROVE Heard'
    <3>1. PICK word \in WakeWord : wakeCount' = EfdWrite(wakeCount, word)
      BY <2>3 DEF WriteWakeUpFd
    <3>2. word \in 1 .. EfdMax /\ wakeCount \in 0 .. EfdMax
      BY <3>1 DEF LoopTypeOK
    <3>3. wakeCount' > 0
      BY <3>1, <3>2, EfdWriteWakes
    <3>4. QED
      BY <3>3 DEF Heard
  <2>4. ASSUME NEW t \in Thread, TestFlag(t) PROVE Heard'
    <3>1. looping' = looping /\ pc' = pc /\ wakeCount' = wakeCount /\ call[t] = "pushed"
          /\ \A u \in Caller : u # t => call'[u] = call[u]
      BY <2>4 DEF TestFlag, LoopTypeOK, Thread
    <3>2. Heard
      BY <2>1, <3>1
    <3>3. QED
      BY <3>1, <3>2 DEF Heard
  <2>5. ASSUME NEW t \in Thread, NEW k \in Task, Push(t, k) PROVE Heard'
    <3>1. looping' = looping /\ pc' = pc /\ wakeCount' = wakeCount /\ call[t] = "idle"
          /\ \A u \in Caller : u # t => call'[u] = call[u]
      BY <2>5 DEF Push, MayCall, LoopTypeOK, Thread
    <3>2. Heard
      BY <2>1, <3>1
    <3>3. QED
      BY <3>1, <3>2 DEF Heard
  (* The loop thread only starts to poll with looping_ up.                 *)
  <2>6. ~ LoopStep
    BY DEF LoopStep, CheckLooping, Poll, HandleWakeUp, HandleSource, CallbackReturns,
       BeginTasks, SwapTasks, RunTask, TaskReturns, EndTasks
  <2>7. ~ PollInterrupted
    BY DEF PollInterrupted
  <2>8. ASSUME \/ \E s \in Source : SourceReady(s)
               \/ UNCHANGED loopVars
        PROVE  Heard'
    <3>1. UNCHANGED <<looping, pc, wakeCount, call>>
      BY <2>8 DEF SourceReady, loopVars
    <3>2. Heard
      BY <2>1, <3>1
    <3>3. QED
      BY <3>1, <3>2 DEF Heard
  <2>9. Heard'
    BY <2>2, <2>3, <2>4, <2>5, <2>6, <2>7, <2>8 DEF LoopNext, CallStep
  <2>10. QED
    BY <2>9 DEF Heard
<1>3. QED
  BY <1>1, <1>2, TypeCorrect, OwnCallsCorrect, PTL DEF LoopSpec
=============================================================================
