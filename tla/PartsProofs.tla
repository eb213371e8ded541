------------------------------ MODULE PartsProofs ------------------------------
(***************************************************************************)
(* What TLAPS proves of the components that MCParts puts side by side:     *)
(* EventLoopPool, SpinLock, FreeServerClient and Requests.                 *)
(***************************************************************************)
EXTENDS MCParts, FiniteSetTheorems, SequenceTheorems, WellFoundedInduction, TLAPS

-----------------------------------------------------------------------------
(* EventLoopPool: the start and the end of the worker threads, for every   *)
(* number of threads.  The counter cnt does not say which threads it has   *)
(* counted; the invariant says it with the set of those past init().       *)

(* The workers that cnt has counted.                                       *)
Counted == {i \in Worker : place[i] \in {"run", "poll", "ended"}}

CountInv ==
  /\ IsFiniteSet(Counted)
  /\ cnt = Cardinality(Counted)
  /\ \A i \in Worker : place[i] # "none" <=> i < created
  /\ \A i \in Worker : place[i] \in {"count", "run", "poll", "ended"} => initialised[i]

CallerInv ==
  /\ caller = "new" => created = 0
  /\ caller \notin {"new", "creating"} => created = realSize
  /\ caller \in {"returned", "stopping", "writing", "gone"} => cnt = realSize
  /\ \A i \in 0 .. joined - 1 : place[i] = "ended"
  /\ caller = "gone" => joined = created
  /\ caller = "writing" => stopped < MaxThreads

IInv == TypeOK /\ CountInv /\ CallerInv

-----------------------------------------------------------------------------
(* Facts about the set of the counted threads.                             *)

(* Only threads that were created are counted.                             *)
LEMMA CountedCreated ==
  ASSUME TypeOK, CountInv
  PROVE  /\ Counted \subseteq 0 .. created - 1
         /\ IsFiniteSet(0 .. created - 1)
         /\ Cardinality(0 .. created - 1) = created
<1>1. created \in Nat
  BY DEF TypeOK
<1>2. /\ IsFiniteSet(0 .. created - 1)
      /\ Cardinality(0 .. created - 1) = created
  BY <1>1, FS_Interval
<1>3. ASSUME NEW i \in Counted PROVE i \in 0 .. created - 1
  BY <1>1, <1>3 DEF CountInv, Counted, Worker
<1> QED
  BY <1>2, <1>3

(* When as many threads are counted as were created, all of them are.      *)
LEMMA AllCounted ==
  ASSUME TypeOK, CountInv, cnt = created
  PROVE  \A i \in 0 .. created - 1 : i \in Worker /\ place[i] \in {"run", "poll", "ended"}
<1>1. Counted = 0 .. created - 1
  BY CountedCreated, FS_Subset DEF CountInv
<1> QED
  BY <1>1 DEF Counted

(* A step that leaves the workers and the counter alone keeps CountInv.    *)
LEMMA CountInvKept ==
  ASSUME CountInv, UNCHANGED <<cnt, place, created, initialised>>
  PROVE  CountInv'
<1>1. Counted' = Counted
  BY DEF Counted
<1> QED
  BY <1>1 DEF CountInv

-----------------------------------------------------------------------------
LEMMA IInvInit ==
  ASSUME Init
  PROVE  IInv
<1>1. Counted = {}
  BY DEF Init, Counted
<1>2. CountInv
  BY <1>1, FS_EmptySet DEF CountInv, Init, Worker
<1>3. TypeOK
  <2>1. /\ going \in [Worker -> BOOLEAN] /\ initialised \in [Worker -> BOOLEAN]
        /\ wakeUp \in [Worker -> BOOLEAN] /\ lost \in [Worker -> BOOLEAN]
    BY Zenon DEF Init
  <2>2. place \in [Worker -> {"none", "init", "count", "run", "poll", "ended"}]
    BY Zenon DEF Init
  <2>3. notified \in BOOLEAN
    BY Zenon DEF Init
  <2>4. /\ realSize \in 0 .. MaxThreads /\ created \in 0 .. realSize
        /\ joined \in 0 .. created /\ stopped \in 0 .. MaxThreads
        /\ cnt \in 0 .. created
    BY EventLoopPoolAssumption DEF Init
  <2>5. caller = "new"
    BY DEF Init
  <2> QED
    BY <2>1, <2>2, <2>3, <2>4, <2>5, Zenon DEF TypeOK
<1>4. CallerInv
  BY DEF Init, CallerInv
<1> QED
  BY <1>2, <1>3, <1>4 DEF IInv

(* The steps of the owner.                                                 *)
LEMMA CallerKeepsIInv ==
  ASSUME IInv,
         \/ \E nums \in 0 .. MaxThreads : SetHelperThreadsNum(nums)
         \/ CreateThread \/ WaitTests \/ Destroy \/ StopLoop \/ WriteWakeUp
         \/ Join \/ Destroyed
  PROVE  IInv'
<1> USE DEF IInv
<1>1. ASSUME NEW nums \in 0 .. MaxThreads, SetHelperThreadsNum(nums) PROVE IInv'
  <2>1. CountInv'
    BY <1>1, CountInvKept DEF SetHelperThreadsNum, ownerVars, waitVars, workerVars
  <2> QED
    BY <1>1, <2>1 DEF SetHelperThreadsNum, TypeOK, CallerInv, ownerVars, waitVars, workerVars
<1>2. CASE CreateThread
  <2> USE <1>2 DEF CreateThread, ThreadsMissing, ownerVars, waitVars, workerVars
  <2>1. created \in Worker /\ place[created] = "none"
    BY EventLoopPoolAssumption DEF TypeOK, CountInv, Worker
  <2>2. Counted' = Counted
    BY <2>1 DEF Counted, TypeOK
  <2>3. CountInv'
    BY <2>1, <2>2 DEF CountInv, TypeOK, Worker
  <2>4. TypeOK'
    BY <2>1 DEF TypeOK
  <2>5. CallerInv'
    BY <2>1 DEF CallerInv, TypeOK, Worker
  <2> QED
    BY <2>3, <2>4, <2>5
<1>3. CASE WaitTests
  <2>1. CountInv'
    BY <1>3, CountInvKept DEF WaitTests, ownerVars, waitVars, workerVars
  <2> QED
    BY <1>3, <2>1 DEF WaitTests, AllReady, TypeOK, CallerInv, ownerVars, waitVars, workerVars
<1>4. CASE Destroy
  <2>1. CountInv'
    BY <1>4, CountInvKept DEF Destroy, ownerVars, waitVars, workerVars
  <2> QED
    BY <1>4, <2>1, EventLoopPoolAssumption
       DEF Destroy, FirstStopped, TypeOK, CallerInv, ownerVars, waitVars, workerVars
<1>5. CASE StopLoop
  <2>1. CountInv'
    BY <1>5, CountInvKept DEF StopLoop, ownerVars, waitVars, workerVars
  <2>2. going' \in [Worker -> BOOLEAN]
    BY <1>5, Zenon DEF StopLoop, TypeOK, ownerVars, waitVars, workerVars
  <2>3. TypeOK'
    BY <1>5, <2>2, EventLoopPoolAssumption DEF StopLoop, TypeOK, ownerVars, waitVars, workerVars
  <2>4. CallerInv'
    BY <1>5 DEF StopLoop, CallerInv, ownerVars, waitVars, workerVars
  <2> QED
    BY <2>1, <2>3, <2>4
<1>6. CASE WriteWakeUp
  <2>1. CountInv'
    BY <1>6, CountInvKept DEF WriteWakeUp, waitVars
  <2>2. stopped \in Worker /\ wakeUp \in [Worker -> BOOLEAN] /\ lost \in [Worker -> BOOLEAN]
    BY <1>6, EventLoopPoolAssumption DEF WriteWakeUp, TypeOK, CallerInv, Worker
  <2>3. wakeUp' \in [Worker -> BOOLEAN] /\ lost' \in [Worker -> BOOLEAN]
    BY <1>6, <2>2, Zenon DEF WriteWakeUp
  <2>4. TypeOK'
    BY <1>6, <2>3, EventLoopPoolAssumption DEF WriteWakeUp, TypeOK, CallerInv, waitVars
  <2>5. CallerInv'
    BY <1>6 DEF WriteWakeUp, CallerInv, waitVars
  <2> QED
    BY <2>1, <2>4, <2>5
<1>7. CASE Join
  <2>1. CountInv'
    BY <1>7, CountInvKept DEF Join, waitVars, workerVars
  <2> QED
    BY <1>7, <2>1 DEF Join, Ended, TypeOK, CallerInv, waitVars, workerVars
<1>8. CASE Destroyed
  <2>1. CountInv'
    BY <1>8, CountInvKept DEF Destroyed, waitVars, workerVars
  <2> QED
    BY <1>8, <2>1 DEF Destroyed, TypeOK, CallerInv, waitVars, workerVars
<1> QED
  BY <1>1, <1>2, <1>3, <1>4, <1>5, <1>6, <1>7, <1>8

(* The steps of a worker.                                                  *)
LEMMA WorkerKeepsIInv ==
  ASSUME IInv, NEW i \in Worker, WorkerStep(i) \/ HandlesEvents(i)
  PROVE  IInv'
<1> USE DEF IInv
<1>1. CASE InitLoop(i)
  <2> USE <1>1 DEF InitLoop, ownerVars, waitVars, workerVars
  <2>1. Counted' = Counted
    BY DEF Counted, TypeOK
  <2> QED
    BY <2>1 DEF TypeOK, CountInv, CallerInv, Worker
<1>2. CASE Count(i)
  <2> USE <1>2 DEF Count, ownerVars, waitVars, workerVars
  <2>1. Counted' = Counted \union {i} /\ i \notin Counted
    BY DEF Counted, TypeOK
  <2>2. IsFiniteSet(Counted') /\ cnt' = Cardinality(Counted')
    BY <2>1, FS_AddElement DEF CountInv
  <2>3. CountInv'
    BY <2>2 DEF CountInv, TypeOK
  <2>4. cnt < created
    <3>1. i \in 0 .. created - 1
      BY DEF CountInv, TypeOK, Worker
    <3>2. cnt # created
      BY <3>1, AllCounted
    <3> QED
      BY <3>2 DEF TypeOK
  <2> QED
    BY <2>3, <2>4 DEF TypeOK, CallerInv, Worker
<1>3. CASE TestLooping(i) \/ WakesUp(i) \/ HandlesEvents(i)
  <2>1. /\ UNCHANGED <<ownerVars, waitVars, going, initialised, lost>>
        /\ place[i] \in {"run", "poll"} /\ place' = [place EXCEPT ![i] = place'[i]]
        /\ place'[i] \in {"run", "poll", "ended"}
        /\ wakeUp' \in [Worker -> BOOLEAN]
    BY <1>3 DEF TestLooping, WakesUp, HandlesEvents, workerVars, TypeOK
  <2>2. Counted' = Counted
    BY <2>1 DEF Counted, TypeOK
  <2>3. CountInv'
    BY <2>1, <2>2 DEF CountInv, TypeOK, ownerVars, waitVars
  <2>4. TypeOK'
    BY <2>1 DEF TypeOK, ownerVars, waitVars
  <2>5. CallerInv'
    <3>1. \A j \in 0 .. joined - 1 : j \in Worker /\ place[j] = "ended" /\ j # i
      BY <2>1, EventLoopPoolAssumption DEF CallerInv, TypeOK, Worker
    <3>2. \A j \in 0 .. joined - 1 : place'[j] = "ended"
      BY <2>1, <3>1 DEF TypeOK
    <3> QED
      BY <2>1, <3>2 DEF CallerInv, ownerVars, waitVars
  <2> QED
    BY <2>3, <2>4, <2>5
<1> QED
  BY <1>1, <1>2, <1>3 DEF WorkerStep

LEMMA IInvAlways == Spec => []IInv
<1>1. Init => IInv
  BY IInvInit
<1>2. IInv /\ [Next]_vars => IInv'
  <2> SUFFICES ASSUME IInv, [Next]_vars PROVE IInv'
    OBVIOUS
  <2>1. CASE UNCHANGED vars
    <3>1. CountInv'
      BY <2>1, CountInvKept DEF vars, IInv
    <3> QED
      BY <2>1, <3>1 DEF vars, IInv, TypeOK, CallerInv
  <2>2. CASE Next
    BY <2>2, CallerKeepsIInv, WorkerKeepsIInv DEF Next, CallerStep
  <2> QED
    BY <2>1, <2>2
<1> QED
  BY <1>1, <1>2, PTL DEF Spec

-----------------------------------------------------------------------------
(* setHelperThreadsNumAndStart returns with every thread past init()       *)
(* (EventLoopPool.h:53, 70).                                               *)
THEOREM StartIsReady == Spec => []ReadyOnReturn
<1>1. ASSUME IInv PROVE ReadyOnReturn
  <2> SUFFICES ASSUME caller \in {"returned", "stopping", "writing", "gone"},
                      NEW i \in 0 .. realSize - 1
               PROVE  initialised[i] /\ place[i] \in {"run", "poll", "ended"}
    BY DEF ReadyOnReturn
  <2>1. created = realSize /\ cnt = created
    BY <1>1 DEF IInv, CallerInv
  <2>2. i \in Worker /\ place[i] \in {"run", "poll", "ended"}
    BY <1>1, <2>1, AllCounted DEF IInv
  <2> QED
    BY <1>1, <2>2 DEF IInv, CountInv
<1>2. IInv => ReadyOnReturn
  BY <1>1
<1> QED
  BY <1>2, IInvAlways, PTL

(* ~EventLoopPool ends with every worker thread ended (EventLoopPool.h:60).*)
THEOREM NoneIsLeft == Spec => []NoThreadLeft
<1>1. IInv => NoThreadLeft
  BY DEF IInv, TypeOK, CountInv, CallerInv, NoThreadLeft, Worker
<1> QED
  BY <1>1, IInvAlways, PTL

(* The owner of the pool never waits for something that cannot come: while *)
(* it waits for cv_ without a notification some worker has yet to count    *)
(* itself, and the thread that it joins has ended, is about to test a      *)
(* looping_ that is false, or will be woken up - unless the word of stop() *)
(* was lost (EventLoopPool.h:53, 60).  It is what CallsReturn rests on.    *)
OwnerGoesOn ==
  /\ caller = "waiting" /\ ~ notified => \E i \in Worker : place[i] \in {"init", "count"}
  /\ caller = "stopping" /\ stopped = MaxThreads /\ joined < created =>
       \/ place[joined] = "ended"
       \/ /\ ~ going[joined]
          /\ place[joined] = "run" \/ (place[joined] = "poll" /\ (wakeUp[joined] \/ lost[joined]))

(* The predicate is tested and the wait begun under mu_, so the last count *)
(* is seen or notified; no loop is initialised after it was stopped, and   *)
(* none polls again once it has been woken up.                             *)
Stopped(i) == ~ going[i] /\ (place[i] = "poll" => wakeUp[i] \/ lost[i])

WaitInv ==
  /\ caller = "waiting" /\ ~ notified => cnt # realSize
  /\ caller \in {"stopping", "writing", "gone"} => \A i \in 0 .. stopped - 1 : Stopped(i)
  /\ caller = "writing" => ~ going[stopped]

LEMMA WaitInvCaller ==
  ASSUME IInv, WaitInv,
         \/ \E nums \in 0 .. MaxThreads : SetHelperThreadsNum(nums)
         \/ CreateThread \/ WaitTests \/ Destroy \/ StopLoop \/ WriteWakeUp
         \/ Join \/ Destroyed
  PROVE  WaitInv'
<1>0. ASSUME StopLoop \/ WriteWakeUp
      PROVE  /\ stopped \in Worker /\ stopped \in Nat
             /\ going \in [Worker -> BOOLEAN] /\ wakeUp \in [Worker -> BOOLEAN]
             /\ lost \in [Worker -> BOOLEAN]
             /\ \A i \in 0 .. stopped - 1 : i \in Worker /\ Stopped(i) /\ i # stopped
  <2>1. stopped \in 0 .. MaxThreads /\ stopped < MaxThreads /\ MaxThreads \in Nat
    BY <1>0, EventLoopPoolAssumption DEF StopLoop, WriteWakeUp, IInv, TypeOK, CallerInv
  <2>2. /\ going \in [Worker -> BOOLEAN] /\ wakeUp \in [Worker -> BOOLEAN]
        /\ lost \in [Worker -> BOOLEAN]
    BY Zenon DEF IInv, TypeOK
  <2>3. \A i \in 0 .. stopped - 1 : Stopped(i)
    BY <1>0 DEF StopLoop, WriteWakeUp, WaitInv
  <2> QED
    BY <2>1, <2>2, <2>3 DEF Worker
<1>1. CASE StopLoop
  <2>1. /\ going' = [going EXCEPT ![stopped] = FALSE] /\ stopped' = stopped
        /\ caller' = "writing" /\ UNCHANGED <<wakeUp, lost, place>>
    BY <1>1 DEF StopLoop
  <2>2. \A i \in 0 .. stopped' - 1 : Stopped(i)'
    BY <1>0, <1>1, <2>1 DEF Stopped
  <2>3. ~ going'[stopped']
    BY <1>0, <1>1, <2>1
  <2> QED
    BY <2>1, <2>2, <2>3 DEF WaitInv
<1>write. CASE WriteWakeUp
  <2>1. PICK heard \in BOOLEAN : /\ wakeUp' = [wakeUp EXCEPT ![stopped] = @ \/ heard]
                                 /\ lost' = [lost EXCEPT ![stopped] = ~ heard]
    BY <1>write DEF WriteWakeUp
  <2>2. /\ stopped' = stopped + 1 /\ caller' = "stopping" /\ UNCHANGED <<going, place>>
        /\ ~ going[stopped]
    BY <1>write DEF WriteWakeUp, WaitInv
  <2>3. \A i \in 0 .. stopped - 1 : Stopped(i)'
    BY <1>0, <1>write, <2>1, <2>2 DEF Stopped
  <2>4. ASSUME NEW j, j = stopped PROVE Stopped(j)'
    <3>1. wakeUp'[j] \/ lost'[j]
      BY <1>0, <1>write, <2>1, <2>4, Zenon
    <3> QED
      BY <2>2, <2>4, <3>1 DEF Stopped
  <2>5. \A i \in 0 .. stopped' - 1 : i \in 0 .. stopped - 1 \/ i = stopped
    BY <1>0, <1>write, <2>2
  <2>6. \A i \in 0 .. stopped' - 1 : Stopped(i)'
    BY <2>3, <2>4, <2>5, Zenon DEF Stopped
  <2> QED
    BY <2>2, <2>6 DEF WaitInv
<1>2. CASE Destroy
  BY <1>2 DEF Destroy, FirstStopped, WaitInv, waitVars, workerVars
<1>3. CASE WaitTests
  BY <1>3 DEF WaitTests, AllReady, WaitInv, workerVars
<1>4. CASE \/ \E nums \in 0 .. MaxThreads : SetHelperThreadsNum(nums)
           \/ CreateThread
  BY <1>4 DEF SetHelperThreadsNum, CreateThread, WaitInv, waitVars, workerVars
<1>5. CASE Join \/ Destroyed
  BY <1>5 DEF Join, Destroyed, WaitInv, Stopped, waitVars, workerVars
<1> QED
  BY <1>1, <1>write, <1>2, <1>3, <1>4, <1>5

LEMMA WaitInvWorker ==
  ASSUME IInv, WaitInv, NEW i \in Worker, WorkerStep(i) \/ HandlesEvents(i)
  PROVE  WaitInv'
<1> USE DEF ownerVars, waitVars, workerVars
<1>0. /\ place \in [Worker -> {"none", "init", "count", "run", "poll", "ended"}]
      /\ wakeUp \in [Worker -> BOOLEAN] /\ going \in [Worker -> BOOLEAN]
  BY DEF IInv, TypeOK
<1>1. CASE InitLoop(i)
  <2>1. caller \notin {"stopping", "writing", "gone"}
    <3>1. SUFFICES ASSUME caller \in {"stopping", "writing", "gone"} PROVE FALSE
      OBVIOUS
    <3>2. created = realSize /\ cnt = created
      BY <3>1 DEF IInv, CallerInv
    <3>3. \A j \in 0 .. created - 1 : place[j] \in {"run", "poll", "ended"}
      BY <3>2, AllCounted DEF IInv
    <3>4. i \in 0 .. created - 1
      BY <1>1 DEF InitLoop, IInv, CountInv, TypeOK, Worker
    <3> QED
      BY <1>1, <3>3, <3>4 DEF InitLoop
  <2> QED
    BY <1>1, <2>1 DEF InitLoop, WaitInv
<1>2. CASE Count(i)
  <2>1. UNCHANGED <<caller, realSize, stopped, going, wakeUp, lost>>
        /\ place' = [place EXCEPT ![i] = "run"] /\ notified' = (caller = "waiting")
    BY <1>2 DEF Count
  <2>2. ASSUME NEW j, Stopped(j) PROVE Stopped(j)'
    BY <1>0, <2>1, <2>2 DEF Stopped
  <2> QED
    BY <2>1, <2>2 DEF WaitInv
<1>3. CASE TestLooping(i) \/ WakesUp(i) \/ HandlesEvents(i)
  <2>1. UNCHANGED <<caller, realSize, cnt, notified, stopped, going, lost>>
    BY <1>3 DEF TestLooping, WakesUp, HandlesEvents
  <2>2. /\ place' = [place EXCEPT ![i] = place'[i]]
        /\ place'[i] = "poll" => going[i]
        /\ wakeUp' = wakeUp \/ (wakeUp' = [wakeUp EXCEPT ![i] = FALSE] /\ place'[i] # "poll")
    BY <1>0, <1>3 DEF TestLooping, WakesUp, HandlesEvents
  <2>3. ASSUME NEW j \in Worker, Stopped(j) PROVE Stopped(j)'
    <3>1. CASE j = i
      BY <2>1, <2>2, <2>3, <3>1 DEF Stopped
    <3>2. CASE j # i
      <4>1. place'[j] = place[j] /\ wakeUp'[j] = wakeUp[j]
        BY <1>0, <2>2, <3>2
      <4> QED
        BY <2>1, <2>3, <4>1 DEF Stopped
    <3> QED
      BY <3>1, <3>2
  <2>4. \A j \in 0 .. stopped - 1 : j \in Worker
    BY EventLoopPoolAssumption DEF IInv, TypeOK, Worker
  <2> QED
    BY <2>1, <2>3, <2>4 DEF WaitInv
<1> QED
  BY <1>1, <1>2, <1>3 DEF WorkerStep

(* For every number of threads, neither setHelperThreadsNumAndStart nor    *)
(* ~EventLoopPool is stuck.                                                *)
THEOREM NoneIsAwaitedInVain == Spec => []OwnerGoesOn
<1>1. Init => WaitInv
  BY DEF Init, WaitInv
<1>2. IInv /\ WaitInv /\ [Next]_vars => WaitInv'
  <2> SUFFICES ASSUME IInv, WaitInv, [Next]_vars PROVE WaitInv'
    OBVIOUS
  <2>1. CASE UNCHANGED vars
    BY <2>1 DEF vars, WaitInv, Stopped
  <2>2. CASE Next
    BY <2>2, WaitInvCaller, WaitInvWorker DEF Next, CallerStep
  <2> QED
    BY <2>1, <2>2
<1>3. ASSUME IInv, WaitInv PROVE OwnerGoesOn
  <2>1. ASSUME caller = "waiting", ~ notified
        PROVE  \E i \in Worker : place[i] \in {"init", "count"}
    <3>1. created = realSize /\ cnt # created
      BY <1>3, <2>1 DEF IInv, CallerInv, WaitInv
    <3>2. SUFFICES ASSUME \A i \in Worker : place[i] \notin {"init", "count"} PROVE FALSE
      OBVIOUS
    <3>3. \A i \in 0 .. created - 1 : i \in Worker
      BY <1>3, EventLoopPoolAssumption DEF IInv, TypeOK, Worker
    <3>4. \A i \in 0 .. created - 1 : place[i] # "none"
      BY <1>3, <3>3 DEF IInv, CountInv, TypeOK
    <3>5. \A i \in 0 .. created - 1 : i \in Counted
      BY <1>3, <3>2, <3>3, <3>4 DEF IInv, TypeOK, Counted
    <3>6. Counted = 0 .. created - 1 /\ Cardinality(0 .. created - 1) = created
      BY <1>3, <3>5, CountedCreated DEF IInv
    <3>7. cnt = Cardinality(Counted)
      BY <1>3 DEF IInv, CountInv
    <3> QED
      BY <3>1, <3>6, <3>7
  <2>2. ASSUME caller = "stopping", stopped = MaxThreads, joined < created
        PROVE  \/ place[joined] = "ended"
               \/ /\ ~ going[joined]
                  /\ \/ place[joined] = "run"
                     \/ place[joined] = "poll" /\ (wakeUp[joined] \/ lost[joined])
    <3>1. joined \in 0 .. created - 1 /\ joined \in 0 .. stopped - 1
      BY <1>3, <2>2, EventLoopPoolAssumption DEF IInv, TypeOK
    <3>2. cnt = created
      BY <1>3, <2>2 DEF IInv, CallerInv
    <3>3. place[joined] \in {"run", "poll", "ended"}
      BY <1>3, <3>1, <3>2, AllCounted DEF IInv
    <3>4. Stopped(joined)
      BY <1>3, <2>2, <3>1 DEF WaitInv
    <3> QED
      BY <3>3, <3>4 DEF Stopped
  <2> QED
    BY <2>1, <2>2 DEF OwnerGoesOn
<1> QED
  BY <1>1, <1>2, <1>3, IInvAlways, PTL DEF Spec

-----------------------------------------------------------------------------
(* SpinLock, for every set of threads.  MutualExclusion says nothing of    *)
(* the flag; it is inductive together with the fact that the flag is up    *)
(* while a thread holds the lock.                                          *)
HeldIsLocked == \A t \in Locker : SpinLock!Holds(t) => lock = "LOCKED"

LockInv == SpinLock!TypeOK /\ SpinLock!MutualExclusion /\ HeldIsLocked

LEMMA LockInvInit == SpinLock!Init => LockInv
BY DEF SpinLock!Init, LockInv, SpinLock!TypeOK, SpinLock!MutualExclusion, HeldIsLocked,
       SpinLock!Holds

(* A step of one thread: only the winner of a compare-and-swap begins to   *)
(* hold the lock, and only who held it lowers the flag.                    *)
LEMMA LockInvStep ==
  ASSUME LockInv, [SpinLock!Next]_(SpinLock!vars)
  PROVE  LockInv'
<1> USE DEF LockInv, SpinLock!TypeOK, SpinLock!MutualExclusion, HeldIsLocked, SpinLock!Holds
<1>1. ASSUME NEW t \in Locker, SpinLock!Lock(t) PROVE LockInv'
  BY <1>1 DEF SpinLock!Lock, SpinLock!GoTo
<1>2. ASSUME NEW t \in Locker, SpinLock!TryLock(t) PROVE LockInv'
  BY <1>2 DEF SpinLock!TryLock, SpinLock!Cas, SpinLock!GoTo
<1>3. ASSUME NEW t \in Locker, SpinLock!SpinEnds(t) PROVE LockInv'
  BY <1>3 DEF SpinLock!SpinEnds, SpinLock!GoTo
<1>4. ASSUME NEW t \in Locker, SpinLock!Locked(t) PROVE LockInv'
  BY <1>4 DEF SpinLock!Locked, SpinLock!AssertLocked, SpinLock!GoTo
<1>5. ASSUME NEW t \in Locker, SpinLock!Unlock(t) PROVE LockInv'
  BY <1>5 DEF SpinLock!Unlock, SpinLock!AssertLocked, SpinLock!GoTo
<1>6. ASSUME NEW t \in Locker, SpinLock!Release(t) PROVE LockInv'
  BY <1>6 DEF SpinLock!Release, SpinLock!GoTo
<1>7. CASE UNCHANGED SpinLock!vars
  BY <1>7 DEF SpinLock!vars
<1> QED
  BY <1>1, <1>2, <1>3, <1>4, <1>5, <1>6, <1>7 DEF SpinLock!Next, SpinLock!Step

(* Whatever runs beside it, the lock behaves as SpinLock says.             *)
LEMMA PartIsSpinLock == PartsSpec => SpinLock!Spec
<1>1. PartsInit => SpinLock!Init
  BY DEF PartsInit
<1>2. [PartsNext]_partsVars
        => [SpinLock!Next]_(SpinLock!vars)
  BY DEF PartsNext, partsVars, otherVars, lockVars, SpinLock!vars
<1> QED
  BY <1>1, <1>2, PTL DEF PartsSpec, SpinLock!Spec

(* Two threads never hold the lock, and the asserts of lock() and unlock() *)
(* never fail (SpinLock.h:28, 34).                                         *)
THEOREM LockExcludes == PartsSpec => []MutualExclusion
<1>1. SpinLock!Init => LockInv
  BY LockInvInit
<1>2. LockInv /\ [SpinLock!Next]_(SpinLock!vars) => LockInv'
  BY LockInvStep
<1>3. LockInv => MutualExclusion
  BY DEF LockInv, MutualExclusion
<1> QED
  BY <1>1, <1>2, <1>3, PartIsSpinLock, PTL DEF SpinLock!Spec

(* The flag is up only while some thread holds the lock: what a thread     *)
(* spins on is a holder that will lower it (SpinLock.h:26, 35).            *)
HolderIsThere == lock = "LOCKED" => \E t \in Locker : SpinLock!Holds(t)

LEMMA HolderIsThereStep ==
  ASSUME LockInv, HolderIsThere, [SpinLock!Next]_(SpinLock!vars)
  PROVE  HolderIsThere'
<1> USE DEF LockInv, SpinLock!TypeOK, HolderIsThere, SpinLock!Holds
<1>1. ASSUME NEW t \in Locker, SpinLock!Lock(t) \/ SpinLock!SpinEnds(t) PROVE HolderIsThere'
  <2>1. /\ lock' = lock /\ spinning[t] \notin {"assertLocked", "in", "store"}
        /\ \A u \in Locker : u # t => spinning'[u] = spinning[u]
    BY <1>1 DEF SpinLock!Lock, SpinLock!SpinEnds, SpinLock!GoTo
  <2> QED
    BY <2>1
<1>2. ASSUME NEW t \in Locker, SpinLock!TryLock(t) PROVE HolderIsThere'
  BY <1>2 DEF SpinLock!TryLock, SpinLock!Cas, SpinLock!GoTo
<1>3. ASSUME NEW t \in Locker, SpinLock!Locked(t) \/ SpinLock!Unlock(t) PROVE HolderIsThere'
  BY <1>3 DEF SpinLock!Locked, SpinLock!Unlock, SpinLock!AssertLocked, SpinLock!GoTo
<1>4. ASSUME NEW t \in Locker, SpinLock!Release(t) PROVE HolderIsThere'
  BY <1>4 DEF SpinLock!Release
<1>5. CASE UNCHANGED SpinLock!vars
  BY <1>5 DEF SpinLock!vars
<1> QED
  BY <1>1, <1>2, <1>3, <1>4, <1>5 DEF SpinLock!Next, SpinLock!Step

(* For any set of threads the lock is never taken by nobody.               *)
THEOREM LockIsHeld == PartsSpec => []HolderIsThere
<1>1. SpinLock!Init => LockInv /\ HolderIsThere
  BY LockInvInit DEF SpinLock!Init, HolderIsThere
<1>2. LockInv /\ HolderIsThere /\ [SpinLock!Next]_(SpinLock!vars) => LockInv' /\ HolderIsThere'
  BY LockInvStep, HolderIsThereStep
<1> QED
  BY <1>1, <1>2, PartIsSpinLock, PTL DEF SpinLock!Spec

-----------------------------------------------------------------------------
(* FreeServerClient: the theorems of FreeServerClientProofs, for a server  *)
(* whose peers' connections and whose own ones are different ones.         *)
ConnProofs == INSTANCE FreeServerClientProofs

(* The instance of MCParts and the one of the proofs have the same         *)
(* definitions, one by one.                                                *)
LEMMA SameInit == FreeServerClient!Init => ConnProofs!Init
BY DEF FreeServerClient!Init, FreeServerClient!NoSock, FreeServerClient!NoConn,
       FreeServerClient!Conn,
       ConnProofs!Init, ConnProofs!NoSock, ConnProofs!NoConn, ConnProofs!Conn

LEMMA SameMethods ==
  /\ FreeServerClient!Conn = ConnProofs!Conn
  /\ \A r, on : FreeServerClient!SetWritable(r, on) = ConnProofs!SetWritable(r, on)
  /\ \A r : FreeServerClient!SendBytes(r) = ConnProofs!SendBytes(r)
  /\ \A r, told : FreeServerClient!CloseConnection(r, told) = ConnProofs!CloseConnection(r, told)
  /\ \A c, r : FreeServerClient!ActiveClose(c, r) = ConnProofs!ActiveClose(c, r)
  /\ \A r, use : FreeServerClient!MayUse(r, use) <=> ConnProofs!MayUse(r, use)
  /\ \A kind, r : FreeServerClient!LeftBy(kind, r) = ConnProofs!LeftBy(kind, r)
  /\ FreeServerClient!Uses = ConnProofs!Uses
BY DEF FreeServerClient!Conn, ConnProofs!Conn, FreeServerClient!SetWritable,
   ConnProofs!SetWritable, FreeServerClient!SendBytes, ConnProofs!SendBytes,
   FreeServerClient!Send, ConnProofs!Send, FreeServerClient!CloseConnection,
   ConnProofs!CloseConnection, FreeServerClient!SetReadable, ConnProofs!SetReadable,
   FreeServerClient!ActiveClose, ConnProofs!ActiveClose, FreeServerClient!MayUse,
   ConnProofs!MayUse, FreeServerClient!MaxOut, ConnProofs!MaxOut, FreeServerClient!LeftBy,
   ConnProofs!LeftBy, FreeServerClient!Uses, ConnProofs!Uses

LEMMA SameCallbacks ==
  /\ \A c, r, use : FreeServerClient!UserCallback(c, r, use) = ConnProofs!UserCallback(c, r, use)
  /\ \A c, r, n : FreeServerClient!SendNonblock(c, r, n) = ConnProofs!SendNonblock(c, r, n)
  /\ \A c, r : FreeServerClient!MessageOutcomes(c, r) = ConnProofs!MessageOutcomes(c, r)
<1>1. \A c, r, use : FreeServerClient!UserCallback(c, r, use) = ConnProofs!UserCallback(c, r, use)
  BY SameMethods DEF FreeServerClient!UserCallback, ConnProofs!UserCallback
<1>2. \A c, r, n : FreeServerClient!SendNonblock(c, r, n) = ConnProofs!SendNonblock(c, r, n)
  BY SameMethods DEF FreeServerClient!SendNonblock, ConnProofs!SendNonblock
<1>3. \A c, r : FreeServerClient!MessageOutcomes(c, r) = ConnProofs!MessageOutcomes(c, r)
  BY <1>1, SameMethods DEF FreeServerClient!MessageOutcomes, ConnProofs!MessageOutcomes
<1>4. QED
  BY <1>1, <1>2, <1>3

LEMMA SameHandlers ==
  ASSUME NEW c
  PROVE  /\ FreeServerClient!HandleClose(c) => ConnProofs!HandleClose(c)
         /\ FreeServerClient!HandleMessage(c) => ConnProofs!HandleMessage(c)
         /\ FreeServerClient!HandleWrite(c) => ConnProofs!HandleWrite(c)
         /\ FreeServerClient!HandleErrorAsked(c) => ConnProofs!HandleErrorAsked(c)
         /\ FreeServerClient!HandleErrorServed(c) => ConnProofs!HandleErrorServed(c)
         /\ FreeServerClient!HandleDeleted(c) => ConnProofs!HandleDeleted(c)
         /\ FreeServerClient!TimedTask(c) => ConnProofs!TimedTask(c)
<1>1. FreeServerClient!Stopped <=> ConnProofs!Stopped
  BY SameMethods DEF FreeServerClient!Stopped, ConnProofs!Stopped
<1>2. /\ FreeServerClient!Drops(c) <=> ConnProofs!Drops(c)
      /\ FreeServerClient!Takes(c) <=> ConnProofs!Takes(c)
  BY <1>1 DEF FreeServerClient!Takes, ConnProofs!Takes, FreeServerClient!Drops,
     ConnProofs!Drops
<1>3. QED
  BY <1>1, <1>2, SameMethods, SameCallbacks, Zenon DEF FreeServerClient!HandleClose,
     ConnProofs!HandleClose, FreeServerClient!HandleMessage, ConnProofs!HandleMessage,
     FreeServerClient!HandleWrite, ConnProofs!HandleWrite,
     FreeServerClient!HandleErrorAsked, ConnProofs!HandleErrorAsked,
     FreeServerClient!HandleErrorServed, ConnProofs!HandleErrorServed,
     FreeServerClient!HandleDeleted, ConnProofs!HandleDeleted,
     FreeServerClient!TimedTask, ConnProofs!TimedTask

LEMMA SameNext == FreeServerClient!Next => ConnProofs!Next
<1>1. FreeServerClient!Stopped <=> ConnProofs!Stopped
  BY SameMethods DEF FreeServerClient!Stopped, ConnProofs!Stopped
<1>2. FreeServerClient!Poll => ConnProofs!Poll
  BY <1>1, SameMethods DEF FreeServerClient!Poll, ConnProofs!Poll,
     FreeServerClient!Ready, ConnProofs!Ready, FreeServerClient!Revents,
     ConnProofs!Revents
<1>3. ASSUME NEW c
      PROVE  /\ FreeServerClient!PeerConnects(c) => ConnProofs!PeerConnects(c)
             /\ FreeServerClient!PeerSends(c) => ConnProofs!PeerSends(c)
             /\ FreeServerClient!PeerCloses(c) => ConnProofs!PeerCloses(c)
             /\ FreeServerClient!PeerReads(c) => ConnProofs!PeerReads(c)
             /\ FreeServerClient!PeerAborts(c) => ConnProofs!PeerAborts(c)
  BY Zenon DEF FreeServerClient!PeerConnects, ConnProofs!PeerConnects,
     FreeServerClient!PeerSends, ConnProofs!PeerSends, FreeServerClient!PeerCloses,
     ConnProofs!PeerCloses, FreeServerClient!PeerReads, ConnProofs!PeerReads,
     FreeServerClient!PeerAborts, ConnProofs!PeerAborts, FreeServerClient!Outside,
     ConnProofs!Outside, FreeServerClient!Up, ConnProofs!Up
<1>4. ASSUME NEW c
      PROVE  /\ FreeServerClient!HandleAccept(c) => ConnProofs!HandleAccept(c)
             /\ \A connected : FreeServerClient!CreateClientConn(c, connected)
                               => ConnProofs!CreateClientConn(c, connected)
  BY <1>1, SameMethods, SameCallbacks, Zenon
  DEF FreeServerClient!HandleAccept, ConnProofs!HandleAccept,
      FreeServerClient!CreateClientConn, ConnProofs!CreateClientConn,
      FreeServerClient!SetReadable, ConnProofs!SetReadable
<1>5. FreeServerClient!CreateServerPort => ConnProofs!CreateServerPort
  BY <1>1, Zenon DEF FreeServerClient!CreateServerPort, ConnProofs!CreateServerPort
<1>6. QED
  BY <1>2, <1>3, <1>4, <1>5, SameMethods, SameHandlers, Zenon DEF FreeServerClient!Next,
     ConnProofs!Next, FreeServerClient!LoopStep, ConnProofs!LoopStep

LEMMA SameEnds ==
  /\ ConnProofs!ToldOfEnd => FreeServerClient!ToldOfEnd
  /\ ConnProofs!FailsOnlyWhenDown => FreeServerClient!FailsOnlyWhenDown
BY Zenon DEF FreeServerClient!ToldOfEnd, FreeServerClient!FailsOnlyWhenDown,
   FreeServerClient!Conn, ConnProofs!ToldOfEnd, ConnProofs!FailsOnlyWhenDown,
   ConnProofs!Conn, FreeServerClient!Careless, ConnProofs!Careless

LEMMA PartIsFreeServerClient == PartsSpec => ConnProofs!Spec
<1>1. PartsInit => ConnProofs!Init
  BY SameInit DEF PartsInit
<1>2. [PartsNext]_partsVars
        => [ConnProofs!Next]_(ConnProofs!vars)
  BY SameNext DEF PartsNext, partsVars, otherVars, connVars, ConnProofs!vars
<1> QED
  BY <1>1, <1>2, PTL DEF PartsSpec, ConnProofs!Spec

LEMMA ConnsApart == ConnProofs!Apart
BY PartsAssumption DEF ConnProofs!Apart

(* Once a connection is deleted its user has heard of the end exactly      *)
(* once, but never for one of createClientConn that activeClose() ended,   *)
(* which has no destroy callback (TcpConnection.cpp:49).                   *)
THEOREM EndIsTold == PartsSpec => []ToldOfEnd
<1>1. ConnProofs!Spec => []ConnProofs!ToldOfEnd
  BY ConnsApart, ConnProofs!ToldCorrect
<1>2. ConnProofs!ToldOfEnd => ToldOfEnd
  BY SameEnds DEF ToldOfEnd
<1> QED
  BY <1>1, <1>2, PartIsFreeServerClient, PTL

(* No assert fails on a connection, and it is not used once deleted, as    *)
(* long as its socket is up and the program is not careless with it        *)
(* (FreeServerClient.h:57, 64, 173, 180).                                  *)
THEOREM OnlyLossFails == PartsSpec => []FailsOnlyWhenDown
<1>1. ConnProofs!Spec => []ConnProofs!FailsOnlyWhenDown
  BY ConnsApart, ConnProofs!FailsCorrect
<1>2. ConnProofs!FailsOnlyWhenDown => FailsOnlyWhenDown
  BY SameEnds DEF FailsOnlyWhenDown
<1> QED
  BY <1>1, <1>2, PartIsFreeServerClient, PTL

-----------------------------------------------------------------------------
(* Requests: what the codec finds and the parser takes, for every list of  *)
(* messages and every way in which TCP cuts their text.  The lemmas say    *)
(* what the operators of the model return (the joined text, Seek and Skip, *)
(* the recursive Headers, FindStr); the invariant says that what was not   *)
(* handled is the text that is in the buffer or unsent, to the symbol.     *)

(* What holds of 0 and, with n, of n + 1 holds of every number.            *)
LEMMA EveryNumber ==
  ASSUME NEW S \in SUBSET Nat, 0 \in S, \A n \in S : n + 1 \in S
  PROVE  S = Nat
<1> DEFINE R == OpToRel(<, Nat)
<1>1. IsWellFoundedOn(R, Nat)
  BY NatLessThanWellFounded
<1>2. SUFFICES ASSUME S # Nat PROVE FALSE
  OBVIOUS
<1> HIDE DEF R
<1>3. PICK x \in Nat \ S : \A y \in Nat \ S : <<y, x>> \notin R
  <2>1. Nat \ S \subseteq Nat /\ Nat \ S # {}
    BY <1>2
  <2>2. QED
    BY <1>1, <2>1, WFMin
<1>4. x # 0 /\ x - 1 \in Nat /\ x - 1 < x
  BY <1>3
<1>5. x - 1 \notin S
  BY <1>3, <1>4
<1>6. <<x - 1, x>> \in R
  BY <1>3, <1>4 DEF OpToRel, R
<1>7. QED
  BY <1>3, <1>4, <1>5, <1>6

-----------------------------------------------------------------------------
(* The symbols of the peer; it never sends a zero.                         *)
Symbol == {"t", "sp", "col", "cr", "lf", "/", "/port", "/other", "0", "1", "2"}

(* joins[i] is the first i texts of ts, one after the other.               *)
AreJoins(joins, ts) ==
  /\ joins \in [0 .. Len(ts) -> Seq(Symbol)]
  /\ joins[0] = <<>>
  /\ \A i \in 1 .. Len(ts) : joins[i] = joins[i - 1] \o ts[i]

LEMMA JoinsFacts ==
  ASSUME NEW ts \in Seq(Seq(Symbol)), NEW joins, AreJoins(joins, ts)
  PROVE  /\ \A i \in 0 .. Len(ts) : joins[i] \in Seq(Symbol)
         /\ joins[0] = <<>> /\ Len(ts) \in Nat /\ joins[Len(ts)] \in Seq(Symbol)
         /\ \A i \in 1 .. Len(ts) : joins[i] = joins[i - 1] \o ts[i] /\ ts[i] \in Seq(Symbol)
         /\ Len(ts) > 0 => joins[1] = ts[1]
<1>1. Len(ts) \in Nat /\ Len(ts) \in 0 .. Len(ts)
  OBVIOUS
<1>2. /\ \A i \in 0 .. Len(ts) : joins[i] \in Seq(Symbol)
      /\ joins[0] = <<>>
      /\ \A i \in 1 .. Len(ts) : joins[i] = joins[i - 1] \o ts[i]
  BY DEF AreJoins
<1>3. \A i \in 1 .. Len(ts) : ts[i] \in Seq(Symbol)
  BY ElementOfSeq
<1>4. ASSUME Len(ts) > 0 PROVE joins[1] = ts[1]
  <2>1. 1 \in 1 .. Len(ts) /\ 1 - 1 = 0
    BY <1>1, <1>4
  <2>2. joins[1] = <<>> \o ts[1]
    BY <1>2, <2>1
  <2>3. QED
    BY <1>3, <2>1, <2>2, ConcatEmptySeq
<1>5. QED
  BY <1>1, <1>2, <1>3, <1>4

(* The joins of one text more are those of the others and the whole.       *)
LEMMA JoinsOfLonger ==
  ASSUME NEW ts \in Seq(Seq(Symbol)), NEW t \in Seq(Symbol), NEW joins, AreJoins(joins, ts)
  PROVE  LET longer == [i \in 0 .. Len(ts) + 1 |->
                          IF i = Len(ts) + 1 THEN joins[Len(ts)] \o t ELSE joins[i]]
         IN  AreJoins(longer, Append(ts, t)) /\ longer[Len(ts) + 1] = joins[Len(ts)] \o t
<1> DEFINE longer == [i \in 0 .. Len(ts) + 1 |->
                        IF i = Len(ts) + 1 THEN joins[Len(ts)] \o t ELSE joins[i]]
           us == Append(ts, t)
<1>1. /\ Len(ts) \in Nat /\ Len(us) = Len(ts) + 1 /\ us[Len(ts) + 1] = t
      /\ \A i \in 1 .. Len(ts) : us[i] = ts[i]
  OBVIOUS
<1>2. /\ \A i \in 0 .. Len(ts) : joins[i] \in Seq(Symbol) /\ longer[i] = joins[i]
      /\ joins[0] = <<>>
      /\ \A i \in 1 .. Len(ts) : joins[i] = joins[i - 1] \o ts[i]
      /\ longer[Len(ts) + 1] = joins[Len(ts)] \o t
  <2>1. \A i \in 0 .. Len(ts) : longer[i] = joins[i]
    BY <1>1
  <2>2. longer[Len(ts) + 1] = joins[Len(ts)] \o t
    BY <1>1
  <2> HIDE DEF longer
  <2>3. QED
    BY <2>1, <2>2, JoinsFacts
<1>3. joins[Len(ts)] \o t \in Seq(Symbol)
  BY JoinsFacts, ConcatProperties
<1> HIDE DEF us
<1>4. ASSUME NEW i \in 0 .. Len(ts) + 1 PROVE longer[i] \in Seq(Symbol)
  <2>1. CASE i = Len(ts) + 1
    BY <1>2, <1>3, <2>1
  <2>2. CASE i \in 0 .. Len(ts)
    BY <1>2, <2>2
  <2>3. QED
    BY <1>1, <2>1, <2>2
<1>5. longer \in [0 .. Len(us) -> Seq(Symbol)]
  BY <1>1, <1>4
<1> HIDE DEF longer
<1>6. ASSUME NEW i \in 1 .. Len(us) PROVE longer[i] = longer[i - 1] \o us[i]
  <2>1. CASE i = Len(ts) + 1
    <3>1. i - 1 = Len(ts) /\ Len(ts) \in 0 .. Len(ts)
      BY <1>1, <2>1
    <3>2. QED
      BY <1>1, <1>2, <2>1, <3>1
  <2>2. CASE i \in 1 .. Len(ts)
    <3>1. i - 1 \in 0 .. Len(ts) /\ i \in 0 .. Len(ts)
      BY <1>1, <2>2
    <3>2. QED
      BY <1>1, <1>2, <2>2, <3>1
  <2>3. QED
    BY <1>1, <2>1, <2>2
<1>7. longer[0] = <<>>
  BY <1>1, <1>2
<1>8. AreJoins(longer, us)
  BY <1>5, <1>6, <1>7 DEF AreJoins
<1>9. QED
  BY <1>2, <1>8 DEF us, longer

LEMMA JoinsOfNone == AreJoins([i \in {0} |-> <<>>], <<>>)
<1>1. 0 .. Len(<<>>) = {0} /\ 1 .. Len(<<>>) = {} /\ <<>> \in Seq(Symbol)
  OBVIOUS
<1>2. QED
  BY <1>1 DEF AreJoins

(* Any texts have joins.                                                   *)
LEMMA JoinsExist ==
  ASSUME NEW ts \in Seq(Seq(Symbol))
  PROVE  \E joins : AreJoins(joins, ts)
<1> DEFINE S == {n \in Nat : \A us \in Seq(Seq(Symbol)) :
                               Len(us) = n => \E joins : AreJoins(joins, us)}
<1>1. 0 \in S
  BY JoinsOfNone
<1>2. ASSUME NEW n \in S PROVE n + 1 \in S
  <2>1. ASSUME NEW us \in Seq(Seq(Symbol)), Len(us) = n + 1
        PROVE  \E joins : AreJoins(joins, us)
    <3>1. us # <<>>
      BY <2>1
    <3>2. PICK front \in Seq(Seq(Symbol)), t \in Seq(Symbol) : us = Append(front, t)
      BY <3>1, SequenceEmptyOrAppend
    <3>3. Len(front) = n
      BY <2>1, <3>2
    <3>4. PICK joins : AreJoins(joins, front)
      BY <1>2, <3>3
    <3>5. QED
      BY <3>2, <3>4, JoinsOfLonger
  <2>2. QED
    BY <2>1
<1>3. S = Nat
  <2>1. S \in SUBSET Nat
    OBVIOUS
  <2> HIDE DEF S
  <2>2. QED
    BY <1>1, <1>2, <2>1, EveryNumber
<1>4. QED
  BY <1>3

(* FlattenSeq is recursive: it is the last of the joins.                   *)
LEMMA FlattenIsJoin ==
  ASSUME NEW ts \in Seq(Seq(Symbol)), NEW joins, AreJoins(joins, ts)
  PROVE  Requests!FlattenSeq(ts) = joins[Len(ts)]
<1>0. Len(ts) \in Nat
  OBVIOUS
<1>1. CASE Len(ts) = 0
  BY <1>1 DEF Requests!FlattenSeq, AreJoins
<1>2. CASE Len(ts) # 0
  <2>0. 1 \in 1 .. Len(ts) /\ joins[1] = ts[1]
    <3>1. Len(ts) > 0
      BY <1>0, <1>2
    <3>2. joins[1] = ts[1]
      BY <3>1, JoinsFacts
    <3>3. QED
      BY <1>0, <3>1, <3>2
  <2> DEFINE Step(f) == [i \in 1 .. Len(ts) |-> IF i = 1 THEN ts[i] ELSE f[i - 1] \o ts[i]]
             flatten == CHOOSE f : f = Step(f)
             own == [i \in 1 .. Len(ts) |-> joins[i]]
  <2>1. own = Step(own)
    <3>1. ASSUME NEW i \in 1 .. Len(ts)
          PROVE  joins[i] = IF i = 1 THEN ts[i] ELSE own[i - 1] \o ts[i]
      <4>1. CASE i = 1
        BY <2>0, <4>1
      <4>2. CASE i # 1
        <5>1. i - 1 \in 1 .. Len(ts)
          BY <1>0, <4>2
        <5>2. own[i - 1] = joins[i - 1]
          BY <5>1
        <5>3. joins[i] = joins[i - 1] \o ts[i]
          BY DEF AreJoins
        <5>4. QED
          BY <4>2, <5>2, <5>3
      <4>3. QED
        BY <4>1, <4>2
    <3>2. QED
      BY <3>1
  <2>2. flatten = Step(flatten)
    BY <2>1
  <2>3. Requests!FlattenSeq(ts) = flatten[Len(ts)]
    BY <1>2 DEF Requests!FlattenSeq
  <2> HIDE DEF flatten
  <2> DEFINE S == {i \in Nat : i + 1 > Len(ts) \/ flatten[i + 1] = joins[i + 1]}
  <2>4. 0 \in S
    <3>1. flatten[1] = ts[1]
      BY <1>0, <1>2, <2>2
    <3>2. QED
      BY <2>0, <3>1
  <2>5. ASSUME NEW i \in S PROVE i + 1 \in S
    <3>1. CASE (i + 1) + 1 > Len(ts)
      BY <3>1
    <3>2. CASE (i + 1) + 1 <= Len(ts)
      <4>1. /\ i + 2 \in 1 .. Len(ts) /\ i + 2 # 1 /\ (i + 2) - 1 = i + 1
            /\ ~ (i + 1 > Len(ts)) /\ (i + 1) + 1 = i + 2
        BY <1>0, <3>2
      <4>2. flatten[i + 2] = flatten[i + 1] \o ts[i + 2]
        BY <2>2, <4>1
      <4>3. joins[i + 2] = joins[i + 1] \o ts[i + 2]
        BY <4>1 DEF AreJoins
      <4>4. flatten[i + 1] = joins[i + 1]
        BY <4>1
      <4>5. flatten[i + 2] = joins[i + 2]
        BY <4>2, <4>3, <4>4
      <4>6. i + 1 \in Nat
        OBVIOUS
      <4>7. QED
        BY <4>1, <4>5, <4>6
    <3>3. QED
      BY <1>0, <3>1, <3>2
  <2>6. S = Nat
    <3>1. S \in SUBSET Nat
      OBVIOUS
    <3> HIDE DEF S
    <3>2. QED
      BY <2>4, <2>5, <3>1, EveryNumber
  <2>7. PICK i \in Nat : Len(ts) = i + 1
    <3>1. Len(ts) - 1 \in Nat /\ Len(ts) = (Len(ts) - 1) + 1
      BY <1>0, <1>2
    <3>2. QED
      BY <3>1
  <2>8. i \in S
    BY <2>6
  <2>9. QED
    BY <2>3, <2>7, <2>8
<1>3. QED
  BY <1>1, <1>2

(* Texts one behind the other, grouped either way.                         *)
LEMMA Reassociated ==
  ASSUME NEW s \in Seq(Symbol), NEW t \in Seq(Symbol), NEW u \in Seq(Symbol)
  PROVE  (s \o t) \o u = s \o (t \o u)
BY ConcatAssociative

(* One more text is put behind the others.                                 *)
LEMMA FlattenOfLonger ==
  ASSUME NEW ts \in Seq(Seq(Symbol)), NEW t \in Seq(Symbol)
  PROVE  /\ Requests!FlattenSeq(ts) \in Seq(Symbol)
         /\ Requests!FlattenSeq(Append(ts, t)) = Requests!FlattenSeq(ts) \o t
<1>1. PICK joins : AreJoins(joins, ts)
  BY JoinsExist
<1>2. Append(ts, t) \in Seq(Seq(Symbol)) /\ Len(Append(ts, t)) = Len(ts) + 1 /\ Len(ts) \in Nat
  OBVIOUS
<1>3. Requests!FlattenSeq(ts) = joins[Len(ts)] /\ joins[Len(ts)] \in Seq(Symbol)
  BY <1>1, FlattenIsJoin, JoinsFacts
<1>4. Requests!FlattenSeq(Append(ts, t)) = joins[Len(ts)] \o t
  <2> DEFINE longer == [i \in 0 .. Len(ts) + 1 |->
                          IF i = Len(ts) + 1 THEN joins[Len(ts)] \o t ELSE joins[i]]
  <2>1. AreJoins(longer, Append(ts, t)) /\ longer[Len(ts) + 1] = joins[Len(ts)] \o t
    BY <1>1, JoinsOfLonger
  <2> HIDE DEF longer
  <2>2. QED
    BY <1>2, <2>1, FlattenIsJoin
<1>5. QED
  BY <1>3, <1>4

LEMMA FlattenOfNone == Requests!FlattenSeq(<<>>) = <<>>
BY DEF Requests!FlattenSeq

(* What is first is in front.                                              *)
LEMMA FlattenFirst ==
  ASSUME NEW t \in Seq(Symbol), NEW ts \in Seq(Seq(Symbol))
  PROVE  Requests!FlattenSeq(<<t>> \o ts) = t \o Requests!FlattenSeq(ts)
<1> DEFINE S == {n \in Nat : \A us \in Seq(Seq(Symbol)) :
                   Len(us) = n => Requests!FlattenSeq(<<t>> \o us) = t \o Requests!FlattenSeq(us)}
<1>1. 0 \in S
  <2>1. ASSUME NEW us \in Seq(Seq(Symbol)), Len(us) = 0
        PROVE  Requests!FlattenSeq(<<t>> \o us) = t \o Requests!FlattenSeq(us)
    <3>1. /\ us = <<>> /\ <<>> \in Seq(Seq(Symbol))
          /\ <<t>> \in Seq(Seq(Symbol)) /\ <<>> \in Seq(Symbol)
      BY <2>1
    <3>2. <<t>> \o us = <<t>> /\ <<t>> = Append(<<>>, t)
      BY <3>1, ConcatEmptySeq
    <3>3. Requests!FlattenSeq(<<t>>) = <<>> \o t
      BY <3>1, <3>2, FlattenOfLonger, FlattenOfNone
    <3>4. QED
      BY <3>1, <3>2, <3>3, FlattenOfNone, ConcatEmptySeq
  <2>2. QED
    BY <2>1
<1>2. ASSUME NEW n \in S PROVE n + 1 \in S
  <2>1. ASSUME NEW us \in Seq(Seq(Symbol)), Len(us) = n + 1
        PROVE  Requests!FlattenSeq(<<t>> \o us) = t \o Requests!FlattenSeq(us)
    <3>1. us # <<>>
      BY <2>1
    <3>2. PICK front \in Seq(Seq(Symbol)), u \in Seq(Symbol) : us = Append(front, u)
      BY <3>1, SequenceEmptyOrAppend
    <3>3. Len(front) = n
      BY <2>1, <3>2
    <3>4. Requests!FlattenSeq(<<t>> \o front) = t \o Requests!FlattenSeq(front)
      BY <1>2, <3>3
    <3>5. <<t>> \o us = Append(<<t>> \o front, u) /\ <<t>> \o front \in Seq(Seq(Symbol))
      BY <3>2
    <3>6. Requests!FlattenSeq(<<t>> \o us) = (t \o Requests!FlattenSeq(front)) \o u
      BY <3>4, <3>5, FlattenOfLonger
    <3>7. /\ Requests!FlattenSeq(us) = Requests!FlattenSeq(front) \o u
          /\ Requests!FlattenSeq(front) \in Seq(Symbol)
      BY <3>2, FlattenOfLonger
    <3>8. (t \o Requests!FlattenSeq(front)) \o u = t \o (Requests!FlattenSeq(front) \o u)
      BY <3>7, Reassociated
    <3>9. QED
      BY <3>6, <3>7, <3>8
  <2>2. n + 1 \in Nat
    OBVIOUS
  <2>3. QED
    BY <2>1, <2>2, Zenon
<1>3. S = Nat
  <2>1. S \in SUBSET Nat
    OBVIOUS
  <2> HIDE DEF S
  <2>2. QED
    BY <1>1, <1>2, <2>1, EveryNumber
<1>4. QED
  BY <1>3

(* What the buffer holds from position i on.                               *)
PlainAt(b, i) ==
  /\ b[i] = "t" /\ b[i + 1] = "col" /\ b[i + 2] = "sp" /\ b[i + 3] = "t"
  /\ b[i + 4] = "cr" /\ b[i + 5] = "lf"

WordsAt(b, i) ==
  /\ b[i] = "t" /\ b[i + 1] = "col" /\ b[i + 2] = "sp" /\ b[i + 3] = "t"
  /\ b[i + 4] = "sp" /\ b[i + 5] = "t" /\ b[i + 6] = "t"
  /\ b[i + 7] = "cr" /\ b[i + 8] = "lf"

StartAt(b, url) ==
  /\ b[1] = "t" /\ b[2] = "sp" /\ b[3] = url /\ b[4] = "sp" /\ b[5] = "t"
  /\ b[6] = "cr" /\ b[7] = "lf"

(* The headers hs lie in b from position 8 up to i - 1.                    *)
HeadersTo(b, hs, i) ==
  \/ hs = <<>> /\ i = 8
  \/ hs = <<Requests!Plain>> /\ i = 14 /\ PlainAt(b, 8)
  \/ hs = <<Requests!Words>> /\ i = 17 /\ WordsAt(b, 8)
  \/ hs = <<Requests!Words, Requests!Plain>> /\ i = 23 /\ WordsAt(b, 8) /\ PlainAt(b, 17)

(* The symbols of two texts joined.                                        *)
LEMMA Joined ==
  ASSUME NEW s \in Seq(Symbol), NEW t \in Seq(Symbol)
  PROVE  /\ s \o t \in Seq(Symbol) /\ Len(s \o t) = Len(s) + Len(t)
         /\ Len(s) \in Nat /\ Len(t) \in Nat
         /\ \A i \in 1 .. Len(s) : (s \o t)[i] = s[i]
         /\ \A i \in 1 .. Len(t) : (s \o t)[Len(s) + i] = t[i]
<1>1. Len(s) \in Nat /\ Len(t) \in Nat
  OBVIOUS
<1>2. \A i \in 1 .. Len(s) + Len(t) : (s \o t)[i] = IF i <= Len(s) THEN s[i] ELSE t[i - Len(s)]
  BY ConcatProperties
<1>3. s \o t \in Seq(Symbol) /\ Len(s \o t) = Len(s) + Len(t)
  BY ConcatProperties
<1>4. ASSUME NEW i \in 1 .. Len(t) PROVE (s \o t)[Len(s) + i] = t[i]
  <2>1. Len(s) + i \in 1 .. Len(s) + Len(t) /\ ~ (Len(s) + i <= Len(s)) /\ (Len(s) + i) - Len(s) = i
    BY <1>1
  <2> DEFINE j == Len(s) + i
  <2> HIDE DEF j
  <2>2. (s \o t)[j] = t[j - Len(s)]
    BY <1>2, <2>1 DEF j
  <2>3. QED
    BY <2>1, <2>2 DEF j
<1>5. ASSUME NEW i \in 1 .. Len(s) PROVE (s \o t)[i] = s[i]
  <2>1. i \in 1 .. Len(s) + Len(t) /\ i <= Len(s)
    BY <1>1
  <2>2. QED
    BY <1>2, <2>1
<1>6. QED
  BY <1>1, <1>3, <1>4, <1>5

(* The lines of the two headers, symbol by symbol.                         *)
LEMMA LineOfPlain ==
  LET line == Requests!Line(Requests!Plain)
  IN  line \in Seq(Symbol) /\ Len(line) = 6 /\ PlainAt(line, 1)
<1> DEFINE mid == <<"col", "sp">>
           val == <<"t">>
           end == <<"cr", "lf">>
<1>1. /\ mid \in Seq(Symbol) /\ Len(mid) = 2 /\ mid[1] = "col" /\ mid[2] = "sp"
      /\ val \in Seq(Symbol) /\ Len(val) = 1 /\ val[1] = "t"
      /\ end \in Seq(Symbol) /\ Len(end) = 2 /\ end[1] = "cr" /\ end[2] = "lf"
  BY DEF Symbol
<1>2. Requests!Line(Requests!Plain) = ((val \o mid) \o val) \o end
  BY DEF Requests!Line, Requests!Plain
<1> HIDE DEF mid, val, end
<1> DEFINE v == val \o mid
           w == v \o val
           x == w \o end
<1> HIDE DEF v, w, x
<1>3. v \in Seq(Symbol) /\ Len(v) = 3 /\ v[1] = "t" /\ v[2] = "col" /\ v[3] = "sp"
  <2>1. /\ v \in Seq(Symbol) /\ Len(v) = Len(val) + Len(mid)
        /\ \A i \in 1 .. Len(val) : v[i] = val[i]
        /\ \A i \in 1 .. Len(mid) : v[Len(val) + i] = mid[i]
    BY <1>1, Joined DEF v
  <2>2. QED
    BY <1>1, <2>1
<1>4. /\ w \in Seq(Symbol) /\ Len(w) = 4
      /\ w[1] = "t" /\ w[2] = "col" /\ w[3] = "sp" /\ w[4] = "t"
  <2>1. /\ w \in Seq(Symbol) /\ Len(w) = Len(v) + Len(val)
        /\ \A i \in 1 .. Len(v) : w[i] = v[i]
        /\ \A i \in 1 .. Len(val) : w[Len(v) + i] = val[i]
    BY <1>1, <1>3, Joined DEF w
  <2>2. QED
    BY <1>1, <1>3, <2>1
<1>5. /\ x \in Seq(Symbol) /\ Len(x) = 6
      /\ x[1] = "t" /\ x[2] = "col" /\ x[3] = "sp" /\ x[4] = "t"
      /\ x[5] = "cr" /\ x[6] = "lf"
  <2>1. /\ x \in Seq(Symbol) /\ Len(x) = Len(w) + Len(end)
        /\ \A i \in 1 .. Len(w) : x[i] = w[i]
        /\ \A i \in 1 .. Len(end) : x[Len(w) + i] = end[i]
    BY <1>1, <1>4, Joined DEF x
  <2>2. QED
    BY <1>1, <1>4, <2>1
<1>6. QED
  <2>1. Requests!Line(Requests!Plain) = x
    BY <1>2 DEF v, w, x
  <2>2. QED
    BY <1>5, <2>1 DEF PlainAt

LEMMA LineOfWords ==
  LET line == Requests!Line(Requests!Words)
  IN  line \in Seq(Symbol) /\ Len(line) = 9 /\ WordsAt(line, 1)
<1> DEFINE key == <<"t">>
           mid == <<"col", "sp">>
           val == <<"t", "sp", "t", "t">>
           end == <<"cr", "lf">>
<1>1. /\ key \in Seq(Symbol) /\ Len(key) = 1 /\ key[1] = "t"
      /\ mid \in Seq(Symbol) /\ Len(mid) = 2 /\ mid[1] = "col" /\ mid[2] = "sp"
      /\ end \in Seq(Symbol) /\ Len(end) = 2 /\ end[1] = "cr" /\ end[2] = "lf"
      /\ val \in Seq(Symbol) /\ Len(val) = 4
      /\ val[1] = "t" /\ val[2] = "sp" /\ val[3] = "t" /\ val[4] = "t"
  BY DEF Symbol
<1>2. Requests!Line(Requests!Words) = ((key \o mid) \o val) \o end
  BY DEF Requests!Line, Requests!Words
<1> HIDE DEF key, mid, val, end
<1> DEFINE v == key \o mid
           w == v \o val
           x == w \o end
<1> HIDE DEF v, w, x
<1>3. v \in Seq(Symbol) /\ Len(v) = 3 /\ v[1] = "t" /\ v[2] = "col" /\ v[3] = "sp"
  <2>1. /\ v \in Seq(Symbol) /\ Len(v) = Len(key) + Len(mid)
        /\ \A i \in 1 .. Len(key) : v[i] = key[i]
        /\ \A i \in 1 .. Len(mid) : v[Len(key) + i] = mid[i]
    BY <1>1, Joined DEF v
  <2>2. QED
    BY <1>1, <2>1
<1>4. /\ w \in Seq(Symbol) /\ Len(w) = 7
      /\ w[1] = "t" /\ w[2] = "col" /\ w[3] = "sp"
      /\ w[4] = "t" /\ w[5] = "sp" /\ w[6] = "t" /\ w[7] = "t"
  <2>1. /\ w \in Seq(Symbol) /\ Len(w) = Len(v) + Len(val)
        /\ \A i \in 1 .. Len(v) : w[i] = v[i]
        /\ \A i \in 1 .. Len(val) : w[Len(v) + i] = val[i]
    BY <1>1, <1>3, Joined DEF w
  <2>2. QED
    BY <1>1, <1>3, <2>1
<1>5. /\ x \in Seq(Symbol) /\ Len(x) = 9
      /\ x[1] = "t" /\ x[2] = "col" /\ x[3] = "sp" /\ x[4] = "t"
      /\ x[5] = "sp" /\ x[6] = "t" /\ x[7] = "t" /\ x[8] = "cr" /\ x[9] = "lf"
  <2>1. /\ x \in Seq(Symbol) /\ Len(x) = Len(w) + Len(end)
        /\ \A i \in 1 .. Len(w) : x[i] = w[i]
        /\ \A i \in 1 .. Len(end) : x[Len(w) + i] = end[i]
    BY <1>1, <1>4, Joined DEF x
  <2>2. QED
    BY <1>1, <1>4, <2>1
<1>6. QED
  <2>1. Requests!Line(Requests!Words) = x
    BY <1>2 DEF v, w, x
  <2>2. QED
    BY <1>5, <2>1 DEF WordsAt

(* The lines of all headers of a message.                                  *)
LEMMA LinesOf ==
  ASSUME NEW hs \in {<<>>, <<Requests!Plain>>, <<Requests!Words>>,
                     <<Requests!Words, Requests!Plain>>}
  PROVE  LET lines == Requests!FlattenSeq([i \in DOMAIN hs |-> Requests!Line(hs[i])])
         IN  /\ lines \in Seq(Symbol)
             /\ \/ hs = <<>> /\ Len(lines) = 0
                \/ hs = <<Requests!Plain>> /\ Len(lines) = 6 /\ PlainAt(lines, 1)
                \/ hs = <<Requests!Words>> /\ Len(lines) = 9 /\ WordsAt(lines, 1)
                \/ /\ hs = <<Requests!Words, Requests!Plain>> /\ Len(lines) = 15
                   /\ WordsAt(lines, 1) /\ PlainAt(lines, 10)
<1> DEFINE p == Requests!Line(Requests!Plain)
           w == Requests!Line(Requests!Words)
           texts(ks) == [i \in DOMAIN ks |-> Requests!Line(ks[i])]
<1>1. /\ p \in Seq(Symbol) /\ Len(p) = 6 /\ PlainAt(p, 1)
      /\ w \in Seq(Symbol) /\ Len(w) = 9 /\ WordsAt(w, 1)
  BY LineOfPlain, LineOfWords
<1>2. texts(<<>>) = <<>>
  BY SMT
<1>3. \A h : texts(<<h>>) = <<Requests!Line(h)>> \o <<>>
  <2>1. \A h : texts(<<h>>) = <<Requests!Line(h)>>
    BY SMT
  <2>2. \A x : <<x>> \o <<>> = <<x>>
    OBVIOUS
  <2>3. QED
    BY <2>1, <2>2
<1>4. texts(<<Requests!Words, Requests!Plain>>) = <<w>> \o (<<p>> \o <<>>)
  <2>1. texts(<<Requests!Words, Requests!Plain>>) = <<w, p>>
    BY SMT
  <2>2. \A x, y : <<x>> \o <<y>> = Append(<<x>>, y)
    OBVIOUS
  <2>4. Append(<<w>>, p) = <<w, p>>
    <3> HIDE DEF p, w
    <3>1. /\ Append(<<w>>, p) \in Seq(Seq(Symbol)) /\ <<w, p>> \in Seq(Seq(Symbol))
          /\ Len(Append(<<w>>, p)) = 2 /\ Len(<<w, p>>) = 2
          /\ Append(<<w>>, p)[1] = w /\ Append(<<w>>, p)[2] = p
      BY <1>1
    <3>2. \A i \in 1 .. 2 : Append(<<w>>, p)[i] = <<w, p>>[i]
      BY <3>1
    <3>3. QED
      BY <3>1, <3>2, SeqEqual
  <2>5. \A x : <<x>> \o <<>> = <<x>>
    OBVIOUS
  <2>3. QED
    BY <2>1, <2>2, <2>4, <2>5
<1> HIDE DEF texts, p, w
<1>5. /\ <<>> \in Seq(Seq(Symbol))
      /\ <<p>> \o <<>> \in Seq(Seq(Symbol)) /\ <<w>> \o <<>> \in Seq(Seq(Symbol))
  BY <1>1
<1>6. /\ Requests!FlattenSeq(<<p>> \o <<>>) = p
      /\ Requests!FlattenSeq(<<w>> \o <<>>) = w
  <2>1. p \o <<>> = p /\ w \o <<>> = w
    BY <1>1, ConcatEmptySeq
  <2>2. QED
    BY <1>1, <1>5, <2>1, FlattenFirst, FlattenOfNone
<1>7. Requests!FlattenSeq(<<w>> \o (<<p>> \o <<>>)) = w \o p
  BY <1>1, <1>5, <1>6, FlattenFirst
<1>8. /\ w \o p \in Seq(Symbol) /\ Len(w \o p) = 15 /\ WordsAt(w \o p, 1) /\ PlainAt(w \o p, 10)
  <2> DEFINE x == w \o p
  <2> HIDE DEF x
  <2>1. /\ x \in Seq(Symbol) /\ Len(x) = Len(w) + Len(p)
        /\ \A i \in 1 .. Len(w) : x[i] = w[i]
        /\ \A i \in 1 .. Len(p) : x[Len(w) + i] = p[i]
    BY <1>1, Joined DEF x
  <2>2. WordsAt(x, 1)
    BY <1>1, <2>1 DEF WordsAt
  <2>3. PlainAt(x, 10)
    BY <1>1, <2>1 DEF PlainAt
  <2>4. QED
    BY <1>1, <2>1, <2>2, <2>3 DEF x
<1>9. /\ Requests!FlattenSeq(texts(hs)) \in Seq(Symbol)
      /\ texts(hs) = [i \in DOMAIN hs |-> Requests!Line(hs[i])]
  <2>1. CASE hs = <<>>
    <3>1. texts(hs) = <<>> /\ <<>> \in Seq(Symbol)
      BY <1>2, <2>1
    <3>2. QED
      BY <3>1, FlattenOfNone DEF texts
  <2>2. CASE hs = <<Requests!Plain>>
    <3>1. texts(hs) = <<p>> \o <<>>
      BY <1>3, <2>2 DEF p
    <3>2. Requests!FlattenSeq(texts(hs)) \in Seq(Symbol)
      BY <1>1, <1>6, <3>1
    <3>3. QED
      BY <3>2 DEF texts
  <2>3. CASE hs = <<Requests!Words>>
    <3>1. texts(hs) = <<w>> \o <<>>
      BY <1>3, <2>3 DEF w
    <3>2. Requests!FlattenSeq(texts(hs)) \in Seq(Symbol)
      BY <1>1, <1>6, <3>1
    <3>3. QED
      BY <3>2 DEF texts
  <2>4. CASE hs = <<Requests!Words, Requests!Plain>>
    BY <1>4, <1>7, <1>8, <2>4 DEF texts
  <2>5. QED
    BY <2>1, <2>2, <2>3, <2>4
<1>10. QED
  <2>1. CASE hs = <<>>
    BY <1>2, <1>9, <2>1, FlattenOfNone
  <2>2. CASE hs = <<Requests!Plain>>
    <3>1. texts(hs) = <<p>> \o <<>>
      BY <1>3, <2>2 DEF p
    <3>2. Requests!FlattenSeq(texts(hs)) = p
      BY <1>6, <3>1
    <3>3. QED
      BY <1>1, <1>9, <2>2, <3>2
  <2>3. CASE hs = <<Requests!Words>>
    <3>1. texts(hs) = <<w>> \o <<>>
      BY <1>3, <2>3 DEF w
    <3>2. Requests!FlattenSeq(texts(hs)) = w
      BY <1>6, <3>1
    <3>3. QED
      BY <1>1, <1>9, <2>3, <3>2
  <2>4. CASE hs = <<Requests!Words, Requests!Plain>>
    <3>1. texts(hs) = <<w>> \o (<<p>> \o <<>>)
      BY <1>4, <2>4
    <3>2. Requests!FlattenSeq(texts(hs)) = w \o p
      BY <1>7, <3>1
    <3>3. QED
      BY <1>8, <1>9, <2>4, <3>2
  <2>5. QED
    BY <2>1, <2>2, <2>3, <2>4

(* The first n symbols of b are the request r, the last of them c.         *)
RequestAt(b, r, n, c) ==
  /\ StartAt(b, r.url)
  /\ n > 1 /\ HeadersTo(b, r.headers, n - 1)
  /\ b[n - 1] = "cr" /\ b[n] = c

(* The text of an HTTP request.                                            *)
LEMMA TextOfRequest ==
  ASSUME NEW r \in Requests!Message("HTTP")
  PROVE  /\ Requests!Text("HTTP", r) \in Seq(Symbol)
         /\ RequestAt(Requests!Text("HTTP", r), r, Len(Requests!Text("HTTP", r)), "lf")
         /\ r.url \in Requests!Url
<1> DEFINE start == <<"t", "sp", r.url, "sp", "t", "cr", "lf">>
           lines == Requests!FlattenSeq([i \in DOMAIN r.headers |-> Requests!Line(r.headers[i])])
           end == <<"cr", "lf">>
           v == start \o lines
           text == v \o end
<1>1. /\ r.url \in Requests!Url
      /\ r.headers \in {<<>>, <<Requests!Plain>>, <<Requests!Words>>,
                        <<Requests!Words, Requests!Plain>>}
  BY DEF Requests!Message
<1>2. /\ start \in Seq(Symbol) /\ Len(start) = 7 /\ start[1] = "t" /\ start[2] = "sp"
      /\ start[3] = r.url /\ start[4] = "sp" /\ start[5] = "t"
      /\ start[6] = "cr" /\ start[7] = "lf"
      /\ end \in Seq(Symbol) /\ Len(end) = 2 /\ end[1] = "cr" /\ end[2] = "lf"
  BY <1>1 DEF Symbol, Requests!Url
<1>3. /\ lines \in Seq(Symbol)
      /\ \/ r.headers = <<>> /\ Len(lines) = 0
         \/ r.headers = <<Requests!Plain>> /\ Len(lines) = 6 /\ PlainAt(lines, 1)
         \/ r.headers = <<Requests!Words>> /\ Len(lines) = 9 /\ WordsAt(lines, 1)
         \/ /\ r.headers = <<Requests!Words, Requests!Plain>> /\ Len(lines) = 15
            /\ WordsAt(lines, 1) /\ PlainAt(lines, 10)
  BY <1>1, LinesOf
<1>4. Requests!Text("HTTP", r) = text
  BY DEF Requests!Text
<1> HIDE DEF start, lines, end, v, text
<1>5. /\ v \in Seq(Symbol) /\ Len(v) = 7 + Len(lines)
      /\ \A i \in 1 .. 7 : v[i] = start[i]
      /\ \A i \in 1 .. Len(lines) : v[7 + i] = lines[i]
      /\ Len(lines) \in Nat
  <2>1. /\ v \in Seq(Symbol) /\ Len(v) = Len(start) + Len(lines) /\ Len(lines) \in Nat
        /\ \A i \in 1 .. Len(start) : v[i] = start[i]
        /\ \A i \in 1 .. Len(lines) : v[Len(start) + i] = lines[i]
    BY <1>2, <1>3, Joined DEF v
  <2>2. QED
    BY <1>2, <2>1
<1>6. /\ text \in Seq(Symbol) /\ Len(text) = 9 + Len(lines)
      /\ \A i \in 1 .. 7 : text[i] = start[i]
      /\ \A i \in 1 .. Len(lines) : text[7 + i] = lines[i]
      /\ text[8 + Len(lines)] = "cr" /\ text[9 + Len(lines)] = "lf"
  <2>1. /\ text \in Seq(Symbol) /\ Len(text) = (7 + Len(lines)) + 2
        /\ \A i \in 1 .. 7 + Len(lines) : text[i] = v[i]
        /\ \A i \in 1 .. 2 : text[(7 + Len(lines)) + i] = end[i]
    <3>1. /\ text \in Seq(Symbol) /\ Len(text) = Len(v) + Len(end)
          /\ \A i \in 1 .. Len(v) : text[i] = v[i]
          /\ \A i \in 1 .. Len(end) : text[Len(v) + i] = end[i]
      BY <1>2, <1>5, Joined DEF text
    <3>2. QED
      BY <1>2, <1>5, <3>1
  <2>2. /\ (7 + Len(lines)) + 1 = 8 + Len(lines) /\ (7 + Len(lines)) + 2 = 9 + Len(lines)
        /\ \A i \in 1 .. 7 : i \in 1 .. 7 + Len(lines)
        /\ \A i \in 1 .. Len(lines) : 7 + i \in 1 .. 7 + Len(lines)
    BY <1>5
  <2>3. \A i \in 1 .. Len(lines) : text[7 + i] = lines[i]
    BY <1>5, <2>1, <2>2
  <2>4. text[8 + Len(lines)] = "cr" /\ text[9 + Len(lines)] = "lf"
    BY <1>2, <2>1, <2>2
  <2>5. QED
    BY <1>5, <2>1, <2>2, <2>3, <2>4
<1>7. StartAt(text, r.url)
  BY <1>2, <1>6 DEF StartAt
<1>8. HeadersTo(text, r.headers, 8 + Len(lines))
  <2>1. CASE r.headers = <<>> /\ Len(lines) = 0
    BY <2>1 DEF HeadersTo
  <2>2. CASE r.headers = <<Requests!Plain>> /\ Len(lines) = 6 /\ PlainAt(lines, 1)
    <3>1. PlainAt(text, 8)
      BY <1>6, <2>2 DEF PlainAt
    <3>2. QED
      BY <2>2, <3>1 DEF HeadersTo
  <2>3. CASE r.headers = <<Requests!Words>> /\ Len(lines) = 9 /\ WordsAt(lines, 1)
    <3>1. WordsAt(text, 8)
      BY <1>6, <2>3 DEF WordsAt
    <3>2. QED
      BY <2>3, <3>1 DEF HeadersTo
  <2>4. CASE /\ r.headers = <<Requests!Words, Requests!Plain>> /\ Len(lines) = 15
             /\ WordsAt(lines, 1) /\ PlainAt(lines, 10)
    <3>1. WordsAt(text, 8)
      BY <1>6, <2>4 DEF WordsAt
    <3>2. PlainAt(text, 17)
      BY <1>6, <2>4 DEF PlainAt
    <3>3. QED
      BY <2>4, <3>1, <3>2 DEF HeadersTo
  <2>5. QED
    BY <1>3, <2>1, <2>2, <2>3, <2>4
<1>9. QED
  <2>1. Len(text) - 1 = 8 + Len(lines) /\ Len(text) > 1
    BY <1>5, <1>6
  <2>2. RequestAt(text, r, Len(text), "lf")
    BY <1>6, <1>7, <1>8, <2>1 DEF RequestAt
  <2>3. QED
    BY <1>1, <1>4, <1>6, <2>2

(* Messages of the other models.                                           *)
LEMMA TextOfFixed ==
  ASSUME NEW r \in Requests!Message("FIXED")
  PROVE  /\ Requests!Text("FIXED", r) \in Seq(Symbol)
         /\ Len(Requests!Text("FIXED", r)) = 2 /\ r = [length |-> 2]
<1>1. r = [length |-> 2]
  BY DEF Requests!Message, Requests!FixedSize
<1>2. Requests!Text("FIXED", r) = [i \in 1 .. 2 |-> "t"]
  BY <1>1 DEF Requests!Text, Requests!Ts
<1>3. [i \in 1 .. 2 |-> "t"] \in Seq(Symbol) /\ Len([i \in 1 .. 2 |-> "t"]) = 2
  BY DEF Symbol
<1>4. QED
  BY <1>1, <1>2, <1>3

LEMMA TextOfLength ==
  ASSUME NEW r \in Requests!Message("LENGTH")
  PROVE  /\ Requests!Text("LENGTH", r) \in Seq(Symbol)
         /\ r.length \in 0 .. 2 /\ r = [length |-> r.length]
         /\ Len(Requests!Text("LENGTH", r)) = r.length + 1
         /\ Requests!Text("LENGTH", r)[1] = Requests!Digit[r.length + 1]
<1>1. r.length \in 0 .. 2 /\ r = [length |-> r.length]
  BY DEF Requests!Message
<1>2. Requests!Text("LENGTH", r) = <<Requests!Digit[r.length + 1]>> \o [i \in 1 .. r.length |-> "t"]
  BY DEF Requests!Text, Requests!Ts
<1>3. Requests!Digit[r.length + 1] \in Symbol
  BY <1>1 DEF Requests!Digit, Symbol
<1> DEFINE first == <<Requests!Digit[r.length + 1]>>
           others == [i \in 1 .. r.length |-> "t"]
<1>4. /\ first \in Seq(Symbol) /\ Len(first) = 1 /\ first[1] = Requests!Digit[r.length + 1]
      /\ others \in Seq(Symbol) /\ Len(others) = r.length
  BY <1>1, <1>3 DEF Symbol
<1> HIDE DEF first, others
<1>5. /\ first \o others \in Seq(Symbol) /\ Len(first \o others) = 1 + r.length
      /\ (first \o others)[1] = first[1]
  <2>1. \A i \in 1 .. Len(first) : (first \o others)[i] = first[i]
    BY <1>4, Joined
  <2>2. 1 \in 1 .. Len(first)
    BY <1>4
  <2>3. QED
    BY <1>4, <2>1, <2>2, Joined
<1>6. QED
  BY <1>1, <1>2, <1>4, <1>5 DEF first, others

-----------------------------------------------------------------------------
(* In the buffer a zero may end the request.                               *)
Byte == Symbol \union {"nul"}

(* The least of a set of numbers.                                          *)
LEMMA LeastIs ==
  ASSUME NEW X \in SUBSET Int, NEW k \in X, \A y \in X : k <= y
  PROVE  Requests!Min(X) = k
<1>1. \A x \in X : (\A y \in X : x <= y) => x = k
  OBVIOUS
<1>2. QED
  BY <1>1 DEF Requests!Min

LEMMA LeastExists ==
  ASSUME NEW X \in SUBSET Nat, X # {}
  PROVE  Requests!Min(X) \in X /\ \A y \in X : Requests!Min(X) <= y
<1> DEFINE R == OpToRel(<, Nat)
<1>1. IsWellFoundedOn(R, Nat)
  BY NatLessThanWellFounded
<1> HIDE DEF R
<1>2. PICK x \in X : \A y \in X : <<y, x>> \notin R
  BY <1>1, WFMin
<1>3. ASSUME NEW y \in X PROVE x <= y
  <2>1. y \in Nat /\ x \in Nat /\ <<y, x>> \notin R
    BY <1>2
  <2>2. ~ (y < x)
    BY <2>1 DEF OpToRel, R
  <2>3. QED
    BY <2>1, <2>2
<1>4. QED
  BY <1>2, <1>3 DEF Requests!Min

-----------------------------------------------------------------------------
(* The loops that move ptr.                                                *)
(* Where a loop up to a character of S stops, in the buffer or behind it.  *)
LEMMA SeekFacts ==
  ASSUME NEW b \in Seq(Byte), NEW i \in Nat \ {0}, NEW S
  PROVE  LET k == Requests!Seek(b, i, S)
         IN  /\ k \in Nat /\ k <= Len(b) + 1 /\ (k >= i \/ k = Len(b) + 1)
             /\ k <= Len(b) => b[k] \in S
             /\ \A j \in i .. Len(b) : j < k => b[j] \notin S
<1> DEFINE X == {j \in i .. Len(b) : b[j] \in S} \union {Len(b) + 1}
<1>1. Len(b) \in Nat
  OBVIOUS
<1>2. X \in SUBSET Nat /\ X # {}
  BY <1>1
<1>3. Requests!Seek(b, i, S) = Requests!Min(X)
  BY DEF Requests!Seek
<1>4. Len(b) + 1 \in X /\ \A j \in X : j = Len(b) + 1 \/ (j \in i .. Len(b) /\ b[j] \in S)
  OBVIOUS
<1>5. \A j \in i .. Len(b) : b[j] \in S => j \in X
  OBVIOUS
<1> HIDE DEF X
<1>6. Requests!Min(X) \in X /\ \A y \in X : Requests!Min(X) <= y
  BY <1>2, LeastExists
<1>7. Requests!Min(X) \in Nat
  BY <1>2, <1>6
<1>8. QED
  BY <1>1, <1>3, <1>4, <1>5, <1>6, <1>7

(* It stops at k, when k is the first.                                     *)
LEMMA SeekIs ==
  ASSUME NEW b \in Seq(Byte), NEW i \in Nat \ {0}, NEW S,
         NEW k \in i .. Len(b), b[k] \in S, \A j \in i .. k - 1 : b[j] \notin S
  PROVE  Requests!Seek(b, i, S) = k
<1> DEFINE l == Requests!Seek(b, i, S)
<1>1. /\ l \in Nat /\ l <= Len(b) + 1 /\ (l >= i \/ l = Len(b) + 1)
      /\ l <= Len(b) => b[l] \in S
      /\ \A j \in i .. Len(b) : j < l => b[j] \notin S
  BY SeekFacts
<1> HIDE DEF l
<1>2. Len(b) \in Nat /\ k <= Len(b)
  OBVIOUS
<1>3. ~ (k < l)
  BY <1>1
<1>4. ~ (l < k)
  BY <1>1, <1>2
<1>5. l = k
  BY <1>1, <1>2, <1>3, <1>4
<1>6. QED
  BY <1>5 DEF l

(* Where a loop over the characters that are s stops.                      *)
LEMMA SkipFacts ==
  ASSUME NEW b \in Seq(Byte), NEW i \in Nat \ {0}, NEW s
  PROVE  LET k == Requests!Skip(b, i, s)
         IN  /\ k \in Nat /\ k <= Len(b) + 1 /\ (k >= i \/ k = Len(b) + 1)
             /\ k <= Len(b) => b[k] # s
             /\ \A j \in i .. Len(b) : j < k => b[j] = s
<1> DEFINE X == {j \in i .. Len(b) : b[j] # s} \union {Len(b) + 1}
<1>1. Len(b) \in Nat
  OBVIOUS
<1>2. X \in SUBSET Nat /\ X # {}
  BY <1>1
<1>3. Requests!Skip(b, i, s) = Requests!Min(X)
  BY DEF Requests!Skip
<1>4. Len(b) + 1 \in X /\ \A j \in X : j = Len(b) + 1 \/ (j \in i .. Len(b) /\ b[j] # s)
  OBVIOUS
<1>5. \A j \in i .. Len(b) : b[j] # s => j \in X
  OBVIOUS
<1> HIDE DEF X
<1>6. Requests!Min(X) \in X /\ \A y \in X : Requests!Min(X) <= y
  BY <1>2, LeastExists
<1>7. Requests!Min(X) \in Nat
  BY <1>2, <1>6
<1>8. QED
  BY <1>1, <1>3, <1>4, <1>5, <1>6, <1>7

(* Where there is nothing to skip, ptr stays.                              *)
LEMMA SkipNone ==
  ASSUME NEW b \in Seq(Byte), NEW i \in 1 .. Len(b), NEW s, b[i] # s
  PROVE  Requests!Skip(b, i, s) = i
<1> DEFINE l == Requests!Skip(b, i, s)
<1>1. /\ l \in Nat /\ l <= Len(b) + 1 /\ (l >= i \/ l = Len(b) + 1)
      /\ \A j \in i .. Len(b) : j < l => b[j] = s
  BY SkipFacts
<1> HIDE DEF l
<1>2. Len(b) \in Nat /\ i \in i .. Len(b)
  OBVIOUS
<1>3. l = i
  BY <1>1, <1>2
<1>4. QED
  BY <1>3 DEF l

-----------------------------------------------------------------------------
(* One header, and where the next one begins.                              *)
ValueOf(b, i) == Requests!Skip(b, Requests!ReadField(b, i, "col"), "sp")
NextOf(b, i) == Requests!Min({Requests!ReadLastField(b, ValueOf(b, i)), Len(b) + 1})
HeaderOf(b, i) ==
  [key |-> SubSeq(b, i, Requests!FieldEnd(b, i, "col") - 1),
   value |-> SubSeq(b, ValueOf(b, i), Requests!LastEnd(b, ValueOf(b, i)) - 1)]

(* The parser moves on with each header, and past its colon.               *)
LEMMA NextIsLater ==
  ASSUME NEW b \in Seq(Byte), NEW i \in 1 .. Len(b)
  PROVE  /\ NextOf(b, i) \in i + 1 .. Len(b) + 1
         /\ \/ NextOf(b, i) = Len(b) + 1
            \/ NextOf(b, i) >= Requests!FieldEnd(b, i, "col") + 2
<1> DEFINE end == Requests!Seek(b, i, {"col"})
           field == Requests!Skip(b, end + 1, "col")
           value == Requests!Skip(b, field, "sp")
           last == Requests!Seek(b, value, {"cr", "sp"})
           j == Requests!Skip(b, last + 1, "sp")
           L == Len(b)
<1>1. L \in Nat /\ i \in Nat \ {0}
  OBVIOUS
<1>2. end \in Nat /\ end <= L + 1 /\ (end >= i \/ end = L + 1)
  BY <1>1, SeekFacts
<1>3. end + 1 \in Nat \ {0} /\ end >= i
  BY <1>1, <1>2
<1> HIDE DEF end
<1>4. field \in Nat /\ field <= L + 1 /\ (field >= end + 1 \/ field = L + 1)
  BY <1>3, SkipFacts
<1>5. field \in Nat \ {0}
  BY <1>1, <1>3, <1>4
<1> HIDE DEF field
<1>6. value \in Nat /\ value <= L + 1 /\ (value >= field \/ value = L + 1)
  BY <1>5, SkipFacts
<1>7. value \in Nat \ {0}
  BY <1>1, <1>5, <1>6
<1> HIDE DEF value
<1>8. last \in Nat /\ last <= L + 1 /\ (last >= value \/ last = L + 1)
  BY <1>7, SeekFacts
<1>9. last + 1 \in Nat \ {0}
  BY <1>8
<1> HIDE DEF last
<1>10. j \in Nat /\ j <= L + 1 /\ (j >= last + 1 \/ j = L + 1)
  BY <1>9, SkipFacts
<1> DEFINE read == IF j <= Len(b) /\ b[j] = "cr" THEN j + 2 ELSE j + 1
<1>11. ValueOf(b, i) = value
  BY DEF ValueOf, value, field, end, Requests!ReadField, Requests!FieldEnd
<1>12. Requests!ReadLastField(b, value) = read
  BY DEF Requests!ReadLastField, Requests!LastEnd, last, j
<1>13. read \in Nat /\ read >= j + 1
  <2> HIDE DEF j
  <2>1. QED
    BY <1>10
<1> HIDE DEF j, read
<1>14. Requests!Min({read, L + 1}) \in {read, L + 1} /\ Requests!Min({read, L + 1}) <= L + 1
  <2>1. {read, L + 1} \in SUBSET Nat /\ {read, L + 1} # {} /\ L + 1 \in {read, L + 1}
    BY <1>1, <1>13
  <2>2. QED
    BY <2>1, LeastExists
<1>15. NextOf(b, i) = Requests!Min({read, L + 1})
  BY <1>11, <1>12 DEF NextOf
<1>16. read >= end + 2 \/ read >= L + 1
  BY <1>1, <1>2, <1>3, <1>4, <1>6, <1>8, <1>10, <1>13
<1>17. Requests!FieldEnd(b, i, "col") = end
  BY DEF Requests!FieldEnd, end
<1> DEFINE n == Requests!Min({read, L + 1})
<1> HIDE DEF n
<1>18. n \in Nat /\ (n = read \/ n = L + 1) /\ n <= L + 1
  BY <1>1, <1>13, <1>14 DEF n
<1>19. n \in i + 1 .. L + 1 /\ (n = L + 1 \/ n >= end + 2)
  BY <1>1, <1>2, <1>3, <1>16, <1>18
<1>20. QED
  BY <1>15, <1>17, <1>19 DEF n

(* The headers from position i, when f has those from the next ones.       *)
FromOf(b, f, i) ==
  IF i > Len(b) \/ b[i] = "cr" THEN [headers |-> <<>>, ptr |-> i]
  ELSE [f[NextOf(b, i)] EXCEPT !.headers = <<HeaderOf(b, i)>> \o @]

(* Headers is recursive in the position: it has a value at each of them,   *)
(* the one that FromOf says, since the next header is always a later one.  *)
LEMMA HeadersAreFrom ==
  ASSUME NEW b \in Seq(Byte), NEW i \in 1 .. Len(b) + 1
  PROVE  Requests!Headers(b)[i] = FromOf(b, Requests!Headers(b), i)
<1> DEFINE L == Len(b)
           Step(f) == [k \in 1 .. L + 1 |-> FromOf(b, f, k)]
           from == CHOOSE f : f = Step(f)
           Partial(f, n) == /\ f = [k \in L + 1 - n .. L + 1 |-> f[k]]
                            /\ \A k \in L + 1 - n .. L + 1 : f[k] = FromOf(b, f, k)
           S == {n \in Nat : n <= L => \E f : Partial(f, n)}
<1>0. L \in Nat
  OBVIOUS
<1>1. Requests!Headers(b) = from
  BY DEF Requests!Headers, FromOf, NextOf, HeaderOf, ValueOf
<1>2. \A k \in 1 .. L : NextOf(b, k) \in k + 1 .. L + 1
  BY NextIsLater
<1> HIDE DEF from
<1>3. 0 \in S
  <2> DEFINE f == [k \in L + 1 .. L + 1 |-> [headers |-> <<>>, ptr |-> k]]
  <2>1. Partial(f, 0)
    BY <1>0 DEF FromOf
  <2> HIDE DEF f
  <2>2. QED
    BY <2>1
<1>4. ASSUME NEW n \in S PROVE n + 1 \in S
  <2>1. ASSUME n + 1 <= L PROVE \E f : Partial(f, n + 1)
    <3>1. PICK f : Partial(f, n)
      BY <1>0, <2>1
    <3> DEFINE m == L - n
               g == [k \in m .. L + 1 |-> IF k = m THEN FromOf(b, f, k) ELSE f[k]]
    <3>2. /\ m \in 1 .. L /\ L + 1 - (n + 1) = m /\ L + 1 - n = m + 1 /\ n \in Nat
      BY <1>0, <2>1
    <3>3. \A k \in m + 1 .. L + 1 : g[k] = f[k]
      BY <3>2
    <3>4. g[m] = FromOf(b, f, m)
      BY <1>0, <3>2
    <3>5. g = [k \in m .. L + 1 |-> g[k]]
      OBVIOUS
    <3> HIDE DEF g, m
    <3>6. ASSUME NEW k \in m .. L + 1 PROVE FromOf(b, g, k) = FromOf(b, f, k)
      <4>1. CASE k > L
        BY <4>1 DEF FromOf
      <4>2. CASE k <= L
        <5>1. k \in 1 .. L
          BY <1>0, <3>2, <4>2
        <5>2. NextOf(b, k) \in m + 1 .. L + 1
          BY <1>2, <5>1, <3>2
        <5>3. g[NextOf(b, k)] = f[NextOf(b, k)]
          BY <3>3, <5>2
        <5>4. QED
          BY <5>3 DEF FromOf
      <4>3. QED
        BY <1>0, <3>2, <4>1, <4>2
    <3>7. \A k \in m .. L + 1 : g[k] = FromOf(b, g, k)
      <4>1. ASSUME NEW k \in m + 1 .. L + 1 PROVE g[k] = FromOf(b, g, k)
        <5>1. k \in m .. L + 1 /\ k \in L + 1 - n .. L + 1
          BY <1>0, <3>2
        <5>2. g[k] = f[k] /\ f[k] = FromOf(b, f, k) /\ FromOf(b, g, k) = FromOf(b, f, k)
          BY <3>1, <3>3, <3>6, <5>1
        <5>3. QED
          BY <5>2
      <4>2. m \in m .. L + 1 /\ \A k \in m .. L + 1 : k = m \/ k \in m + 1 .. L + 1
        BY <1>0, <3>2
      <4>3. g[m] = FromOf(b, g, m)
        BY <3>4, <3>6, <4>2
      <4>4. QED
        BY <4>1, <4>2, <4>3
    <3>8. Partial(g, n + 1)
      BY <3>2, <3>5, <3>7
    <3>9. QED
      BY <3>8
  <2>2. n + 1 \in Nat
    OBVIOUS
  <2>3. QED
    BY <2>1, <2>2
<1>5. S = Nat
  <2>1. S \in SUBSET Nat
    OBVIOUS
  <2> HIDE DEF S
  <2>2. QED
    BY <1>3, <1>4, <2>1, EveryNumber
<1>6. \E f : Partial(f, L)
  <2>1. L \in S
    BY <1>0, <1>5
  <2>2. L <= L
    BY <1>0
  <2> HIDE DEF L, Partial
  <2>3. QED
    BY <2>1, <2>2
<1>7. PICK f : Partial(f, L)
  BY <1>6
<1>8. f = Step(f)
  <2>1. L + 1 - L = 1
    BY <1>0
  <2> HIDE DEF L
  <2>2. f = [k \in 1 .. L + 1 |-> f[k]] /\ \A k \in 1 .. L + 1 : f[k] = FromOf(b, f, k)
    BY <1>7, <2>1
  <2>3. QED
    BY <2>2
<1>9. from = Step(from)
  BY <1>8 DEF from
<1>10. from[i] = FromOf(b, from, i)
  BY <1>9
<1>11. QED
  BY <1>1, <1>10

(* What Headers has at every position is a record, and ptr moves forward.  *)
LEMMA HeadersAreRecords ==
  ASSUME NEW b \in Seq(Byte), NEW i \in 1 .. Len(b) + 1
  PROVE  LET from == Requests!Headers(b)
         IN  /\ from[i] = [headers |-> from[i].headers, ptr |-> from[i].ptr]
             /\ from[i].ptr \in i .. Len(b) + 1
<1> DEFINE L == Len(b)
           from == Requests!Headers(b)
           Good(k) == /\ from[k] = [headers |-> from[k].headers, ptr |-> from[k].ptr]
                      /\ from[k].ptr \in k .. L + 1
           S == {n \in Nat : \A k \in 1 .. L + 1 : L + 1 - k <= n => Good(k)}
<1>0. L \in Nat
  OBVIOUS
<1>1. \A k \in 1 .. L + 1 : from[k] = FromOf(b, from, k)
  BY HeadersAreFrom
<1> HIDE DEF from
<1>2. ASSUME NEW k \in 1 .. L + 1, k > L \/ b[k] = "cr" PROVE Good(k)
  <2>1. from[k] = [headers |-> <<>>, ptr |-> k]
    BY <1>1, <1>2 DEF FromOf
  <2>2. QED
    BY <1>0, <2>1
<1>3. 0 \in S
  <2>1. \A k \in 1 .. L + 1 : L + 1 - k <= 0 => k > L
    BY <1>0
  <2>2. QED
    BY <1>2, <2>1
<1>4. ASSUME NEW n \in S PROVE n + 1 \in S
  <2>1. ASSUME NEW k \in 1 .. L + 1, L + 1 - k <= n + 1 PROVE Good(k)
    <3>1. CASE k > L \/ b[k] = "cr"
      BY <1>2, <3>1
    <3>2. CASE ~ (k > L \/ b[k] = "cr")
      <4> DEFINE m == NextOf(b, k)
      <4>1. k \in 1 .. Len(b)
        BY <1>0, <3>2
      <4>2. m \in k + 1 .. L + 1
        BY <4>1, NextIsLater
      <4>3. from[k] = [from[m] EXCEPT !.headers = <<HeaderOf(b, k)>> \o @]
        BY <1>1, <3>2 DEF FromOf
      <4> HIDE DEF m
      <4>4. m \in 1 .. L + 1 /\ L + 1 - m <= n
        BY <1>0, <2>1, <4>1, <4>2
      <4>5. Good(m)
        BY <4>4
      <4>6. /\ from[k].ptr = from[m].ptr
            /\ from[k] = [headers |-> from[k].headers, ptr |-> from[k].ptr]
        BY <4>3, <4>5
      <4>7. QED
        BY <1>0, <4>1, <4>2, <4>5, <4>6
    <3>3. QED
      BY <3>1, <3>2
  <2>2. n + 1 \in Nat
    OBVIOUS
  <2> HIDE DEF Good, L
  <2>3. QED
    BY <2>1, <2>2
<1>5. S = Nat
  <2>1. S \in SUBSET Nat
    OBVIOUS
  <2> HIDE DEF S
  <2>2. QED
    BY <1>3, <1>4, <2>1, EveryNumber
<1>6. L + 1 - i \in S /\ L + 1 - i <= L + 1 - i
  BY <1>0, <1>5
<1>7. Good(i)
  <2> HIDE DEF Good, L
  <2>1. QED
    BY <1>6 DEF L
<1>8. QED
  BY <1>7 DEF from

(* A line that begins with cr ends the headers.                            *)
LEMMA HeadersEnd ==
  ASSUME NEW b \in Seq(Byte), NEW i \in 1 .. Len(b) + 1, i > Len(b) \/ b[i] = "cr"
  PROVE  Requests!Headers(b)[i].headers = <<>> /\ Requests!Headers(b)[i].ptr = i
<1>1. Requests!Headers(b)[i] = [headers |-> <<>>, ptr |-> i]
  BY HeadersAreFrom DEF FromOf
<1>2. QED
  BY <1>1

(* Any other line is a header, and the rest follows.                       *)
LEMMA HeadersGoOn ==
  ASSUME NEW b \in Seq(Byte), NEW i \in 1 .. Len(b), b[i] # "cr"
  PROVE  LET from == Requests!Headers(b)
         IN  /\ from[i].headers = <<HeaderOf(b, i)>> \o from[NextOf(b, i)].headers
             /\ from[i].ptr = from[NextOf(b, i)].ptr
<1> DEFINE from == Requests!Headers(b)
           m == NextOf(b, i)
<1>1. i \in 1 .. Len(b) + 1 /\ ~ (i > Len(b))
  OBVIOUS
<1>2. from[i] = [from[m] EXCEPT !.headers = <<HeaderOf(b, i)>> \o @]
  BY <1>1, HeadersAreFrom DEF FromOf
<1>3. m \in 1 .. Len(b) + 1
  BY NextIsLater
<1>4. from[m] = [headers |-> from[m].headers, ptr |-> from[m].ptr]
  BY <1>3, HeadersAreRecords
<1> HIDE DEF from, m
<1>5. from[i].headers = <<HeaderOf(b, i)>> \o from[m].headers /\ from[i].ptr = from[m].ptr
  BY <1>2, <1>4
<1>6. QED
  BY <1>5 DEF from, m

LEMMA OneByte ==
  ASSUME NEW b \in Seq(Byte), NEW i \in 1 .. Len(b)
  PROVE  SubSeq(b, i, i) = <<b[i]>>
<1> DEFINE s == SubSeq(b, i, i)
<1>1. i \in Int /\ \A j \in i .. i : b[j] \in Byte
  OBVIOUS
<1>2. s \in Seq(Byte) /\ Len(s) = 1 /\ s[1] = b[i]
  OBVIOUS
<1>3. b[i] \in Byte
  BY <1>1
<1> HIDE DEF s
<1>4. <<b[i]>> \in Seq(Byte) /\ Len(<<b[i]>>) = 1 /\ <<b[i]>>[1] = b[i]
  BY <1>3
<1>5. \A j \in 1 .. 1 : s[j] = <<b[i]>>[j]
  BY <1>2, <1>4
<1>6. s = <<b[i]>>
  BY <1>2, <1>4, <1>5, SeqEqual
<1>7. QED
  BY <1>6 DEF s

(* A header whose value is one word, its colon at c.                       *)
LEMMA HeaderParsed ==
  ASSUME NEW b \in Seq(Byte), NEW i \in 1 .. Len(b), NEW c \in i .. Len(b),
         c + 4 <= Len(b), \A j \in i .. c - 1 : b[j] # "col",
         b[c] = "col", b[c + 1] = "sp", b[c + 2] = "t", b[c + 3] = "cr", b[c + 4] = "lf"
  PROVE  /\ NextOf(b, i) = c + 5
         /\ HeaderOf(b, i) = [key |-> SubSeq(b, i, c - 1), value |-> <<"t">>]
<1>0. /\ Len(b) \in Nat /\ i \in Nat \ {0} /\ c \in Nat \ {0} /\ c + 1 \in 1 .. Len(b)
      /\ c + 2 \in 1 .. Len(b) /\ c + 3 \in 1 .. Len(b) /\ c + 4 \in 1 .. Len(b)
      /\ c + 2 \in Nat \ {0} /\ c + 3 \in c + 2 .. Len(b)
      /\ (c + 3) + 1 = c + 4 /\ (c + 4) + 1 = c + 5 /\ c + 4 <= Len(b) /\ (c + 3) - 1 = c + 2
  OBVIOUS
<1>1. Requests!FieldEnd(b, i, "col") = c
  <2>1. b[c] \in {"col"} /\ \A j \in i .. c - 1 : b[j] \notin {"col"}
    OBVIOUS
  <2>2. Requests!Seek(b, i, {"col"}) = c
    BY <1>0, <2>1, SeekIs
  <2>3. QED
    BY <2>2 DEF Requests!FieldEnd
<1>2. Requests!ReadField(b, i, "col") = c + 1
  BY <1>0, <1>1, SkipNone DEF Requests!ReadField
<1>3. ValueOf(b, i) = c + 2
  <2>1. Requests!Skip(b, c + 1, "sp") = c + 2
    <3> DEFINE l == Requests!Skip(b, c + 1, "sp")
    <3>1. /\ l \in Nat /\ l <= Len(b) + 1 /\ (l >= c + 1 \/ l = Len(b) + 1)
          /\ l <= Len(b) => b[l] # "sp"
          /\ \A j \in c + 1 .. Len(b) : j < l => b[j] = "sp"
      BY <1>0, SkipFacts
    <3> HIDE DEF l
    <3>2. l # c + 1
      BY <1>0, <3>1
    <3>3. c + 2 \in c + 1 .. Len(b) /\ b[c + 2] # "sp"
      BY <1>0
    <3>4. l = c + 2
      BY <1>0, <3>1, <3>2, <3>3
    <3>5. QED
      BY <3>4 DEF l
  <2>2. QED
    BY <1>2, <2>1 DEF ValueOf
<1>4. Requests!LastEnd(b, c + 2) = c + 3
  <2>1. \A j \in c + 2 .. (c + 3) - 1 : j = c + 2
    BY <1>0
  <2>2. b[c + 3] \in {"cr", "sp"} /\ \A j \in c + 2 .. (c + 3) - 1 : b[j] \notin {"cr", "sp"}
    BY <1>0, <2>1
  <2>3. QED
    BY <1>0, <2>2, SeekIs DEF Requests!LastEnd
<1>5. Requests!ReadLastField(b, c + 2) = c + 5
  <2>1. Requests!Skip(b, c + 4, "sp") = c + 4
    BY <1>0, SkipNone
  <2>2. QED
    BY <1>0, <1>4, <2>1 DEF Requests!ReadLastField
<1>6. NextOf(b, i) = c + 5
  <2>1. {c + 5, Len(b) + 1} \in SUBSET Int /\ \A y \in {c + 5, Len(b) + 1} : c + 5 <= y
    BY <1>0
  <2>2. Requests!Min({c + 5, Len(b) + 1}) = c + 5
    BY <2>1, LeastIs
  <2>3. QED
    BY <1>3, <1>5, <2>2 DEF NextOf
<1>7. SubSeq(b, c + 2, c + 2) = <<"t">>
  <2>1. SubSeq(b, c + 2, c + 2) = <<b[c + 2]>>
    BY <1>0, OneByte
  <2>2. QED
    BY <2>1
<1>8. QED
  BY <1>0, <1>1, <1>3, <1>4, <1>6, <1>7 DEF HeaderOf

(* Of a value of several words the parser takes the first, and skips the   *)
(* first character of the second.                                          *)
LEMMA WordsParsed ==
  ASSUME NEW b \in Seq(Byte), NEW i \in 1 .. Len(b), i + 8 <= Len(b), WordsAt(b, i)
  PROVE  NextOf(b, i) = i + 6
<1>0. /\ Len(b) \in Nat /\ i \in Nat \ {0} /\ i + 1 \in i .. Len(b) /\ i + 2 \in 1 .. Len(b)
      /\ i + 2 \in Nat \ {0} /\ i + 3 \in i + 2 .. Len(b) /\ i + 3 \in Nat \ {0}
      /\ i + 4 \in i + 3 .. Len(b) /\ i + 5 \in 1 .. Len(b)
      /\ (i + 1) + 1 = i + 2 /\ (i + 4) + 1 = i + 5 /\ (i + 5) + 1 = i + 6
  OBVIOUS
<1>1. /\ b[i] = "t" /\ b[i + 1] = "col" /\ b[i + 2] = "sp" /\ b[i + 3] = "t"
      /\ b[i + 4] = "sp" /\ b[i + 5] = "t"
  BY DEF WordsAt
<1>2. Requests!FieldEnd(b, i, "col") = i + 1
  <2>1. b[i + 1] \in {"col"} /\ \A j \in i .. (i + 1) - 1 : b[j] \notin {"col"}
    BY <1>0, <1>1
  <2>2. QED
    BY <1>0, <2>1, SeekIs DEF Requests!FieldEnd
<1>3. Requests!ReadField(b, i, "col") = i + 2
  BY <1>0, <1>1, <1>2, SkipNone DEF Requests!ReadField
<1>4. ValueOf(b, i) = i + 3
  <2> DEFINE l == Requests!Skip(b, i + 2, "sp")
  <2>1. /\ l \in Nat /\ l <= Len(b) + 1 /\ (l >= i + 2 \/ l = Len(b) + 1)
        /\ l <= Len(b) => b[l] # "sp"
        /\ \A j \in i + 2 .. Len(b) : j < l => b[j] = "sp"
    BY <1>0, SkipFacts
  <2> HIDE DEF l
  <2>2. l = i + 3
    BY <1>0, <1>1, <2>1
  <2>3. QED
    BY <1>3, <2>2 DEF ValueOf, l
<1>5. Requests!LastEnd(b, i + 3) = i + 4
  <2>1. b[i + 4] \in {"cr", "sp"} /\ \A j \in i + 3 .. (i + 4) - 1 : b[j] \notin {"cr", "sp"}
    BY <1>0, <1>1
  <2>2. QED
    BY <1>0, <2>1, SeekIs DEF Requests!LastEnd
<1>6. Requests!ReadLastField(b, i + 3) = i + 6
  <2>1. Requests!Skip(b, i + 5, "sp") = i + 5
    BY <1>0, <1>1, SkipNone
  <2>2. QED
    BY <1>0, <1>1, <1>5, <2>1 DEF Requests!ReadLastField
<1>7. QED
  <2>1. {i + 6, Len(b) + 1} \in SUBSET Int /\ \A y \in {i + 6, Len(b) + 1} : i + 6 <= y
    BY <1>0
  <2>2. Requests!Min({i + 6, Len(b) + 1}) = i + 6
    BY <2>1, LeastIs
  <2>3. QED
    BY <1>4, <1>6, <2>2 DEF NextOf

(* Of a value of one word the parser takes all.                            *)
LEMMA PlainParsed ==
  ASSUME NEW b \in Seq(Byte), NEW i \in 1 .. Len(b), i + 5 <= Len(b), PlainAt(b, i)
  PROVE  NextOf(b, i) = i + 6 /\ HeaderOf(b, i) = Requests!Plain
<1> DEFINE c == i + 1
<1>1. /\ b[c] = "col" /\ b[c + 1] = "sp" /\ b[c + 2] = "t" /\ b[c + 3] = "cr" /\ b[c + 4] = "lf"
      /\ b[i] = "t" /\ c \in i .. Len(b) /\ c + 4 <= Len(b) /\ c - 1 = i /\ c + 5 = i + 6
      /\ \A j \in i .. c - 1 : b[j] # "col"
  BY DEF PlainAt
<1> HIDE DEF c
<1>2. NextOf(b, i) = c + 5 /\ HeaderOf(b, i) = [key |-> SubSeq(b, i, c - 1), value |-> <<"t">>]
  BY <1>1, HeaderParsed
<1>3. SubSeq(b, i, i) = <<"t">>
  BY <1>1, OneByte
<1>4. QED
  BY <1>1, <1>2, <1>3 DEF Requests!Plain

(* The URL, and where the headers begin.                                   *)
LEMMA StartParsed ==
  ASSUME NEW b \in Seq(Byte), Len(b) >= 8, NEW url, StartAt(b, url), url \notin {"sp"}
  PROVE  LET first == Requests!ReadField(b, 1, "sp")
             version == Requests!ReadField(b, first, "sp")
         IN  /\ SubSeq(b, first, Requests!FieldEnd(b, first, "sp") - 1) = <<url>>
             /\ Requests!Min({Requests!ReadLastField(b, version), Len(b) + 1}) = 8
<1>0. Len(b) \in Nat
  OBVIOUS
<1>1. /\ b[1] = "t" /\ b[2] = "sp" /\ b[3] = url /\ b[4] = "sp" /\ b[5] = "t"
      /\ b[6] = "cr" /\ b[7] = "lf"
  BY DEF StartAt
<1>2. Requests!FieldEnd(b, 1, "sp") = 2
  <2>1. /\ b[2] \in {"sp"} /\ (\A j \in 1 .. 2 - 1 : b[j] \notin {"sp"})
        /\ 2 \in 1 .. Len(b) /\ 1 \in Nat \ {0}
    BY <1>0, <1>1
  <2>2. QED
    BY <2>1, SeekIs DEF Requests!FieldEnd
<1>3. Requests!ReadField(b, 1, "sp") = 3
  <2>1. b[3] # "sp" /\ 3 \in 1 .. Len(b) /\ 2 + 1 = 3
    BY <1>0, <1>1
  <2>2. QED
    BY <1>2, <2>1, SkipNone DEF Requests!ReadField
<1>4. Requests!FieldEnd(b, 3, "sp") = 4
  <2>1. /\ b[4] \in {"sp"} /\ (\A j \in 3 .. 4 - 1 : b[j] \notin {"sp"})
        /\ 4 \in 3 .. Len(b) /\ 3 \in Nat \ {0}
    BY <1>0, <1>1
  <2>2. QED
    BY <2>1, SeekIs DEF Requests!FieldEnd
<1>5. Requests!ReadField(b, 3, "sp") = 5
  <2>1. b[5] # "sp" /\ 5 \in 1 .. Len(b) /\ 4 + 1 = 5
    BY <1>0, <1>1
  <2>2. QED
    BY <1>4, <2>1, SkipNone DEF Requests!ReadField
<1>6. Requests!LastEnd(b, 5) = 6
  <2>1. /\ b[6] \in {"cr", "sp"} /\ (\A j \in 5 .. 6 - 1 : b[j] \notin {"cr", "sp"})
        /\ 6 \in 5 .. Len(b) /\ 5 \in Nat \ {0}
    BY <1>0, <1>1
  <2>2. QED
    BY <2>1, SeekIs DEF Requests!LastEnd
<1>7. Requests!ReadLastField(b, 5) = 8
  <2>1. b[7] # "sp" /\ 7 \in 1 .. Len(b) /\ 6 + 1 = 7
    BY <1>0, <1>1
  <2>2. Requests!Skip(b, 7, "sp") = 7
    BY <2>1, SkipNone
  <2>3. QED
    BY <1>1, <1>6, <2>1, <2>2 DEF Requests!ReadLastField
<1>8. Requests!Min({8, Len(b) + 1}) = 8
  <2>1. {8, Len(b) + 1} \in SUBSET Int /\ \A y \in {8, Len(b) + 1} : 8 <= y
    BY <1>0
  <2>2. QED
    BY <2>1, LeastIs
<1>9. SubSeq(b, 3, 4 - 1) = <<url>>
  <2>1. 3 \in 1 .. Len(b) /\ 4 - 1 = 3
    BY <1>0
  <2>2. QED
    BY <1>1, <2>1, OneByte
<1>10. QED
  BY <1>3, <1>4, <1>5, <1>7, <1>8, <1>9

(* The headers of a request that ends with the zero at n.                  *)
LEMMA HeadersParsed ==
  ASSUME NEW b \in Seq(Byte), NEW n \in 1 .. Len(b), NEW hs, HeadersTo(b, hs, n - 1), n > 1,
         b[n - 1] = "cr", b[n] = "nul"
  PROVE  LET fields == Requests!Headers(b)[8]
         IN  /\ Len(b) >= 8
             /\ hs # <<Requests!Words>> => fields.ptr = n - 1
             /\ hs \in {<<>>, <<Requests!Plain>>} => fields.headers = hs
             /\ hs = <<Requests!Words>> => fields.ptr \in n + 1 .. Len(b) + 1
<1> DEFINE from == Requests!Headers(b)
<1>0. Len(b) \in Nat /\ n - 1 \in 1 .. Len(b) + 1
  OBVIOUS
<1>1. from[n - 1].headers = <<>> /\ from[n - 1].ptr = n - 1
  BY <1>0, HeadersEnd
<1>2. ASSUME NEW h, h = Requests!Words \/ h = Requests!Plain
      PROVE  <<h>> # <<>> /\ <<h>> \o <<>> = <<h>>
  OBVIOUS
<1>3. Requests!Words # Requests!Plain
  <2>1. Requests!Words.value # Requests!Plain.value
    BY DEF Requests!Words, Requests!Plain
  <2>2. QED
    BY <2>1
<1> HIDE DEF from
<1>4. CASE hs = <<>> /\ n - 1 = 8
  <2>1. <<>> # <<Requests!Words>>
    OBVIOUS
  <2>2. QED
    BY <1>0, <1>1, <1>4, <2>1 DEF from
<1>5. CASE hs = <<Requests!Plain>> /\ n - 1 = 14 /\ PlainAt(b, 8)
  <2>1. NextOf(b, 8) = 14 /\ HeaderOf(b, 8) = Requests!Plain
    <3>1. 8 \in 1 .. Len(b) /\ 8 + 5 <= Len(b) /\ 8 + 6 = 14
      BY <1>0, <1>5
    <3>2. QED
      BY <1>5, <3>1, PlainParsed
  <2>2. from[8].headers = <<Requests!Plain>> \o from[14].headers /\ from[8].ptr = from[14].ptr
    <3>1. 8 \in 1 .. Len(b) /\ b[8] # "cr"
      BY <1>0, <1>5 DEF PlainAt
    <3>2. QED
      BY <2>1, <3>1, HeadersGoOn DEF from
  <2>3. from[8].headers = <<Requests!Plain>> /\ from[8].ptr = n - 1
    BY <1>1, <1>2, <1>5, <2>2
  <2>4. <<Requests!Plain>> # <<Requests!Words>>
    BY <1>3
  <2>5. QED
    BY <1>0, <1>5, <2>3, <2>4 DEF from
<1>6. CASE hs = <<Requests!Words>> /\ n - 1 = 17 /\ WordsAt(b, 8)
  <2>1. /\ b[8] = "t" /\ b[14] = "t" /\ b[15] = "cr" /\ b[16] = "lf" /\ b[17] = "cr"
        /\ b[18] = "nul" /\ n = 18 /\ Len(b) >= 18
    BY <1>0, <1>6 DEF WordsAt
  <2>2. NextOf(b, 8) = 14
    <3>1. 8 \in 1 .. Len(b) /\ 8 + 8 <= Len(b) /\ 8 + 6 = 14
      BY <1>0, <2>1
    <3>2. QED
      BY <1>6, <3>1, WordsParsed
  <2>3. from[8].ptr = from[14].ptr
    <3>1. 8 \in 1 .. Len(b) /\ b[8] # "cr"
      BY <1>0, <2>1
    <3>2. QED
      BY <2>2, <3>1, HeadersGoOn DEF from
  <2> DEFINE m == NextOf(b, 14)
             k == Requests!FieldEnd(b, 14, "col")
  <2>4. 14 \in 1 .. Len(b) /\ 14 \in Nat \ {0} /\ b[14] # "cr"
    BY <1>0, <2>1
  <2>5. from[14].ptr = from[m].ptr
    BY <2>4, HeadersGoOn DEF from
  <2>6. m \in 15 .. Len(b) + 1 /\ (m = Len(b) + 1 \/ m >= k + 2)
    <3>1. 14 + 1 = 15
      OBVIOUS
    <3>2. QED
      BY <2>4, <3>1, NextIsLater
  <2>7. k >= 19 /\ k \in Nat
    <3>1. /\ k \in Nat /\ (k >= 14 \/ k = Len(b) + 1)
          /\ k <= Len(b) => b[k] \in {"col"}
      BY <2>4, SeekFacts DEF Requests!FieldEnd
    <3> HIDE DEF k
    <3>2. k # 14 /\ k # 15 /\ k # 16 /\ k # 17 /\ k # 18
      BY <2>1, <3>1
    <3>3. QED
      BY <1>0, <2>1, <3>1, <3>2
  <2>8. m \in 19 .. Len(b) + 1
    <3> HIDE DEF m, k
    <3>1. QED
      BY <1>0, <2>1, <2>6, <2>7
  <2>9. from[m].ptr \in m .. Len(b) + 1
    <3>1. m \in 1 .. Len(b) + 1
      BY <2>8
    <3>2. QED
      BY <3>1, HeadersAreRecords DEF from
  <2> HIDE DEF m
  <2>10. from[8].ptr \in n + 1 .. Len(b) + 1
    BY <1>0, <2>1, <2>3, <2>5, <2>8, <2>9
  <2>11. <<Requests!Words>> # <<>> /\ <<Requests!Words>> # <<Requests!Plain>>
    BY <1>3
  <2>12. QED
    BY <1>0, <1>6, <2>1, <2>10, <2>11 DEF from
<1>7. CASE /\ hs = <<Requests!Words, Requests!Plain>> /\ n - 1 = 23
           /\ WordsAt(b, 8) /\ PlainAt(b, 17)
  <2>1. /\ b[8] = "t" /\ b[14] = "t" /\ b[15] = "cr" /\ b[16] = "lf" /\ b[17] = "t"
        /\ b[18] = "col" /\ b[19] = "sp" /\ b[20] = "t" /\ b[21] = "cr" /\ b[22] = "lf"
        /\ n = 24 /\ Len(b) >= 24
    BY <1>0, <1>7 DEF WordsAt, PlainAt
  <2>2. NextOf(b, 8) = 14
    <3>1. 8 \in 1 .. Len(b) /\ 8 + 8 <= Len(b) /\ 8 + 6 = 14
      BY <1>0, <2>1
    <3>2. QED
      BY <1>7, <3>1, WordsParsed
  <2>3. NextOf(b, 14) = 23
    <3> DEFINE c == 18
    <3>1. /\ c \in 14 .. Len(b) /\ 14 \in 1 .. Len(b) /\ c + 4 <= Len(b) /\ b[c] = "col"
          /\ b[c + 1] = "sp" /\ b[c + 2] = "t" /\ b[c + 3] = "cr" /\ b[c + 4] = "lf" /\ c + 5 = 23
          /\ \A j \in 14 .. c - 1 : b[j] # "col"
      <4>1. \A j \in 14 .. 18 - 1 : j = 14 \/ j = 15 \/ j = 16 \/ j = 17
        OBVIOUS
      <4>2. \A j \in 14 .. 18 - 1 : b[j] # "col"
        BY <2>1, <4>1
      <4>3. QED
        BY <1>0, <2>1, <4>2
    <3> HIDE DEF c
    <3>2. NextOf(b, 14) = c + 5
      BY <3>1, HeaderParsed
    <3>3. QED
      BY <3>1, <3>2
  <2>4. 8 \in 1 .. Len(b) /\ b[8] # "cr" /\ 14 \in 1 .. Len(b) /\ b[14] # "cr"
    BY <1>0, <2>1
  <2>5. from[8].ptr = from[14].ptr /\ from[14].ptr = from[23].ptr
    BY <2>2, <2>3, <2>4, HeadersGoOn DEF from
  <2>6. hs # <<Requests!Words>> /\ hs # <<>> /\ hs # <<Requests!Plain>>
    <3>1. /\ Len(hs) # Len(<<>>) /\ Len(hs) # Len(<<Requests!Words>>)
          /\ Len(hs) # Len(<<Requests!Plain>>)
      BY <1>7
    <3>2. QED
      BY <3>1, Zenon
  <2>7. QED
    BY <1>0, <1>1, <1>7, <2>1, <2>5, <2>6 DEF from
<1>8. QED
  BY <1>4, <1>5, <1>6, <1>7 DEF HeadersTo

(* What the parser makes of a request that ends with the zero at n.        *)
LEMMA RequestParsed ==
  ASSUME NEW b \in Seq(Byte), NEW r \in Requests!Message("HTTP"), NEW n \in 1 .. Len(b),
         RequestAt(b, r, n, "nul"), \A j \in 1 .. Len(b) : b[j] = "nul" => j = n
  PROVE  LET parsed == Requests!Parsed(b)
         IN  /\ parsed.url = <<r.url>>
             /\ r.headers # <<Requests!Words>> => parsed.end = n
             /\ r.headers \in {<<>>, <<Requests!Plain>>} => parsed.headers = r.headers
             /\ r.headers = <<Requests!Words>> => parsed.end > Len(b)
<1> DEFINE fields == Requests!Headers(b)[8]
<1>0. Len(b) \in Nat
  OBVIOUS
<1>1. /\ Len(b) >= 8
      /\ r.headers # <<Requests!Words>> => fields.ptr = n - 1
      /\ r.headers \in {<<>>, <<Requests!Plain>>} => fields.headers = r.headers
      /\ r.headers = <<Requests!Words>> => fields.ptr \in n + 1 .. Len(b) + 1
  BY HeadersParsed DEF RequestAt
<1>2. n > 1 /\ b[n] = "nul" /\ b[n - 1] = "cr" /\ StartAt(b, r.url)
  BY DEF RequestAt
<1>3. r.url \notin {"sp"}
  BY TextOfRequest DEF Requests!Url
<1>4. /\ Requests!Parsed(b).url = <<r.url>>
      /\ Requests!Parsed(b).headers = fields.headers
      /\ Requests!Parsed(b).end = Requests!EndOfRequest(b, fields.ptr)
  BY <1>1, <1>2, <1>3, StartParsed DEF Requests!Parsed
<1> HIDE DEF fields
<1>5. ASSUME r.headers # <<Requests!Words>> PROVE Requests!Parsed(b).end = n
  <2>1. /\ n - 1 \in Nat \ {0} /\ n \in n - 1 .. Len(b) /\ b[n] \in {"nul"}
        /\ \A j \in n - 1 .. n - 1 : b[j] \notin {"nul"}
    BY <1>0, <1>2
  <2>2. Requests!Seek(b, n - 1, {"nul"}) = n
    BY <2>1, SeekIs
  <2>3. QED
    BY <1>1, <1>4, <1>5, <2>2 DEF Requests!EndOfRequest
<1>6. ASSUME r.headers = <<Requests!Words>> PROVE Requests!Parsed(b).end > Len(b)
  <2> DEFINE k == Requests!Seek(b, fields.ptr, {"nul"})
  <2>1. fields.ptr \in n + 1 .. Len(b) + 1 /\ fields.ptr \in Nat \ {0}
    BY <1>0, <1>1, <1>6
  <2>2. /\ k \in Nat /\ (k >= fields.ptr \/ k = Len(b) + 1)
        /\ k <= Len(b) => b[k] \in {"nul"}
    BY <2>1, SeekFacts
  <2> HIDE DEF k
  <2>3. k > Len(b)
    BY <1>0, <2>1, <2>2
  <2>4. QED
    BY <1>4, <2>3 DEF Requests!EndOfRequest, k
<1>7. QED
  BY <1>1, <1>4, <1>5, <1>6

-----------------------------------------------------------------------------
(* A buffer with the same symbols, but for the last one, is the same       *)
(* request.                                                                *)
LEMMA SameRequest ==
  ASSUME NEW b, NEW c, NEW r, NEW n \in Nat, NEW x, NEW y, RequestAt(b, r, n, x),
         \A i \in 1 .. n - 1 : c[i] = b[i], c[n] = y
  PROVE  RequestAt(c, r, n, y)
<1>1. n >= 9 /\ StartAt(b, r.url) /\ HeadersTo(b, r.headers, n - 1) /\ b[n - 1] = "cr"
  BY DEF RequestAt, HeadersTo
<1>2. StartAt(c, r.url)
  BY <1>1 DEF StartAt
<1>3. HeadersTo(c, r.headers, n - 1)
  <2>1. CASE r.headers = <<>> /\ n - 1 = 8
    BY <2>1 DEF HeadersTo
  <2>2. CASE r.headers = <<Requests!Plain>> /\ n - 1 = 14 /\ PlainAt(b, 8)
    <3>1. PlainAt(c, 8)
      BY <2>2 DEF PlainAt
    <3>2. QED
      BY <2>2, <3>1 DEF HeadersTo
  <2>3. CASE r.headers = <<Requests!Words>> /\ n - 1 = 17 /\ WordsAt(b, 8)
    <3>1. WordsAt(c, 8)
      BY <2>3 DEF WordsAt
    <3>2. QED
      BY <2>3, <3>1 DEF HeadersTo
  <2>4. CASE /\ r.headers = <<Requests!Words, Requests!Plain>> /\ n - 1 = 23
             /\ WordsAt(b, 8) /\ PlainAt(b, 17)
    <3>1. WordsAt(c, 8)
      BY <2>4 DEF WordsAt
    <3>2. PlainAt(c, 17)
      BY <2>4 DEF PlainAt
    <3>3. QED
      BY <2>4, <3>1, <3>2 DEF HeadersTo
  <2>5. QED
    BY <1>1, <2>1, <2>2, <2>3, <2>4 DEF HeadersTo
<1>4. c[n - 1] = "cr"
  BY <1>1
<1>5. QED
  BY <1>1, <1>2, <1>3, <1>4 DEF RequestAt

(* The first blank line of a request is its end.                           *)
LEMMA BlankIsLast ==
  ASSUME NEW t \in Seq(Symbol), NEW r \in Requests!Message("HTTP"), NEW n \in 1 .. Len(t),
         RequestAt(t, r, n, "lf")
  PROVE  /\ n >= 9 /\ t[n - 3] = "cr" /\ t[n - 2] = "lf" /\ t[n - 1] = "cr" /\ t[n] = "lf"
         /\ \A i \in 1 .. n - 4 : t[i] # "cr" \/ t[i + 2] # "cr"
<1>0. /\ n > 1 /\ HeadersTo(t, r.headers, n - 1) /\ t[n - 1] = "cr" /\ t[n] = "lf"
      /\ t[1] = "t" /\ t[2] = "sp" /\ t[3] # "cr" /\ t[4] = "sp" /\ t[5] = "t"
      /\ t[6] = "cr" /\ t[7] = "lf"
  <2>1. r.url # "cr"
    BY TextOfRequest DEF Requests!Url
  <2>2. QED
    BY <2>1 DEF RequestAt, StartAt
<1>1. CASE n - 1 = 8
  <2>1. n = 9
    BY <1>0, <1>1
  <2>2. \A i \in 1 .. 5 : i = 1 \/ i = 2 \/ i = 3 \/ i = 4 \/ i = 5
    OBVIOUS
  <2>3. \A i \in 1 .. 5 : t[i] # "cr"
    BY <1>0, <2>2
  <2>4. QED
    BY <1>0, <2>1, <2>3
<1>2. CASE n - 1 = 14 /\ PlainAt(t, 8)
  <2>1. /\ n = 15 /\ t[8] = "t" /\ t[9] = "col" /\ t[10] = "sp" /\ t[11] = "t"
        /\ t[12] = "cr" /\ t[13] = "lf"
    BY <1>0, <1>2 DEF PlainAt
  <2>2. \A i \in 1 .. 11 : i = 6 \/ i \in 1 .. 5 \/ i \in 7 .. 11
    OBVIOUS
  <2>3. \A i \in 1 .. 5 : t[i] # "cr"
    BY <1>0
  <2>4. \A i \in 7 .. 11 : t[i] # "cr"
    BY <1>0, <2>1
  <2>5. \A i \in 1 .. 11 : t[i] # "cr" \/ t[i + 2] # "cr"
    BY <2>1, <2>2, <2>3, <2>4
  <2>6. QED
    BY <1>0, <2>1, <2>5
<1>3. CASE n - 1 = 17 /\ WordsAt(t, 8)
  <2>1. /\ n = 18 /\ t[8] = "t" /\ t[9] = "col" /\ t[10] = "sp" /\ t[11] = "t"
        /\ t[12] = "sp" /\ t[13] = "t" /\ t[14] = "t" /\ t[15] = "cr" /\ t[16] = "lf"
    BY <1>0, <1>3 DEF WordsAt
  <2>2. \A i \in 1 .. 14 : i = 6 \/ i \in 1 .. 5 \/ i \in 7 .. 14
    OBVIOUS
  <2>3. \A i \in 1 .. 5 : t[i] # "cr"
    BY <1>0
  <2>4. \A i \in 7 .. 14 : t[i] # "cr"
    <3>1. \A i \in 7 .. 14 : \/ i = 7 \/ i = 8 \/ i = 9 \/ i = 10
                             \/ i = 11 \/ i = 12 \/ i = 13 \/ i = 14
      OBVIOUS
    <3>2. /\ t[7] # "cr" /\ t[8] # "cr" /\ t[9] # "cr" /\ t[10] # "cr"
          /\ t[11] # "cr" /\ t[12] # "cr" /\ t[13] # "cr" /\ t[14] # "cr"
      BY <1>0, <2>1
    <3>3. QED
      BY <3>1, <3>2
  <2>5. \A i \in 1 .. 14 : t[i] # "cr" \/ t[i + 2] # "cr"
    BY <2>1, <2>2, <2>3, <2>4
  <2>6. QED
    BY <1>0, <2>1, <2>5
<1>4. CASE n - 1 = 23 /\ WordsAt(t, 8) /\ PlainAt(t, 17)
  <2>1. /\ n = 24 /\ t[8] = "t" /\ t[9] = "col" /\ t[10] = "sp" /\ t[11] = "t"
        /\ t[12] = "sp" /\ t[13] = "t" /\ t[14] = "t" /\ t[15] = "cr" /\ t[16] = "lf"
        /\ t[17] = "t" /\ t[18] = "col" /\ t[19] = "sp" /\ t[20] = "t"
        /\ t[21] = "cr" /\ t[22] = "lf"
    BY <1>0, <1>4 DEF WordsAt, PlainAt
  <2>2. \A i \in 1 .. 20 : i = 6 \/ i = 15 \/ i \in 1 .. 5 \/ i \in 7 .. 14 \/ i \in 16 .. 20
    OBVIOUS
  <2>3. \A i \in 1 .. 5 : t[i] # "cr"
    BY <1>0
  <2>4. \A i \in 7 .. 14 : t[i] # "cr"
    <3>1. \A i \in 7 .. 14 : \/ i = 7 \/ i = 8 \/ i = 9 \/ i = 10
                             \/ i = 11 \/ i = 12 \/ i = 13 \/ i = 14
      OBVIOUS
    <3>2. /\ t[7] # "cr" /\ t[8] # "cr" /\ t[9] # "cr" /\ t[10] # "cr"
          /\ t[11] # "cr" /\ t[12] # "cr" /\ t[13] # "cr" /\ t[14] # "cr"
      BY <1>0, <2>1
    <3>3. QED
      BY <3>1, <3>2
  <2>5. \A i \in 16 .. 20 : t[i] # "cr"
    <3>1. \A i \in 16 .. 20 : i = 16 \/ i = 17 \/ i = 18 \/ i = 19 \/ i = 20
      OBVIOUS
    <3>2. t[16] # "cr" /\ t[17] # "cr" /\ t[18] # "cr" /\ t[19] # "cr" /\ t[20] # "cr"
      BY <2>1
    <3>3. QED
      BY <3>1, <3>2
  <2>6. t[6 + 2] # "cr" /\ t[15 + 2] # "cr"
    BY <2>1
  <2>7. \A i \in 1 .. 20 : t[i] # "cr" \/ t[i + 2] # "cr"
    BY <2>2, <2>3, <2>4, <2>5, <2>6
  <2>8. QED
    BY <1>0, <2>1, <2>7
<1>5. QED
  BY <1>0, <1>1, <1>2, <1>3, <1>4 DEF HeadersTo

(* The blank line that findStr looks for.                                  *)
LEMMA BlankAt ==
  ASSUME NEW b \in Seq(Symbol), NEW i \in 1 .. Len(b) - 3
  PROVE  SubSeq(b, i, i + 3) = Requests!Blank
           <=> b[i] = "cr" /\ b[i + 1] = "lf" /\ b[i + 2] = "cr" /\ b[i + 3] = "lf"
<1> DEFINE s == SubSeq(b, i, i + 3)
<1>1. /\ s \in Seq(Symbol) /\ Len(s) = 4
      /\ s[1] = b[i] /\ s[2] = b[i + 1] /\ s[3] = b[i + 2] /\ s[4] = b[i + 3]
  <2>1. i \in Int /\ i + 3 \in Int /\ \A j \in i .. i + 3 : b[j] \in Symbol
    OBVIOUS
  <2>2. /\ s \in Seq(Symbol) /\ Len(s) = IF i <= i + 3 THEN (i + 3) - i + 1 ELSE 0
        /\ \A j \in 1 .. (i + 3) - i + 1 : s[j] = b[i + j - 1]
    BY <2>1, SubSeqProperties
  <2> HIDE DEF s
  <2>3. /\ (i + 3) - i + 1 = 4 /\ i + 1 - 1 = i /\ i + 2 - 1 = i + 1
        /\ i + 3 - 1 = i + 2 /\ i + 4 - 1 = i + 3
    BY <2>1
  <2>4. QED
    BY <2>1, <2>2, <2>3
<1>2. /\ Requests!Blank \in Seq(Symbol) /\ Len(Requests!Blank) = 4
      /\ Requests!Blank[1] = "cr" /\ Requests!Blank[2] = "lf"
      /\ Requests!Blank[3] = "cr" /\ Requests!Blank[4] = "lf"
  BY DEF Requests!Blank, Symbol
<1> HIDE DEF s
<1>3. ASSUME b[i] = "cr", b[i + 1] = "lf", b[i + 2] = "cr", b[i + 3] = "lf"
      PROVE  s = Requests!Blank
  <2>1. \A j \in 1 .. 4 : j = 1 \/ j = 2 \/ j = 3 \/ j = 4
    OBVIOUS
  <2>2. \A j \in 1 .. 4 : s[j] = Requests!Blank[j]
    BY <1>1, <1>2, <1>3, <2>1
  <2>3. QED
    BY <1>1, <1>2, <2>2, SeqEqual
<1>4. QED
  BY <1>1, <1>2, <1>3 DEF s

LEMMA FindFacts ==
  ASSUME NEW b \in Seq(Symbol)
  PROVE  LET found == {i \in 1 .. Len(b) - 3 : b[i] = "cr" /\ b[i + 1] = "lf"
                                               /\ b[i + 2] = "cr" /\ b[i + 3] = "lf"}
         IN  Requests!FindStr(b, Requests!Blank)
               = IF found = {} THEN 0 ELSE Requests!Min(found)
<1> DEFINE found == {i \in 1 .. Len(b) - 3 : b[i] = "cr" /\ b[i + 1] = "lf"
                                             /\ b[i + 2] = "cr" /\ b[i + 3] = "lf"}
           there == {i \in 1 .. Len(b) - Len(Requests!Blank) + 1 :
                       SubSeq(b, i, i + Len(Requests!Blank) - 1) = Requests!Blank}
<1>1. Len(Requests!Blank) = 4 /\ Len(b) \in Nat /\ Len(b) - 4 + 1 = Len(b) - 3
  BY DEF Requests!Blank
<1>2. \A i \in Int : i + 4 - 1 = i + 3
  OBVIOUS
<1>3. there = {i \in 1 .. Len(b) - 3 : SubSeq(b, i, i + 3) = Requests!Blank}
  BY <1>1, <1>2
<1>4. there = found
  BY <1>3, BlankAt
<1>5. Requests!FindStr(b, Requests!Blank) = IF there = {} THEN 0 ELSE Requests!Min(there)
  BY DEF Requests!FindStr
<1>6. QED
  BY <1>4, <1>5

(* It is found at the end of the first request, once that is there ...     *)
LEMMA FoundAtEnd ==
  ASSUME NEW b \in Seq(Symbol), NEW r \in Requests!Message("HTTP"), NEW n \in 1 .. Len(b),
         RequestAt(b, r, n, "lf")
  PROVE  Requests!FindStr(b, Requests!Blank) = n - 3 /\ n - 3 > 0
<1> DEFINE found == {i \in 1 .. Len(b) - 3 : b[i] = "cr" /\ b[i + 1] = "lf"
                                             /\ b[i + 2] = "cr" /\ b[i + 3] = "lf"}
<1>0. Len(b) \in Nat
  OBVIOUS
<1>1. /\ n >= 9 /\ b[n - 3] = "cr" /\ b[n - 2] = "lf" /\ b[n - 1] = "cr" /\ b[n] = "lf"
      /\ \A i \in 1 .. n - 4 : b[i] # "cr" \/ b[i + 2] # "cr"
  BY BlankIsLast
<1>2. n - 3 \in 1 .. Len(b) - 3 /\ (n - 3) + 1 = n - 2 /\ (n - 3) + 2 = n - 1 /\ (n - 3) + 3 = n
  BY <1>0, <1>1
<1>3. n - 3 \in found
  BY <1>1, <1>2
<1>4. \A i \in found : n - 3 <= i /\ i \in Int
  BY <1>0, <1>1
<1>5. Requests!FindStr(b, Requests!Blank) = IF found = {} THEN 0 ELSE Requests!Min(found)
  BY FindFacts
<1> HIDE DEF found
<1>6. Requests!Min(found) = n - 3
  BY <1>3, <1>4, LeastIs
<1>7. QED
  BY <1>1, <1>3, <1>5, <1>6

(* ... and not found before.                                               *)
LEMMA NotFoundBefore ==
  ASSUME NEW b \in Seq(Symbol), NEW t \in Seq(Symbol), NEW r \in Requests!Message("HTTP"),
         RequestAt(t, r, Len(t), "lf"), Len(b) < Len(t), \A i \in 1 .. Len(b) : b[i] = t[i]
  PROVE  Requests!FindStr(b, Requests!Blank) = 0
<1> DEFINE found == {i \in 1 .. Len(b) - 3 : b[i] = "cr" /\ b[i + 1] = "lf"
                                             /\ b[i + 2] = "cr" /\ b[i + 3] = "lf"}
<1>0. Len(b) \in Nat /\ Len(t) \in Nat /\ Len(t) \in 1 .. Len(t)
  OBVIOUS
<1>1. \A i \in 1 .. Len(t) - 4 : t[i] # "cr" \/ t[i + 2] # "cr"
  BY <1>0, BlankIsLast
<1>2. ASSUME NEW i \in 1 .. Len(b) - 3 PROVE b[i] # "cr" \/ b[i + 2] # "cr"
  <2>1. i \in 1 .. Len(b) /\ i + 2 \in 1 .. Len(b) /\ i \in 1 .. Len(t) - 4
    BY <1>0
  <2>2. QED
    BY <1>1, <2>1
<1>3. found = {}
  BY <1>2
<1>4. Requests!FindStr(b, Requests!Blank) = IF found = {} THEN 0 ELSE Requests!Min(found)
  BY FindFacts
<1>5. QED
  BY <1>3, <1>4

(* The zero that the callback writes behind the request.                   *)
LEMMA ZeroWritten ==
  ASSUME NEW b \in Seq(Symbol), NEW r \in Requests!Message("HTTP"), NEW n \in 1 .. Len(b),
         RequestAt(b, r, n, "lf")
  PROVE  LET c == Requests!Checked("HTTP", b)
         IN  /\ c \in Seq(Byte) /\ Len(c) = Len(b) /\ RequestAt(c, r, n, "nul")
             /\ \A i \in 1 .. Len(c) : c[i] = "nul" => i = n
             /\ \A i \in 1 .. Len(b) : i # n => c[i] = b[i]
<1> DEFINE c == Requests!Checked("HTTP", b)
<1>1. Requests!FindStr(b, Requests!Blank) + 3 = n
  <2>1. Requests!FindStr(b, Requests!Blank) = n - 3 /\ n \in Int
    BY FoundAtEnd
  <2>2. QED
    BY <2>1
<1>2. c = [b EXCEPT ![n] = "nul"]
  BY <1>1 DEF Requests!Checked
<1>3. b \in Seq(Byte) /\ "nul" \in Byte /\ \A i \in 1 .. Len(b) : b[i] # "nul"
  <2>1. \A i \in 1 .. Len(b) : b[i] \in Symbol
    OBVIOUS
  <2>2. "nul" \notin Symbol
    BY DEF Symbol
  <2>3. b \in Seq(Byte)
    BY <2>1 DEF Byte
  <2>4. QED
    BY <2>1, <2>2, <2>3 DEF Byte
<1>4. /\ c \in Seq(Byte) /\ Len(c) = Len(b)
      /\ \A i \in 1 .. Len(b) : c[i] = IF i = n THEN "nul" ELSE b[i]
  BY <1>2, <1>3, ExceptSeq
<1> HIDE DEF c
<1>5. /\ \A i \in 1 .. Len(c) : c[i] = "nul" => i = n
      /\ \A i \in 1 .. Len(b) : i # n => c[i] = b[i]
      /\ c[n] = "nul"
  BY <1>3, <1>4
<1>6. \A i \in 1 .. n - 1 : c[i] = b[i]
  <2>1. \A i \in 1 .. n - 1 : i \in 1 .. Len(b) /\ i # n
    OBVIOUS
  <2>2. QED
    BY <1>5, <2>1
<1>7. RequestAt(c, r, n, "nul")
  <2>1. n \in Nat
    OBVIOUS
  <2>2. QED
    BY <1>5, <1>6, <2>1, SameRequest
<1>8. QED
  BY <1>4, <1>5, <1>7 DEF c

-----------------------------------------------------------------------------
(* What is still to be handled, one message after another.                 *)
Left(m, rs, h) == Requests!TextOf(m, SubSeq(rs, h + 1, Len(rs)))

(* No message is empty.                                                    *)
LEMMA TextIsText ==
  ASSUME NEW m \in {"HTTP", "FIXED", "LENGTH"}, NEW r \in Requests!Message(m)
  PROVE  Requests!Text(m, r) \in Seq(Symbol) /\ Len(Requests!Text(m, r)) > 0
<1>1. CASE m = "HTTP"
  <2>1. RequestAt(Requests!Text("HTTP", r), r, Len(Requests!Text("HTTP", r)), "lf")
    BY <1>1, TextOfRequest
  <2>2. Len(Requests!Text("HTTP", r)) > 1
    BY <2>1 DEF RequestAt
  <2>3. Len(Requests!Text("HTTP", r)) \in Nat
    BY <1>1, TextOfRequest
  <2>4. QED
    BY <1>1, <2>2, <2>3, TextOfRequest
<1>2. CASE m = "FIXED"
  BY <1>2, TextOfFixed
<1>3. CASE m = "LENGTH"
  <2>1. /\ Requests!Text("LENGTH", r) \in Seq(Symbol)
        /\ r.length \in 0 .. 2 /\ Len(Requests!Text("LENGTH", r)) = r.length + 1
    BY <1>3, TextOfLength
  <2>2. QED
    BY <1>3, <2>1
<1>4. QED
  BY <1>1, <1>2, <1>3

(* What is left is the text of the next message and what is left then.     *)
LEMMA LeftIs ==
  ASSUME NEW m \in {"HTTP", "FIXED", "LENGTH"}, NEW M, M = Requests!Message(m),
         NEW rs \in Seq(M), NEW h \in 0 .. Len(rs)
  PROVE  /\ Left(m, rs, h) \in Seq(Symbol)
         /\ h = Len(rs) => Left(m, rs, h) = <<>>
         /\ h < Len(rs) => /\ rs[h + 1] \in M
                           /\ Left(m, rs, h) = Requests!Text(m, rs[h + 1]) \o Left(m, rs, h + 1)
<1> DEFINE texts(k) == [i \in DOMAIN SubSeq(rs, k + 1, Len(rs)) |->
                          Requests!Text(m, SubSeq(rs, k + 1, Len(rs))[i])]
<1>0. Len(rs) \in Nat /\ \A i \in 1 .. Len(rs) : rs[i] \in M
  OBVIOUS
<1>1. ASSUME NEW k \in 0 .. Len(rs)
      PROVE  /\ texts(k) \in Seq(Seq(Symbol)) /\ Len(texts(k)) = Len(rs) - k
             /\ \A i \in 1 .. Len(rs) - k : texts(k)[i] = Requests!Text(m, rs[k + i])
  <2> DEFINE rest == SubSeq(rs, k + 1, Len(rs))
  <2>1. /\ rest \in Seq(M) /\ Len(rest) = Len(rs) - k
        /\ \A i \in 1 .. Len(rs) - k : rest[i] = rs[k + i]
    <3> DEFINE p == k + 1
               l == Len(rs)
    <3>1. p \in Int /\ l \in Int /\ \A i \in p .. l : rs[i] \in M
      BY <1>0
    <3>2. rest = SubSeq(rs, p, l)
      OBVIOUS
    <3>3. /\ p <= l => l - p + 1 = Len(rs) - k
          /\ ~ (p <= l) => 0 = Len(rs) - k
          /\ l - p + 1 = Len(rs) - k /\ \A i \in Int : p + i - 1 = k + i
      BY <1>0
    <3> HIDE DEF rest, p, l
    <3>4. /\ rest \in Seq(M) /\ Len(rest) = IF p <= l THEN l - p + 1 ELSE 0
          /\ \A i \in 1 .. l - p + 1 : rest[i] = rs[p + i - 1]
      BY <3>1, <3>2, SubSeqProperties
    <3>5. Len(rest) = Len(rs) - k
      BY <3>3, <3>4
    <3>6. \A i \in 1 .. Len(rs) - k : rest[i] = rs[k + i]
      BY <3>3, <3>4
    <3>7. QED
      BY <3>4, <3>5, <3>6
  <2> HIDE DEF rest
  <2> DEFINE ts == [i \in DOMAIN rest |-> Requests!Text(m, rest[i])]
  <2>2. DOMAIN rest = 1 .. Len(rs) - k /\ Len(rs) - k \in Nat
    BY <1>0, <2>1
  <2>3. \A i \in 1 .. Len(rs) - k : Requests!Text(m, rest[i]) \in Seq(Symbol)
    BY <2>1, <2>2, TextIsText
  <2>4. ts \in Seq(Seq(Symbol)) /\ Len(ts) = Len(rs) - k
    BY <2>2, <2>3
  <2>5. \A i \in 1 .. Len(rs) - k : ts[i] = Requests!Text(m, rs[k + i])
    BY <2>1, <2>2
  <2>6. texts(k) = ts
    BY DEF rest
  <2>7. QED
    BY <2>4, <2>5, <2>6
<1>2. \A k : Left(m, rs, k) = Requests!FlattenSeq(texts(k))
  BY DEF Left, Requests!TextOf
<1> HIDE DEF texts
<1>3. Left(m, rs, h) \in Seq(Symbol)
  BY <1>1, <1>2, FlattenOfLonger
<1>4. ASSUME h = Len(rs) PROVE Left(m, rs, h) = <<>>
  <2>1. texts(h) \in Seq(Seq(Symbol)) /\ Len(texts(h)) = 0
    BY <1>0, <1>1, <1>4
  <2>2. texts(h) = <<>>
    BY <2>1
  <2>3. QED
    BY <1>2, <2>2, FlattenOfNone
<1>5. ASSUME h < Len(rs)
      PROVE  Left(m, rs, h) = Requests!Text(m, rs[h + 1]) \o Left(m, rs, h + 1)
  <2> DEFINE t == Requests!Text(m, rs[h + 1])
  <2>1. h \in 0 .. Len(rs) /\ h + 1 \in 0 .. Len(rs) /\ h + 1 \in 1 .. Len(rs)
    BY <1>0, <1>5
  <2>2. t \in Seq(Symbol)
    BY <1>0, <2>1, TextIsText
  <2> HIDE DEF t
  <2>3. /\ texts(h) \in Seq(Seq(Symbol)) /\ Len(texts(h)) = Len(rs) - h
        /\ \A i \in 1 .. Len(rs) - h : texts(h)[i] = Requests!Text(m, rs[h + i])
    BY <1>1
  <2>4. /\ texts(h + 1) \in Seq(Seq(Symbol)) /\ Len(texts(h + 1)) = Len(rs) - (h + 1)
        /\ \A i \in 1 .. Len(rs) - (h + 1) : texts(h + 1)[i] = Requests!Text(m, rs[(h + 1) + i])
    BY <1>1, <2>1
  <2> DEFINE x == texts(h)
             y == texts(h + 1)
             z == <<t>> \o y
  <2> HIDE DEF x, y
  <2>5. z \in Seq(Seq(Symbol)) /\ Len(z) = 1 + Len(y) /\ z[1] = t
        /\ \A i \in 2 .. 1 + Len(y) : z[i] = y[i - 1]
    <3>1. y \in Seq(Seq(Symbol)) /\ <<t>> \in Seq(Seq(Symbol)) /\ Len(<<t>>) = 1 /\ <<t>>[1] = t
      BY <2>2, <2>4 DEF y
    <3>2. /\ z \in Seq(Seq(Symbol)) /\ Len(z) = Len(<<t>>) + Len(y)
          /\ \A i \in 1 .. Len(<<t>>) + Len(y) :
               z[i] = IF i <= Len(<<t>>) THEN <<t>>[i] ELSE y[i - Len(<<t>>)]
      BY <3>1, ConcatProperties
    <3> HIDE DEF z
    <3>3. Len(y) \in Nat
      BY <3>1
    <3>4. /\ Len(z) = 1 + Len(y)
          /\ \A i \in 1 .. 1 + Len(y) : z[i] = IF i <= 1 THEN <<t>>[i] ELSE y[i - 1]
      BY <3>1, <3>2
    <3>5. QED
      BY <3>1, <3>2, <3>3, <3>4
  <2> HIDE DEF z
  <2>6. Len(x) = Len(z) /\ Len(x) \in Nat
    <3>1. Len(x) = Len(rs) - h
      BY <2>3 DEF x
    <3>2. Len(y) = Len(rs) - (h + 1)
      BY <2>4 DEF y
    <3>3. Len(rs) \in Nat
      BY <1>0
    <3>4. QED
      BY <2>1, <2>5, <3>1, <3>2, <3>3
  <2>7. ASSUME NEW i \in 1 .. Len(x) PROVE x[i] = z[i]
    <3>1. CASE i = 1
      BY <1>0, <1>5, <2>3, <2>5, <3>1 DEF x, t
    <3>2. CASE i # 1
      <4>1. i - 1 \in 1 .. Len(rs) - (h + 1) /\ (h + 1) + (i - 1) = h + i /\ i \in 1 .. Len(rs) - h
            /\ i \in 2 .. 1 + Len(y)
        BY <1>0, <2>3, <2>5, <2>6, <3>2 DEF x
      <4>2. x[i] = Requests!Text(m, rs[h + i])
        BY <2>3, <4>1 DEF x
      <4>3. y[i - 1] = Requests!Text(m, rs[h + i])
        BY <2>4, <4>1 DEF y
      <4>4. QED
        BY <2>5, <4>1, <4>2, <4>3
    <3>3. QED
      BY <3>1, <3>2
  <2>8. x = z
    <3>1. x \in Seq(Seq(Symbol))
      BY <2>3 DEF x
    <3>2. QED
      BY <2>5, <2>6, <2>7, <3>1, SeqEqual
  <2>9. Requests!FlattenSeq(z) = t \o Requests!FlattenSeq(y)
    <3>1. y \in Seq(Seq(Symbol))
      BY <2>4 DEF y
    <3>2. QED
      BY <2>2, <3>1, FlattenFirst DEF z
  <2>10. QED
    BY <1>2, <2>8, <2>9 DEF x, y, t
<1>6. h < Len(rs) => rs[h + 1] \in M
  BY <1>0
<1>7. QED
  BY <1>3, <1>4, <1>5, <1>6

(* Two ways to cut the same text in two.                                   *)
LEMMA CutBehind ==
  ASSUME NEW b \in Seq(Symbol), NEW u \in Seq(Symbol), NEW t \in Seq(Symbol),
         NEW rest \in Seq(Symbol), b \o u = t \o rest
  PROVE  /\ Len(b) + Len(u) = Len(t) + Len(rest)
         /\ \A i \in 1 .. Len(b) : i <= Len(t) => b[i] = t[i]
         /\ Len(b) >= Len(t) => /\ Requests!Take(b, Len(t)) \in Seq(Symbol)
                                /\ Requests!Take(b, Len(t)) \o u = rest
<1> DEFINE all == b \o u
           k == Len(t)
<1>1. /\ all \in Seq(Symbol) /\ Len(all) = Len(b) + Len(u)
      /\ Len(b) \in Nat /\ Len(u) \in Nat
      /\ \A i \in 1 .. Len(b) : all[i] = b[i]
      /\ \A i \in 1 .. Len(u) : all[Len(b) + i] = u[i]
  BY Joined
<1>2. /\ Len(all) = k + Len(rest) /\ k \in Nat /\ Len(rest) \in Nat
      /\ \A i \in 1 .. k : all[i] = t[i]
      /\ \A i \in 1 .. Len(rest) : all[k + i] = rest[i]
  BY Joined
<1> HIDE DEF all, k
<1>3. ASSUME NEW i \in 1 .. Len(b), i <= k PROVE b[i] = t[i]
  BY <1>1, <1>2, <1>3
<1>4. ASSUME Len(b) >= k
      PROVE  Requests!Take(b, k) \in Seq(Symbol) /\ Requests!Take(b, k) \o u = rest
  <2> DEFINE s == Requests!Take(b, k)
             p == k + 1
             l == Len(b)
             w == s \o u
  <2>0. s = SubSeq(b, p, l)
    BY DEF Requests!Take
  <2>9. p \in Int /\ l \in Int /\ \A i \in p .. l : b[i] \in Symbol
    BY <1>1, <1>2
  <2>1. /\ p <= l => l - p + 1 = l - k
        /\ ~ (p <= l) => 0 = l - k
        /\ l - p + 1 = l - k /\ \A i \in Int : p + i - 1 = k + i
    BY <1>1, <1>2, <1>4
  <2> HIDE DEF s, p, l
  <2>2. /\ s \in Seq(Symbol) /\ Len(s) = IF p <= l THEN l - p + 1 ELSE 0
        /\ \A i \in 1 .. l - p + 1 : s[i] = b[p + i - 1]
    BY <2>0, <2>9, SubSeqProperties
  <2>3. Len(s) = l - k /\ \A i \in 1 .. l - k : s[i] = b[k + i]
    <3>1. Len(s) = l - k
      BY <2>1, <2>2
    <3>2. ASSUME NEW i \in 1 .. l - k PROVE s[i] = b[k + i]
      <4>1. i \in 1 .. l - p + 1 /\ p + i - 1 = k + i
        BY <2>1
      <4>2. s[i] = b[p + i - 1]
        BY <2>2, <4>1
      <4>3. QED
        BY <4>1, <4>2
    <3>3. QED
      BY <3>1, <3>2
  <2>4. /\ w \in Seq(Symbol) /\ Len(w) = Len(s) + Len(u)
        /\ \A i \in 1 .. Len(s) : w[i] = s[i]
        /\ \A i \in 1 .. Len(u) : w[Len(s) + i] = u[i]
    BY <2>2, Joined
  <2> HIDE DEF w
  <2>5. Len(w) = Len(rest)
    <3>1. Len(w) = (Len(b) - k) + Len(u)
      BY <2>3, <2>4 DEF l
    <3>2. QED
      BY <1>1, <1>2, <3>1
  <2>6. ASSUME NEW i \in 1 .. Len(rest) PROVE w[i] = rest[i]
    <3>1. CASE i <= Len(s)
      <4>1. i \in 1 .. Len(s) /\ i \in 1 .. l - k /\ k + i \in 1 .. Len(b)
        BY <1>1, <1>2, <2>3, <3>1 DEF l
      <4>2. QED
        BY <1>1, <1>2, <2>3, <2>4, <4>1
    <3>2. CASE i > Len(s)
      <4> DEFINE j == i - Len(s)
      <4>1. /\ j \in 1 .. Len(u) /\ Len(s) + j = i /\ Len(b) + j = k + i
        BY <1>1, <1>2, <2>1, <2>3, <3>2 DEF l
      <4> HIDE DEF j
      <4>2. w[i] = u[j] /\ all[k + i] = u[j]
        BY <1>1, <2>4, <4>1
      <4>3. QED
        BY <1>2, <4>2
    <3>3. QED
      BY <1>1, <1>2, <2>1, <2>3, <3>1, <3>2
  <2>7. w = rest
    BY <2>4, <2>5, <2>6, SeqEqual
  <2>8. QED
    BY <2>2, <2>7 DEF s, w
<1>5. QED
  BY <1>1, <1>2, <1>3, <1>4 DEF k

(* n symbols go from what is unsent into the buffer.                       *)
LEMMA CutIsMoved ==
  ASSUME NEW b \in Seq(Symbol), NEW u \in Seq(Symbol), NEW n \in 1 .. Len(u)
  PROVE  /\ b \o SubSeq(u, 1, n) \in Seq(Symbol) /\ Requests!Take(u, n) \in Seq(Symbol)
         /\ Len(b \o SubSeq(u, 1, n)) >= 1
         /\ Len(Requests!Take(u, n)) = Len(u) - n
         /\ (b \o SubSeq(u, 1, n)) \o Requests!Take(u, n) = b \o u
<1> DEFINE first == SubSeq(u, 1, n)
           second == SubSeq(u, n + 1, Len(u))
<1>1. /\ Len(u) \in Nat /\ n \in 1 - 1 .. Len(u) /\ 1 \in 1 .. Len(u) + 1
      /\ Len(u) \in n .. Len(u) /\ n \in Int
  OBVIOUS
<1>2. first \o second = u
  <2>1. SubSeq(u, 1, Len(u)) = u
    BY SubSeqFull
  <2>2. first \o second = SubSeq(u, 1, Len(u))
    BY <1>1, ConcatAdjacentSubSeq
  <2>3. QED
    BY <2>1, <2>2
<1>3. first \in Seq(Symbol) /\ Len(first) = n
  OBVIOUS
<1>4. second \in Seq(Symbol) /\ Len(second) = Len(u) - n
  OBVIOUS
<1>5. Requests!Take(u, n) = second
  BY DEF Requests!Take
<1> HIDE DEF first, second
<1>6. b \o first \in Seq(Symbol) /\ Len(b \o first) = Len(b) + n /\ Len(b) \in Nat
  BY <1>3, Joined
<1>7. (b \o first) \o second = b \o u
  <2>1. (b \o first) \o second = b \o (first \o second)
    <3>1. b \in Seq(Symbol) /\ first \in Seq(Symbol) /\ second \in Seq(Symbol)
      BY <1>3, <1>4
    <3>2. QED
      BY <3>1, Reassociated
  <2>2. QED
    BY <1>2, <2>1
<1>8. Len(b \o first) >= 1
  BY <1>6
<1>9. QED
  BY <1>4, <1>5, <1>6, <1>7, <1>8 DEF first

-----------------------------------------------------------------------------
(* How many messages have arrived.                                         *)
ArrivedOf(m, rs, k) == Cardinality({i \in 1 .. Len(rs) : Len(Left(m, rs, i)) >= k})

LEMMA ArrivedIs ==
  ASSUME NEW k
  PROVE  Requests!Arrived(k) = ArrivedOf(model, asked, k)
BY Zenon DEF Requests!Arrived, ArrivedOf, Left, Requests!Cardinality, Cardinality

(* The fewer symbols are unsent, the more messages have arrived; those of  *)
(* whose successors more is unsent than has yet to come have not.          *)
LEMMA ArrivedFacts ==
  ASSUME NEW m, NEW rs, Len(rs) \in Nat, \A i \in 1 .. Len(rs) : Len(Left(m, rs, i)) \in Nat
  PROVE  /\ \A k \in Nat : ArrivedOf(m, rs, k) \in Nat
         /\ \A k, l \in Nat : l <= k => ArrivedOf(m, rs, k) <= ArrivedOf(m, rs, l)
         /\ \A k, h \in Nat : (\A i \in 1 .. Len(rs) : i > h => Len(Left(m, rs, i)) < k)
                                => ArrivedOf(m, rs, k) <= h
<1> DEFINE Set(k) == {i \in 1 .. Len(rs) : Len(Left(m, rs, i)) >= k}
<1>1. IsFiniteSet(1 .. Len(rs))
  BY FS_Interval
<1>2. \A k : IsFiniteSet(Set(k))
  <2>1. \A k : Set(k) \subseteq 1 .. Len(rs)
    OBVIOUS
  <2> HIDE DEF Set
  <2>2. QED
    BY <1>1, <2>1, FS_Subset
<1>3. \A k : ArrivedOf(m, rs, k) = Cardinality(Set(k))
  BY DEF ArrivedOf
<1>4. ASSUME NEW k \in Nat PROVE ArrivedOf(m, rs, k) \in Nat
  <2> HIDE DEF Set
  <2>1. QED
    BY <1>2, <1>3, FS_CardinalityType
<1>5. ASSUME NEW k \in Nat, NEW l \in Nat, l <= k
      PROVE  ArrivedOf(m, rs, k) <= ArrivedOf(m, rs, l)
  <2>1. Set(k) \subseteq Set(l)
    BY <1>5
  <2> HIDE DEF Set
  <2>2. QED
    BY <1>2, <1>3, <2>1, FS_Subset
<1>6. ASSUME NEW k \in Nat, NEW h \in Nat,
             \A i \in 1 .. Len(rs) : i > h => Len(Left(m, rs, i)) < k
      PROVE  ArrivedOf(m, rs, k) <= h
  <2>1. Set(k) \subseteq 1 .. h
    <3>1. ASSUME NEW i \in Set(k) PROVE i \in 1 .. h
      <4>1. i \in 1 .. Len(rs) /\ Len(Left(m, rs, i)) >= k /\ Len(Left(m, rs, i)) \in Nat
        OBVIOUS
      <4>2. ~ (i > h)
        BY <1>6, <4>1
      <4>3. QED
        BY <4>1, <4>2
    <3>2. QED
      BY <3>1
  <2>2. IsFiniteSet(1 .. h) /\ Cardinality(1 .. h) = h
    BY FS_Interval
  <2> HIDE DEF Set
  <2>3. QED
    BY <1>3, <2>1, <2>2, FS_Subset
<1>7. QED
  BY <1>4, <1>5, <1>6

(* Later messages leave less behind.                                       *)
LEMMA LeftShrinks ==
  ASSUME NEW m \in {"HTTP", "FIXED", "LENGTH"}, NEW M, M = Requests!Message(m),
         NEW rs \in Seq(M), NEW h \in 0 .. Len(rs), NEW i \in h .. Len(rs)
  PROVE  /\ Len(Left(m, rs, i)) \in Nat /\ Len(Left(m, rs, i)) <= Len(Left(m, rs, h))
         /\ i > h => Len(Left(m, rs, i)) < Len(Left(m, rs, h))
<1> DEFINE N == Len(rs)
           l(j) == Len(Left(m, rs, j))
           S == {d \in Nat : h + d <= N => l(h + d) <= l(h) /\ (d > 0 => l(h + d) < l(h))}
<1>0. N \in Nat /\ h \in Nat
  OBVIOUS
<1>1. \A j \in 0 .. N : l(j) \in Nat
  <2>1. \A j \in 0 .. N : Left(m, rs, j) \in Seq(Symbol)
    BY LeftIs
  <2>2. QED
    BY <2>1
<1>2. ASSUME NEW j \in 0 .. N, j < N PROVE l(j + 1) < l(j)
  <2> DEFINE t == Requests!Text(m, rs[j + 1])
             rest == Left(m, rs, j + 1)
  <2>1. rs[j + 1] \in Requests!Message(m) /\ Left(m, rs, j) = t \o rest
    BY <1>2, LeftIs
  <2>2. t \in Seq(Symbol) /\ Len(t) > 0
    BY <2>1, TextIsText
  <2>3. j + 1 \in 0 .. Len(rs)
    BY <1>0, <1>2
  <2>4. rest \in Seq(Symbol)
    BY <2>3, LeftIs
  <2> HIDE DEF t, rest
  <2>5. Len(t \o rest) = Len(t) + Len(rest) /\ Len(t) \in Nat /\ Len(rest) \in Nat
    BY <2>2, <2>4, Joined
  <2>6. l(j) = Len(t) + Len(rest)
    BY <2>1, <2>5
  <2>7. QED
    BY <2>2, <2>5, <2>6 DEF rest
<1> HIDE DEF l
<1>3. 0 \in S
  BY <1>0, <1>1
<1>4. ASSUME NEW d \in S PROVE d + 1 \in S
  <2>1. ASSUME h + (d + 1) <= N PROVE l(h + (d + 1)) < l(h)
    <3>1. h + d \in 0 .. N /\ h + d < N /\ h + (d + 1) = (h + d) + 1 /\ (h + d) + 1 \in 0 .. N
      BY <1>0, <2>1
    <3>2. l((h + d) + 1) < l(h + d) /\ l(h + d) <= l(h)
      BY <1>2, <3>1
    <3>3. l((h + d) + 1) \in Nat /\ l(h + d) \in Nat /\ l(h) \in Nat
      BY <1>0, <1>1, <3>1
    <3>4. l((h + d) + 1) < l(h)
      BY <3>2, <3>3
    <3>5. QED
      BY <3>1, <3>4
  <2>2. d + 1 \in Nat
    OBVIOUS
  <2>3. ASSUME h + (d + 1) <= N PROVE l(h + (d + 1)) <= l(h)
    <3>1. h + (d + 1) \in 0 .. N
      BY <1>0, <2>2, <2>3
    <3>2. l(h + (d + 1)) \in Nat /\ l(h) \in Nat
      BY <1>0, <1>1, <3>1
    <3>3. QED
      BY <2>1, <2>3, <3>2
  <2>4. QED
    BY <2>1, <2>2, <2>3
<1>5. S = Nat
  <2>1. S \in SUBSET Nat
    OBVIOUS
  <2> HIDE DEF S
  <2>2. QED
    BY <1>3, <1>4, <2>1, EveryNumber
<1>6. i - h \in Nat /\ h + (i - h) = i /\ i <= N /\ (i > h => i - h > 0)
  BY <1>0
<1>7. l(i) <= l(h) /\ (i > h => l(i) < l(h))
  <2> DEFINE d == i - h
  <2>1. d \in S
    BY <1>5, <1>6
  <2> HIDE DEF d
  <2>2. h + d <= N => l(h + d) <= l(h) /\ (d > 0 => l(h + d) < l(h))
    BY <2>1
  <2>3. QED
    BY <1>0, <1>6, <2>2 DEF d
<1>8. l(i) \in Nat
  BY <1>0, <1>1
<1>9. QED
  BY <1>7, <1>8 DEF l

-----------------------------------------------------------------------------
(* The length that std::stoull finds is the one that was sent.             *)
LEMMA DataLenIs ==
  ASSUME NEW b, NEW k \in 0 .. 2, b[1] = Requests!Digit[k + 1]
  PROVE  Requests!DataLen(b) = k
<1>1. Requests!Digit[1] = "0" /\ Requests!Digit[2] = "1" /\ Requests!Digit[3] = "2"
  BY DEF Requests!Digit
<1>2. \A n \in 0 .. 2 : Requests!Digit[n + 1] = Requests!Digit[k + 1] => n = k
  <2>1. (\A n \in 0 .. 2 : n = 0 \/ n = 1 \/ n = 2) /\ 0 + 1 = 1 /\ 1 + 1 = 2 /\ 2 + 1 = 3
    OBVIOUS
  <2>2. QED
    BY <1>1, <2>1
<1>3. \E n \in 0 .. 2 : b[1] = Requests!Digit[n + 1]
  OBVIOUS
<1>4. (CHOOSE n \in 0 .. 2 : b[1] = Requests!Digit[n + 1]) = k
  BY <1>2
<1>5. QED
  BY <1>3, <1>4 DEF Requests!DataLen

(* The codec sees that the first message is there.                         *)
LEMMA CheckIs ==
  ASSUME NEW m \in {"HTTP", "FIXED", "LENGTH"}, NEW r \in Requests!Message(m), NEW n,
         NEW b \in Seq(Symbol), Len(b) >= 1,
         \A i \in 1 .. Len(b) : i <= Len(Requests!Text(m, r)) => b[i] = Requests!Text(m, r)[i]
  PROVE  Requests!Check(m, b, n)
           <=> Len(b) >= Len(Requests!Text(m, r)) + (IF m = "FIXED" THEN 1 ELSE 0)
<1> DEFINE t == Requests!Text(m, r)
<1>0. Len(b) \in Nat /\ t \in Seq(Symbol) /\ Len(t) \in Nat /\ Len(t) > 0
  <2>1. t \in Seq(Symbol) /\ Len(t) > 0
    BY TextIsText
  <2> HIDE DEF t
  <2>2. QED
    BY <2>1
<1>1. CASE m = "FIXED"
  <2>1. Requests!Check(m, b, n) <=> Len(b) > 2
    BY <1>1 DEF Requests!Check, Requests!FixedLength, Requests!FixedSize
  <2>2. Len(t) = 2
    BY <1>1, TextOfFixed
  <2>3. QED
    BY <1>0, <1>1, <2>1, <2>2
<1>2. CASE m = "LENGTH"
  <2>1. /\ r.length \in 0 .. 2 /\ Len(t) = r.length + 1 /\ t[1] = Requests!Digit[r.length + 1]
    BY <1>2, TextOfLength
  <2>2. b[1] = t[1]
    BY <1>0
  <2>3. Requests!DataLen(b) = r.length
    BY <2>1, <2>2, DataLenIs
  <2>4. Requests!Check(m, b, n) <=> Len(b) >= 1 /\ Len(b) - 1 >= r.length
    BY <1>2, <2>3 DEF Requests!Check, Requests!LengthData
  <2>5. QED
    BY <1>0, <1>2, <2>1, <2>4
<1>3. CASE m = "HTTP"
  <2>1. r \in Requests!Message("HTTP") /\ RequestAt(t, r, Len(t), "lf")
    BY <1>3, TextOfRequest
  <2>2. Requests!Check(m, b, n) <=> Requests!FindStr(b, Requests!Blank) > 0
    BY <1>3 DEF Requests!Check, Requests!HttpRequest
  <2> HIDE DEF t
  <2>3. ASSUME Len(b) >= Len(t) PROVE Requests!FindStr(b, Requests!Blank) > 0
    <3>1. /\ \A i \in 1 .. Len(t) - 1 : b[i] = t[i]
          /\ b[Len(t)] = t[Len(t)] /\ Len(t) \in 1 .. Len(b)
      BY <1>0, <2>3 DEF t
    <3>2. t[Len(t)] = "lf"
      BY <2>1 DEF RequestAt
    <3>3. RequestAt(b, r, Len(t), "lf")
      BY <1>0, <2>1, <3>1, <3>2, SameRequest
    <3>4. QED
      BY <2>1, <3>1, <3>3, FoundAtEnd
  <2>4. ASSUME Len(b) < Len(t) PROVE Requests!FindStr(b, Requests!Blank) = 0
    <3>1. \A i \in 1 .. Len(b) : b[i] = t[i]
      BY <1>0, <2>4 DEF t
    <3>2. QED
      BY <1>0, <2>1, <2>4, <3>1, NotFoundBefore
  <2>5. Requests!Check(m, b, n) <=> Len(b) >= Len(t)
    BY <1>0, <2>2, <2>3, <2>4
  <2>6. QED
    BY <1>0, <1>3, <2>5 DEF t
<1>4. QED
  BY <1>1, <1>2, <1>3

(* What the callback does with the first message, r, in b.                 *)
HandledIs(r, b) ==
  /\ reading' = "on" \/ reading' = "off"
  /\ buffer' = Requests!Take(b, Len(Requests!Text(model, r)))
  /\ \E x : /\ handled' = Append(handled, x)
            /\ Requests!Simple(r) => x = r
            /\ model = "HTTP" => x.url = r.url

(* An HTTP request is handled as it was sent, or ptr is lost in it.        *)
LEMMA HttpHandled ==
  ASSUME NEW r \in Requests!Message("HTTP"), NEW b \in Seq(Symbol), model = "HTTP",
         NEW n \in 1 .. Len(b), n = Len(Requests!Text("HTTP", r)),
         RequestAt(b, r, n, "lf"), Requests!HandleHttp(Requests!Checked("HTTP", b))
  PROVE  \/ r.headers = <<Requests!Words>> /\ handled' = handled /\ reading' = "lost"
         \/ HandledIs(r, b)
<1> DEFINE c == Requests!Checked("HTTP", b)
           request == Requests!Parsed(c)
<1>1. /\ c \in Seq(Byte) /\ Len(c) = Len(b) /\ RequestAt(c, r, n, "nul")
      /\ \A i \in 1 .. Len(c) : c[i] = "nul" => i = n
  BY ZeroWritten
<1>2. /\ handled' = IF request.end > Len(b) THEN handled
                    ELSE Append(handled, [url |-> request.url[1], headers |-> request.headers])
      /\ buffer' = IF request.end > Len(b) THEN c ELSE Requests!Take(c, request.end)
      /\ reading' = IF request.end > Len(b) THEN "lost"
                    ELSE IF request.url[1] \in Known THEN "on" ELSE "off"
  <2>1. /\ handled' = IF request.end > Len(c) THEN handled
                      ELSE Append(handled, [url |-> request.url[1], headers |-> request.headers])
        /\ buffer' = IF request.end > Len(c) THEN c ELSE Requests!Take(c, request.end)
        /\ reading' = IF request.end > Len(c) THEN "lost"
                      ELSE IF request.url[1] \in Known THEN "on" ELSE "off"
    BY DEF Requests!HandleHttp
  <2> HIDE DEF c, request
  <2>2. QED
    BY <1>1, <2>1
<1>rest. Requests!Take(c, n) = Requests!Take(b, n)
  <2>1. c \in Seq(Byte) /\ Len(c) = Len(b) /\ \A i \in 1 .. Len(b) : i # n => c[i] = b[i]
    BY ZeroWritten
  <2> HIDE DEF c
  <2>2. /\ SubSeq(c, n + 1, Len(c)) = [i \in 1 .. Len(c) - n |-> c[n + i]]
        /\ SubSeq(b, n + 1, Len(b)) = [i \in 1 .. Len(b) - n |-> b[n + i]]
    BY <2>1
  <2>3. \A i \in 1 .. Len(b) - n : c[n + i] = b[n + i]
    BY <2>1
  <2>4. QED
    BY <2>1, <2>2, <2>3 DEF Requests!Take
<1> HIDE DEF c
<1>3. /\ request.url = <<r.url>>
      /\ r.headers # <<Requests!Words>> => request.end = n
      /\ r.headers \in {<<>>, <<Requests!Plain>>} => request.headers = r.headers
      /\ r.headers = <<Requests!Words>> => request.end > Len(b)
  <2>1. n \in 1 .. Len(c)
    BY <1>1
  <2>2. QED
    BY <1>1, <2>1, RequestParsed
<1> HIDE DEF request
<1>4. CASE r.headers = <<Requests!Words>>
  BY <1>2, <1>3, <1>4
<1>5. CASE r.headers # <<Requests!Words>>
  <2> DEFINE x == [url |-> request.url[1], headers |-> request.headers]
  <2>1. ~ (request.end > Len(b)) /\ request.end = n
    <3>1. Len(b) \in Nat
      OBVIOUS
    <3>2. QED
      BY <1>3, <1>5, <3>1
  <2>2. handled' = Append(handled, x) /\ buffer' = Requests!Take(b, n)
        /\ (reading' = "on" \/ reading' = "off")
    BY <1>2, <1>rest, <2>1
  <2>3. x.url = r.url
    BY <1>3
  <2>4. Requests!Simple(r) => x = r
    <3>1. ASSUME Requests!Simple(r) PROVE r.headers \in {<<>>, <<Requests!Plain>>}
      <4>1. r.headers \in {<<>>, <<Requests!Plain>>, <<Requests!Words>>,
                           <<Requests!Words, Requests!Plain>>}
        BY DEF Requests!Message
      <4>2. \A i \in DOMAIN r.headers : r.headers[i] # Requests!Words
        BY <3>1 DEF Requests!Simple
      <4>3. ASSUME r.headers = <<Requests!Words, Requests!Plain>> PROVE FALSE
        <5>1. 1 \in DOMAIN r.headers /\ r.headers[1] = Requests!Words
          BY <4>3
        <5>2. QED
          BY <4>2, <5>1
      <4>4. QED
        BY <1>5, <4>1, <4>3
    <3>2. r = [url |-> r.url, headers |-> r.headers]
      BY DEF Requests!Message
    <3>3. ASSUME Requests!Simple(r) PROVE x = r
      <4>1. request.headers = r.headers /\ request.url[1] = r.url
        BY <1>3, <3>1, <3>3
      <4>2. QED
        BY <3>2, <4>1
    <3>4. QED
      BY <3>3
  <2> HIDE DEF x
  <2>5. QED
    BY <2>2, <2>3, <2>4 DEF HandledIs
<1>6. QED
  BY <1>4, <1>5

(* A message of the other models is handled as it was sent.                *)
LEMMA CountedHandled ==
  ASSUME model \in {"FIXED", "LENGTH"}, NEW r \in Requests!Message(model), NEW b \in Seq(Symbol),
         b[1] = Requests!Text(model, r)[1], Requests!HandleCounted(b), reading = "on"
  PROVE  HandledIs(r, b)
<1>1. CASE model = "FIXED"
  <2>1. Len(Requests!Text(model, r)) = 2 /\ r = [length |-> 2]
    BY <1>1, TextOfFixed
  <2>2. handled' = Append(handled, r) /\ buffer' = Requests!Take(b, 2) /\ reading' = reading
    BY <1>1, <2>1 DEF Requests!HandleCounted, Requests!FixedSize
  <2>3. QED
    BY <1>1, <2>1, <2>2 DEF HandledIs
<1>2. CASE model = "LENGTH"
  <2>1. /\ r.length \in 0 .. 2 /\ Len(Requests!Text(model, r)) = r.length + 1
        /\ Requests!Text(model, r)[1] = Requests!Digit[r.length + 1] /\ r = [length |-> r.length]
    BY <1>2, TextOfLength
  <2>2. Requests!DataLen(b) = r.length
    BY <2>1, DataLenIs
  <2>3. /\ handled' = Append(handled, r) /\ buffer' = Requests!Take(b, r.length + 1)
        /\ reading' = reading
    BY <1>2, <2>1, <2>2 DEF Requests!HandleCounted
  <2>4. QED
    BY <1>2, <2>1, <2>3 DEF HandledIs
<1>3. QED
  BY <1>1, <1>2

(* One more message handled.                                               *)
LEMMA Appended ==
  ASSUME NEW S, NEW s \in Seq(S), NEW x, NEW t, t = Append(s, x)
  PROVE  /\ t \in Seq({t[i] : i \in DOMAIN t})
         /\ Len(t) = Len(s) + 1 /\ Len(s) \in Nat /\ t[Len(s) + 1] = x
         /\ \A i \in 1 .. Len(s) : t[i] = s[i]
<1> DEFINE T == S \union {x}
<1>1. s \in Seq(T) /\ x \in T
  OBVIOUS
<1> HIDE DEF T
<1>2. /\ t \in Seq(T) /\ Len(t) = Len(s) + 1 /\ t[Len(s) + 1] = x /\ Len(s) \in Nat
      /\ \A i \in 1 .. Len(s) : t[i] = s[i]
  BY <1>1
<1>3. t \in Seq({t[i] : i \in DOMAIN t})
  <2>1. t = [i \in 1 .. Len(t) |-> t[i]] /\ Len(t) \in Nat /\ DOMAIN t = 1 .. Len(t)
    <3>1. \A w \in Seq(T) : w = [i \in 1 .. Len(w) |-> w[i]] /\ Len(w) \in Nat
                             /\ DOMAIN w = 1 .. Len(w)
      OBVIOUS
    <3>2. QED
      BY <1>2, <3>1, Zenon
  <2> DEFINE R == {t[i] : i \in DOMAIN t}
  <2>2. \A i \in 1 .. Len(t) : t[i] \in R
    BY <2>1
  <2> HIDE DEF R
  <2>3. t \in Seq(R)
    BY <2>1, <2>2
  <2>4. QED
    BY <2>3 DEF R
<1>4. QED
  BY <1>2, <1>3

-----------------------------------------------------------------------------
(* A fixed-length message is not seen before the byte after it             *)
(* (Codec.h:62).                                                           *)
Ahead(m) == IF m = "FIXED" THEN 1 ELSE 0

(* The types of the variables.                                             *)
RequestsTyped ==
  /\ model \in {"HTTP", "FIXED", "LENGTH"}
  /\ asked \in Seq(Requests!Message(model))
  /\ handled \in Seq({handled[i] : i \in DOMAIN handled})
  /\ Len(handled) <= Len(asked)
  /\ surplus \in Nat
  /\ reading \in {"on", "off", "lost"}

(* Until ptr is lost, what was not handled is in the buffer or unsent.     *)
RestIsThere ==
  IF reading = "lost"
  THEN Len(handled) < Len(asked) /\ asked[Len(handled) + 1].headers = <<Requests!Words>>
  ELSE /\ buffer \in Seq(Symbol) /\ unsent \in Seq(Symbol)
       /\ buffer \o unsent = Left(model, asked, Len(handled))

(* What was handled is what was asked, as far as the parser goes.          *)
HandledRight ==
  \A i \in 1 .. Len(handled) :
    /\ Requests!Simple(asked[i]) => handled[i] = asked[i]
    /\ model = "HTTP" => handled[i].url = asked[i].url

(* Only surplus messages wait.                                             *)
FewWait ==
  reading = "on" =>
    ArrivedOf(model, asked, Len(unsent)) - Len(handled) <= surplus + Ahead(model)

RequestsInv == RequestsTyped /\ RestIsThere /\ HandledRight /\ FewWait

(* It holds initially.                                                     *)
LEMMA RequestsInvInit == Requests!Init => RequestsInv
<1> SUFFICES ASSUME Requests!Init PROVE RequestsInv
  OBVIOUS
<1> DEFINE M == Requests!Message(model)
<1> HIDE DEF M
<1>1. /\ model \in {"HTTP", "FIXED", "LENGTH"} /\ buffer = <<>> /\ handled = <<>>
      /\ surplus = 0 /\ reading = "on" /\ unsent = Requests!TextOf(model, asked)
  BY DEF Requests!Init
<1>2. asked \in Seq(M) /\ Len(asked) \in Nat
  <2>1. asked \in Requests!BoundedSeq(M, MaxAsked)
    BY DEF Requests!Init, M
  <2>2. PICK k \in 0 .. MaxAsked : asked \in [1 .. k -> M]
    BY <2>1 DEF Requests!BoundedSeq, Requests!SeqOf
  <2>3. k \in Nat
    BY <2>2
  <2>4. QED
    BY <2>2, <2>3
<1>3. unsent = Left(model, asked, 0)
  <2>1. SubSeq(asked, 0 + 1, Len(asked)) = asked
    BY <1>2, SubSeqFull
  <2>2. QED
    BY <1>1, <2>1 DEF Left
<1>4. RequestsTyped
  <2>1. <<>> \in Seq({<<>>[i] : i \in DOMAIN <<>>}) /\ Len(<<>>) = 0
    OBVIOUS
  <2>2. QED
    BY <1>1, <1>2, <2>1 DEF RequestsTyped, M
<1>5. Left(model, asked, 0) \in Seq(Symbol)
  <2>1. 0 \in 0 .. Len(asked)
    BY <1>2
  <2>2. QED
    BY <1>1, <1>2, <2>1, LeftIs DEF M
<1>6. RestIsThere
  <2>1. <<>> \o unsent = unsent /\ <<>> \in Seq(Symbol) /\ Len(<<>>) = 0
    BY <1>3, <1>5, ConcatEmptySeq
  <2>2. QED
    BY <1>1, <1>3, <1>5, <2>1 DEF RestIsThere
<1>7. HandledRight
  BY <1>1 DEF HandledRight
<1>8. ArrivedOf(model, asked, Len(unsent)) <= 0 /\ ArrivedOf(model, asked, Len(unsent)) \in Nat
  <2>1. \A i \in 1 .. Len(asked) : /\ Len(Left(model, asked, i)) \in Nat
                                   /\ Len(Left(model, asked, i)) < Len(unsent)
    <3>1. ASSUME NEW i \in 1 .. Len(asked)
          PROVE  Len(Left(model, asked, i)) \in Nat /\ Len(Left(model, asked, i)) < Len(unsent)
      <4>1. 0 \in 0 .. Len(asked) /\ i \in 0 .. Len(asked) /\ i > 0
        BY <1>2
      <4>2. QED
        BY <1>1, <1>2, <1>3, <4>1, LeftShrinks DEF M
    <3>2. QED
      BY <3>1
  <2>2. Len(unsent) \in Nat /\ 0 \in Nat
    BY <1>3, <1>5
  <2>3. QED
    BY <1>2, <2>1, <2>2, ArrivedFacts
<1>9. FewWait
  <2>1. Len(<<>>) = 0
    OBVIOUS
  <2>2. QED
    BY <1>1, <1>8, <2>1 DEF FewWait, Ahead
<1>10. QED
  BY <1>4, <1>6, <1>7, <1>9 DEF RequestsInv

(* The message that the next symbols belong to.                            *)
LEMMA FirstWaiting ==
  ASSUME RequestsInv, reading = "on", NEW n \in 1 .. Len(unsent)
  PROVE  LET b == buffer \o SubSeq(unsent, 1, n)
             u == Requests!Take(unsent, n)
             h == Len(handled)
             r == asked[h + 1]
             t == Requests!Text(model, r)
         IN  /\ b \in Seq(Symbol) /\ u \in Seq(Symbol) /\ Len(b) >= 1
             /\ b \o u = Left(model, asked, h) /\ Len(u) = Len(unsent) - n
             /\ h < Len(asked) /\ h \in Nat /\ r \in Requests!Message(model)
             /\ t \in Seq(Symbol) /\ Len(t) > 0
             /\ Left(model, asked, h + 1) \in Seq(Symbol)
             /\ Len(b) + Len(u) = Len(t) + Len(Left(model, asked, h + 1))
             /\ \A i \in 1 .. Len(b) : i <= Len(t) => b[i] = t[i]
             /\ Len(b) >= Len(t) => /\ Requests!Take(b, Len(t)) \in Seq(Symbol)
                                    /\ Requests!Take(b, Len(t)) \o u = Left(model, asked, h + 1)
<1> DEFINE M == Requests!Message(model)
           b == buffer \o SubSeq(unsent, 1, n)
           u == Requests!Take(unsent, n)
           h == Len(handled)
           t == Requests!Text(model, asked[h + 1])
           rest == Left(model, asked, h + 1)
<1>1. /\ model \in {"HTTP", "FIXED", "LENGTH"} /\ asked \in Seq(M)
      /\ buffer \in Seq(Symbol) /\ unsent \in Seq(Symbol) /\ h <= Len(asked)
      /\ buffer \o unsent = Left(model, asked, h)
  BY DEF RequestsInv, RequestsTyped, RestIsThere
<1>2. h \in Nat
  BY DEF RequestsInv, RequestsTyped
<1> HIDE DEF M, h
<1>3. /\ b \in Seq(Symbol) /\ u \in Seq(Symbol) /\ Len(b) >= 1 /\ Len(u) = Len(unsent) - n
      /\ b \o u = buffer \o unsent
  BY <1>1, CutIsMoved
<1> HIDE DEF b, u
<1>4. h \in 0 .. Len(asked) /\ Len(asked) \in Nat
  BY <1>1, <1>2
<1>5. h # Len(asked)
  <2>1. SUFFICES ASSUME h = Len(asked) PROVE FALSE
    OBVIOUS
  <2>2. b \o u = <<>>
    BY <1>1, <1>3, <1>4, <2>1, LeftIs DEF M
  <2>3. Len(b \o u) = Len(b) + Len(u) /\ Len(b) \in Nat /\ Len(u) \in Nat
    BY <1>3, Joined
  <2>4. Len(<<>>) = 0
    OBVIOUS
  <2>5. QED
    BY <1>3, <2>2, <2>3, <2>4
<1>6. h < Len(asked) /\ h + 1 \in 0 .. Len(asked)
  BY <1>4, <1>5
<1>7. asked[h + 1] \in M /\ b \o u = t \o rest
  <2>1. asked[h + 1] \in M /\ Left(model, asked, h) = t \o rest
    BY <1>1, <1>4, <1>6, LeftIs DEF M
  <2>2. QED
    BY <1>1, <1>3, <2>1
<1>8. t \in Seq(Symbol) /\ Len(t) > 0 /\ rest \in Seq(Symbol)
  <2>1. t \in Seq(Symbol) /\ Len(t) > 0
    BY <1>1, <1>7, TextIsText DEF M
  <2>2. rest \in Seq(Symbol)
    BY <1>1, <1>6, LeftIs DEF M
  <2>3. QED
    BY <2>1, <2>2
<1> HIDE DEF t, rest
<1>9. /\ Len(b) + Len(u) = Len(t) + Len(rest)
      /\ \A i \in 1 .. Len(b) : i <= Len(t) => b[i] = t[i]
      /\ Len(b) >= Len(t) => /\ Requests!Take(b, Len(t)) \in Seq(Symbol)
                             /\ Requests!Take(b, Len(t)) \o u = rest
  <2>1. /\ b \in Seq(Symbol) /\ u \in Seq(Symbol) /\ t \in Seq(Symbol) /\ rest \in Seq(Symbol)
        /\ b \o u = t \o rest
    BY <1>3, <1>7, <1>8
  <2>2. QED
    BY <2>1, CutBehind
<1>10. QED
  BY <1>1, <1>2, <1>3, <1>6, <1>7, <1>8, <1>9 DEF b, u, h, t, rest, M

(* While the codec sees no message, none waits but a fixed-length one.     *)
LEMMA NoneWaits ==
  ASSUME RequestsInv, NEW k \in Nat, Len(handled) < Len(asked),
         k + Ahead(model) > Len(Left(model, asked, Len(handled) + 1))
  PROVE  ArrivedOf(model, asked, k) <= Len(handled) + Ahead(model)
<1> DEFINE M == Requests!Message(model)
           h == Len(handled)
           N == Len(asked)
           l(j) == Len(Left(model, asked, j))
<1>1. model \in {"HTTP", "FIXED", "LENGTH"} /\ asked \in Seq(M) /\ h \in Nat
  BY DEF RequestsInv, RequestsTyped
<1> HIDE DEF M, h
<1>2. N \in Nat /\ h + 1 \in 0 .. N /\ Ahead(model) \in {0, 1} /\ h < N
  <2>1. N \in Nat
    BY <1>1
  <2>2. QED
    BY <1>1, <2>1 DEF Ahead, h
<1>3. \A i \in 1 .. N : l(i) \in Nat
  <2>1. \A i \in 1 .. N : 0 \in 0 .. N /\ i \in 0 .. N
    BY <1>2
  <2>2. QED
    BY <1>1, <2>1, LeftShrinks DEF M
<1>4. \A i \in h + 1 .. N : l(i) <= l(h + 1) /\ (i > h + 1 => l(i) < l(h + 1)) /\ l(i) \in Nat
  BY <1>1, <1>2, LeftShrinks DEF M
<1>5. l(h + 1) \in Nat /\ k + Ahead(model) > l(h + 1)
  BY <1>2, <1>3 DEF h
<1> HIDE DEF l
<1>6. ASSUME NEW i \in 1 .. N, i > h + Ahead(model) PROVE l(i) < k
  <2>1. i \in h + 1 .. N
    BY <1>1, <1>2, <1>6
  <2>2. CASE Ahead(model) = 0
    BY <1>4, <1>5, <2>1, <2>2
  <2>3. CASE Ahead(model) = 1
    <3>1. i > h + 1
      BY <1>1, <1>6, <2>3
    <3>2. l(i) < l(h + 1)
      BY <1>4, <2>1, <3>1
    <3>3. QED
      BY <1>4, <1>5, <2>1, <2>3, <3>2
  <2>4. QED
    BY <1>2, <2>2, <2>3
<1>7. h + Ahead(model) \in Nat
  BY <1>1, <1>2
<1>8. ArrivedOf(model, asked, k) <= h + Ahead(model)
  BY <1>2, <1>3, <1>6, <1>7, ArrivedFacts DEF l
<1>9. QED
  BY <1>8 DEF h

(* The read callback keeps it.                                             *)
LEMMA RequestsInvRead ==
  ASSUME RequestsInv, NEW n \in 1 .. Len(unsent), Requests!Read(n)
  PROVE  RequestsInv'
<1> DEFINE M == Requests!Message(model)
           b == buffer \o SubSeq(unsent, 1, n)
           u == Requests!Take(unsent, n)
           h == Len(handled)
           r == asked[h + 1]
           t == Requests!Text(model, r)
           rest == Left(model, asked, h + 1)
           before == ArrivedOf(model, asked, Len(unsent))
           after == ArrivedOf(model, asked, Len(u))
<1>0. /\ reading = "on" /\ unsent' = u /\ model' = model /\ asked' = asked
      /\ IF Requests!Check(model, b, n)
         THEN IF model = "HTTP" THEN Requests!HandleHttp(Requests!Checked("HTTP", b))
              ELSE Requests!HandleCounted(b)
         ELSE buffer' = b /\ UNCHANGED <<handled, reading>>
      /\ LET new == Requests!Arrived(Len(unsent) - n) - Requests!Arrived(Len(unsent))
         IN  surplus' = IF new > 1 THEN surplus + new - 1 ELSE surplus
  BY DEF Requests!Read, Requests!Checked
<1>1. /\ b \in Seq(Symbol) /\ u \in Seq(Symbol) /\ Len(b) >= 1
      /\ b \o u = Left(model, asked, h) /\ Len(u) = Len(unsent) - n
      /\ h < Len(asked) /\ h \in Nat /\ r \in M
      /\ t \in Seq(Symbol) /\ Len(t) > 0 /\ rest \in Seq(Symbol)
      /\ Len(b) + Len(u) = Len(t) + Len(rest)
      /\ \A i \in 1 .. Len(b) : i <= Len(t) => b[i] = t[i]
      /\ Len(b) >= Len(t) => /\ Requests!Take(b, Len(t)) \in Seq(Symbol)
                             /\ Requests!Take(b, Len(t)) \o u = rest
  BY <1>0, FirstWaiting
<1>2. /\ model \in {"HTTP", "FIXED", "LENGTH"} /\ asked \in Seq(M)
      /\ handled \in Seq({handled[i] : i \in DOMAIN handled})
      /\ surplus \in Nat /\ unsent \in Seq(Symbol) /\ Len(asked) \in Nat
      /\ HandledRight /\ before - h <= surplus + Ahead(model)
  <2>1. asked \in Seq(M)
    BY DEF RequestsInv, RequestsTyped
  <2> HIDE DEF M
  <2>2. Len(asked) \in Nat
    BY <2>1
  <2>3. QED
    BY <1>0, <2>1, <2>2 DEF RequestsInv, RequestsTyped, RestIsThere, FewWait
<1>3. /\ Len(b) \in Nat /\ Len(u) \in Nat /\ Len(t) \in Nat /\ Len(rest) \in Nat
      /\ Len(unsent) \in Nat /\ Len(u) <= Len(unsent)
  <2> HIDE DEF b, u, t, rest
  <2>1. QED
    BY <1>1, <1>2
<1>4. surplus' = IF after - before > 1 THEN surplus + (after - before) - 1 ELSE surplus
  <2>1. /\ Requests!Arrived(Len(unsent) - n) = ArrivedOf(model, asked, Len(unsent) - n)
        /\ Requests!Arrived(Len(unsent)) = ArrivedOf(model, asked, Len(unsent))
    BY ArrivedIs
  <2>2. QED
    BY <1>0, <1>1, <2>1
<1>5. before \in Nat /\ after \in Nat /\ before <= after
  <2>1. \A i \in 1 .. Len(asked) : Len(Left(model, asked, i)) \in Nat
    <3> HIDE DEF M
    <3>1. \A i \in 1 .. Len(asked) : 0 \in 0 .. Len(asked) /\ i \in 0 .. Len(asked)
      BY <1>2
    <3>2. QED
      BY <1>2, <3>1, LeftShrinks DEF M
  <2> HIDE DEF u
  <2>2. QED
    BY <1>2, <1>3, <2>1, ArrivedFacts
<1>6. Requests!Check(model, b, n) <=> Len(b) >= Len(t) + Ahead(model)
  BY <1>1, <1>2, CheckIs DEF Ahead
<1>7. Ahead(model) \in {0, 1}
  BY DEF Ahead
<1> HIDE DEF M, b, u, h, r, t, rest, before, after
<1>8. surplus' \in Nat
  BY <1>2, <1>4, <1>5
<1>9. CASE ~ Requests!Check(model, b, n)
  <2>1. buffer' = b /\ handled' = handled /\ reading' = "on"
    BY <1>0, <1>9
  <2>2. RequestsTyped'
    BY <1>0, <1>1, <1>2, <1>8, <2>1 DEF RequestsTyped, h, M
  <2>3. RestIsThere'
    BY <1>0, <1>1, <2>1 DEF RestIsThere, h
  <2>4. HandledRight'
    BY <1>0, <1>2, <2>1 DEF HandledRight, Requests!Simple
  <2>5. after <= h + Ahead(model)
    <3>1. Len(u) + Ahead(model) > Len(rest)
      BY <1>1, <1>3, <1>6, <1>7, <1>9
    <3>2. QED
      BY <1>1, <1>3, <3>1, NoneWaits DEF h, rest, after
  <2>6. FewWait'
    <3>1. after - h <= surplus' + Ahead(model)
      BY <1>1, <1>5, <1>7, <1>8, <2>5
    <3>2. QED
      BY <1>0, <2>1, <3>1 DEF FewWait, h, after
  <2>7. QED
    BY <2>2, <2>3, <2>4, <2>6 DEF RequestsInv
<1>10. CASE Requests!Check(model, b, n)
  <2>1. Len(b) >= Len(t)
    BY <1>3, <1>6, <1>7, <1>10
  <2>2. \/ /\ model = "HTTP" /\ r.headers = <<Requests!Words>>
           /\ handled' = handled /\ reading' = "lost"
        \/ HandledIs(r, b)
    <3>1. CASE model = "HTTP"
      <4>1. r \in Requests!Message("HTTP") /\ t = Requests!Text("HTTP", r)
        BY <1>1, <3>1 DEF M, t
      <4>2. RequestAt(t, r, Len(t), "lf")
        BY <4>1, TextOfRequest
      <4>3. /\ Len(t) \in 1 .. Len(b) /\ (\A i \in 1 .. Len(t) - 1 : b[i] = t[i])
            /\ b[Len(t)] = t[Len(t)]
        <5>1. Len(t) \in 1 .. Len(b) /\ Len(t) <= Len(t)
          BY <1>1, <1>3, <2>1
        <5>2. \A i \in 1 .. Len(t) - 1 : i \in 1 .. Len(b) /\ i <= Len(t)
          BY <1>3, <2>1
        <5>3. QED
          BY <1>1, <5>1, <5>2
      <4>4. RequestAt(b, r, Len(t), "lf")
        <5>1. t[Len(t)] = "lf"
          BY <4>2 DEF RequestAt
        <5>2. QED
          BY <1>3, <4>2, <4>3, <5>1, SameRequest
      <4>5. Requests!HandleHttp(Requests!Checked("HTTP", b))
        BY <1>0, <1>10, <3>1
      <4>6. QED
        BY <1>1, <3>1, <4>1, <4>3, <4>4, <4>5, HttpHandled
    <3>2. CASE model # "HTTP"
      <4>1. model \in {"FIXED", "LENGTH"} /\ r \in Requests!Message(model)
        BY <1>1, <1>2, <3>2 DEF M
      <4>2. b[1] = Requests!Text(model, r)[1]
        <5>1. 1 \in 1 .. Len(b) /\ 1 <= Len(t)
          BY <1>1, <1>3
        <5>2. QED
          BY <1>1, <5>1 DEF t
      <4>3. Requests!HandleCounted(b)
        BY <1>0, <1>10, <3>2
      <4>4. QED
        BY <1>0, <1>1, <4>1, <4>2, <4>3, CountedHandled
    <3>3. QED
      BY <3>1, <3>2
  <2>3. CASE /\ model = "HTTP" /\ r.headers = <<Requests!Words>>
             /\ handled' = handled /\ reading' = "lost"
    <3>1. RequestsTyped'
      BY <1>0, <1>1, <1>2, <1>8, <2>3 DEF RequestsTyped, h, M
    <3>2. RestIsThere'
      BY <1>0, <1>1, <2>3 DEF RestIsThere, h, r
    <3>3. HandledRight'
      BY <1>0, <1>2, <2>3 DEF HandledRight, Requests!Simple
    <3>4. FewWait'
      BY <2>3 DEF FewWait
    <3>5. QED
      BY <3>1, <3>2, <3>3, <3>4 DEF RequestsInv
  <2>4. CASE HandledIs(r, b)
    <3>1. PICK x : /\ handled' = Append(handled, x)
                   /\ Requests!Simple(r) => x = r
                   /\ model = "HTTP" => x.url = r.url
      BY <2>4 DEF HandledIs
    <3>2. (reading' = "on" \/ reading' = "off") /\ buffer' = Requests!Take(b, Len(t))
      BY <2>4 DEF HandledIs, t
    <3>3. /\ handled' \in Seq({handled'[i] : i \in DOMAIN handled'})
          /\ Len(handled') = h + 1 /\ handled'[h + 1] = x
          /\ \A i \in 1 .. h : handled'[i] = handled[i]
      <4> DEFINE S == {handled[i] : i \in DOMAIN handled}
      <4>1. handled \in Seq(S)
        BY <1>2
      <4> HIDE DEF S
      <4>2. QED
        BY <3>1, <4>1, Appended DEF h
    <3>4. RequestsTyped'
      <4>1. model \in {"HTTP", "FIXED", "LENGTH"} /\ asked \in Seq(Requests!Message(model))
        BY <1>2 DEF M
      <4>2. model' = model /\ asked' = asked
        BY <1>0
      <4>3. Len(handled') <= Len(asked)
        <5>1. Len(asked) \in Nat /\ h + 1 <= Len(asked)
          BY <1>1, <1>2
        <5>2. QED
          BY <3>3, <5>1
      <4>4. surplus' \in Nat /\ reading' \in {"on", "off", "lost"}
        BY <1>8, <3>2
      <4>5. QED
        BY <3>3, <4>1, <4>2, <4>3, <4>4 DEF RequestsTyped
    <3>5. RestIsThere'
      BY <1>0, <1>1, <2>1, <3>2, <3>3 DEF RestIsThere, rest
    <3>6. HandledRight'
      <4>1. ASSUME NEW i \in 1 .. Len(handled')
            PROVE  /\ Requests!Simple(asked[i]) => handled'[i] = asked[i]
                   /\ model = "HTTP" => handled'[i].url = asked[i].url
        <5>1. CASE i = h + 1
          BY <3>1, <3>3, <5>1 DEF r
        <5>2. CASE i \in 1 .. h
          BY <1>2, <3>3, <5>2 DEF HandledRight, h
        <5>3. QED
          BY <1>1, <3>3, <5>1, <5>2
      <4>2. QED
        BY <1>0, <4>1 DEF HandledRight, Requests!Simple
    <3>7. FewWait'
      <4>1. after - (h + 1) <= surplus' + Ahead(model)
        <5>1. h \in Nat /\ surplus \in Nat /\ before - h <= surplus + Ahead(model)
          BY <1>1, <1>2
        <5>2. QED
          BY <1>4, <1>5, <1>7, <5>1
      <4>2. Len(handled') = h + 1 /\ model' = model /\ asked' = asked /\ unsent' = u
        BY <1>0, <3>3
      <4>3. QED
        BY <4>1, <4>2 DEF FewWait, after
    <3>8. QED
      BY <3>4, <3>5, <3>6, <3>7 DEF RequestsInv
  <2>5. QED
    BY <2>2, <2>3, <2>4
<1>11. QED
  BY <1>9, <1>10

(* The part Requests of MCParts runs as Requests does.                     *)
LEMMA PartIsRequests == PartsSpec => Requests!Spec
<1>1. PartsInit => Requests!Init
  BY DEF PartsInit
<1>2. [PartsNext]_partsVars
        => [Requests!Next]_Requests!vars
  BY DEF PartsNext, partsVars, otherVars, requestVars, Requests!vars
<1>3. QED
  BY <1>1, <1>2, PTL DEF PartsSpec, Requests!Spec

(* The invariant holds in all behaviours of Requests.                      *)
LEMMA RequestsInvAlways == Requests!Spec => []RequestsInv
<1>1. RequestsInv /\ [Requests!Next]_Requests!vars => RequestsInv'
  <2> SUFFICES ASSUME RequestsInv, [Requests!Next]_Requests!vars PROVE RequestsInv'
    OBVIOUS
  <2>1. CASE Requests!Next
    BY <2>1, RequestsInvRead DEF Requests!Next
  <2>2. CASE UNCHANGED Requests!vars
    BY <2>2 DEF Requests!vars, RequestsInv, RequestsTyped, RestIsThere, HandledRight, FewWait,
      Requests!Simple
  <2>3. QED
    BY <2>1, <2>2
<1>2. QED
  BY <1>1, RequestsInvInit, PTL DEF Requests!Spec

(* The read callback is given the messages as the peer has sent them, in   *)
(* their order, however TCP cuts them (HttpServer.h:93-124, Codec.h:40-75):*)
(* no state of the connection has handled another one.                     *)
THEOREM RequestsAreHandled == PartsSpec => []HandledAsAsked
<1>1. RequestsInv => HandledAsAsked
  BY DEF RequestsInv, RequestsTyped, HandledRight, HandledAsAsked, Requests!HandledAsAsked
<1>2. QED
  BY <1>1, PartIsRequests, RequestsInvAlways, PTL

(* Each message leaves the buffer whole, and nothing of the next one with  *)
(* it (HttpServer.h:113-118), unless its last header has several words.    *)
THEOREM FramesAreKept == PartsSpec => []FramingKept
<1>1. RequestsInv => FramingKept
  <2> SUFFICES ASSUME RequestsInv PROVE Requests!FramingKept
    BY DEF FramingKept
  <2>1. CASE reading = "lost"
    <3>1. asked[Len(handled) + 1].headers = <<Requests!Words>>
      BY <2>1 DEF RequestsInv, RestIsThere
    <3>2. Requests!Last(<<Requests!Words>>) = Requests!Words
      BY DEF Requests!Last
    <3>3. QED
      BY <2>1, <3>1, <3>2 DEF Requests!FramingKept
  <2>2. CASE reading # "lost"
    BY <2>2 DEF RequestsInv, RestIsThere, Requests!FramingKept, Left
  <2>3. QED
    BY <2>1, <2>2
<1>2. QED
  BY <1>1, PartIsRequests, RequestsInvAlways, PTL

(* A complete message of a model without a fixed length waits in the       *)
(* buffer only for one that arrived with it (TcpServer.h:161); of a fixed  *)
(* length there is one more, that waits for the byte after it (Codec.h:62).*)
THEOREM SurplusWaits == PartsSpec => []WaitsForSurplus
<1>1. RequestsInv => WaitsForSurplus
  <2> SUFFICES ASSUME RequestsInv PROVE Requests!WaitsForSurplus
    BY DEF WaitsForSurplus
  <2>1. Requests!Arrived(Len(unsent)) = ArrivedOf(model, asked, Len(unsent))
    BY ArrivedIs
  <2>2. model # "FIXED" => Ahead(model) = 0 /\ surplus \in Nat
    BY DEF Ahead, RequestsInv, RequestsTyped
  <2>3. QED
    BY <2>1, <2>2 DEF RequestsInv, FewWait, Requests!WaitsForSurplus
<1>2. QED
  BY <1>1, PartIsRequests, RequestsInvAlways, PTL
==============================================================================
