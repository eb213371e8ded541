--------------------------------- MODULE Timer ---------------------------------
(***************************************************************************)
(* Timer and TimerHandler (src/src/Timer.h, Timer.cpp) on the thread of    *)
(* their loop, with the timerfds of the kernel: timers are added, expire,  *)
(* are reset and cancelled by callbacks of the loop, between the events of *)
(* one batch and by the task of a timer too, and descriptor numbers are    *)
(* used again.                                                             *)
(*                                                                         *)
(* cancelTimer ends in shared_from_this(), which throws: TimerHandler      *)
(* derives from enable_shared_from_this privately, so no shared_ptr tells  *)
(* it its owner.  The program modelled catches that exception; another one *)
(* ends with the first cancel.                                             *)
(***************************************************************************)
EXTENDS Integers, FiniteSets

CONSTANT
  Handler          (* the timers the program adds, each once               *)

VARIABLES
  fds,             (* kernel: the timerfd behind each descriptor number    *)
  timer,           (* the TimerHandler and Event of each timer             *)
  um,              (* um_ of the ConcurrentMap: number -> timer            *)
  batch,           (* what poll() returned and is still to be handled      *)
  inTask,          (* the single timer whose task the loop runs            *)
  blocked,         (* the timer in whose read(2) the loop waits            *)
  status           (* of the process: "running", "ended" or "dead"         *)

vars == <<fds, timer, um, batch, inTask, blocked, status>>

(* As many numbers as timers are enough; 0 is the console.                 *)
Fd   == 1 .. Cardinality(Handler)
None == "none"

(* armed, periodic: its setting; expired: has read(2) something to return? *)
(* registered: the timer whose Event the epoller has for it.               *)
Closed == [open |-> FALSE, armed |-> FALSE, periodic |-> FALSE, expired |-> FALSE,
           registered |-> None]

(* kind: "timed" or "one"; timerfd: timerfd_; fd: fd_ of the event.        *)
(* History: interval, what the program asked for; ran, its task was called *)
(* once; cancelled; copied, what was cancelled was a copy; reset; late, it *)
(* ran after its cancel; heir, the task of a timer that was cancelled has  *)
(* added it, and it was given the number of that timer.                    *)
NoTimer == [kind |-> None, timerfd |-> 0, fd |-> 0, interval |-> 0, ran |-> FALSE,
            cancelled |-> FALSE, copied |-> FALSE, reset |-> FALSE, late |-> FALSE,
            heir |-> FALSE]

Init ==
  /\ fds = [f \in Fd |-> Closed]
  /\ timer = [h \in Handler |-> NoTimer]
  /\ um = [f \in Fd |-> None]
  /\ batch = {}
  /\ inTask = None
  /\ blocked = None
  /\ status = "running"

(* The program is in a callback, or the loop between two of them; no       *)
(* callback of a single timer is at work.                                  *)
Running  == status = "running" /\ blocked = None
Handling == Running /\ inTask = None

-----------------------------------------------------------------------------
(* Calls of the program, from callbacks of the loop: tasks of timers too.  *)

(* timerfd_create, timerfd_settime, Event::make, setReadable, and          *)
(* ConcurrentMap::add: insert() leaves a key that is there as it is.       *)
Add(h, kind, armed, interval) ==
  /\ Running
  /\ timer[h].kind = None
  /\ \E f \in {g \in Fd : ~ fds[g].open} :
       /\ fds' = [fds EXCEPT ![f] =
                    [open |-> TRUE, armed |-> armed, periodic |-> armed /\ interval > 0,
                     expired |-> FALSE, registered |-> h]]
       /\ timer' = [timer EXCEPT ![h] =
                      [NoTimer EXCEPT !.kind = kind, !.timerfd = f, !.fd = f,
                         !.interval = interval,
                         !.heir = inTask # None /\ timer[inTask].fd = f]]
       /\ um' = IF um[f] = None THEN [um EXCEPT ![f] = h] ELSE um
  /\ UNCHANGED <<batch, inTask, blocked, status>>

(* addTimedTask sets a first time of 0 to 1, so that it is always armed;   *)
(* with an interval of 0 it fires once.                                    *)
AddTimedTask(h, interval) == Add(h, "timed", TRUE, interval)

(* addOneTask does not: a time of 0 disarms the timerfd.                   *)
AddOneTask(h, time) == Add(h, "one", time > 0, 0)

(* A slip: the timerfd keeps its interval, and what had expired.           *)
ResetKeeps(h, time) ==
  /\ Running
  /\ timer[h].timerfd # 0
  /\ fds' = [fds EXCEPT ![timer[h].timerfd].armed = time > 0]
  /\ UNCHANGED <<timer, um, batch, inTask, blocked, status>>

(* resetOneTask: the interval is 0 from now on, and an expiration that was *)
(* not read yet is gone.                                                   *)
ResetOneTask(h, time) ==
  /\ Running
  /\ timer[h].timerfd # 0
  /\ LET f == timer[h].timerfd IN
       fds' = [fds EXCEPT ![f].armed = fds[f].open /\ time > 0,
                          ![f].periodic = FALSE, ![f].expired = FALSE]
  /\ timer' = [timer EXCEPT ![h].reset = TRUE]
  /\ UNCHANGED <<um, batch, inTask, blocked, status>>

(* Slips: timerfd_ is not set to 0; the timerfd is neither disarmed nor    *)
(* closed.                                                                 *)
CancelKeepsFd(h) ==
  /\ Running
  /\ timer[h].timerfd # 0
  /\ fds' = [fds EXCEPT ![timer[h].timerfd] = Closed]
  /\ timer' = [timer EXCEPT ![h].cancelled = TRUE]
  /\ UNCHANGED <<um, batch, inTask, blocked, status>>

CancelForgets(h) ==
  /\ Running
  /\ timer[h].timerfd # 0
  /\ timer' = [timer EXCEPT ![h].timerfd = 0, ![h].cancelled = TRUE]
  /\ UNCHANGED <<fds, um, batch, inTask, blocked, status>>

(* cancelTimer: nothing for a timer without descriptor, else disarm,       *)
(* removeEvent and close; removeTimer is not reached, so the entry in the  *)
(* map stays.                                                              *)
CancelTimer(h) ==
  /\ Running
  /\ timer[h].timerfd # 0
  /\ fds' = [fds EXCEPT ![timer[h].timerfd] = Closed]
  /\ timer' = [timer EXCEPT ![h].timerfd = 0, ![h].cancelled = TRUE]
  /\ UNCHANGED <<um, batch, inTask, blocked, status>>

(* TcpServer::cancelTimer has it by value: the timerfd_ that is set to 0   *)
(* is the one of a copy.                                                   *)
CancelCopy(h) ==
  /\ Running
  /\ timer[h].timerfd # 0
  /\ fds' = [fds EXCEPT ![timer[h].timerfd] = Closed]
  /\ timer' = [timer EXCEPT ![h].cancelled = TRUE, ![h].copied = TRUE]
  /\ UNCHANGED <<um, batch, inTask, blocked, status>>

(* ~ConcurrentMap cancels what is in the map; the exception of the first   *)
(* one that has a descriptor ends the process.                             *)
Destructor ==
  /\ Handling
  /\ batch = {}
  /\ status' = IF \E f \in Fd : um[f] # None /\ timer[um[f]].timerfd # 0
               THEN "dead" ELSE "ended"
  /\ UNCHANGED <<fds, timer, um, batch, inTask, blocked>>

-----------------------------------------------------------------------------
(* The kernel and the loop.                                                *)

Expire(f) ==
  /\ fds[f].armed
  /\ fds' = [fds EXCEPT ![f].expired = TRUE, ![f].armed = fds[f].periodic]
  /\ UNCHANGED <<timer, um, batch, inTask, blocked, status>>

Ready == {f \in Fd : fds[f].registered # None /\ fds[f].expired}

Poll ==
  /\ Handling
  /\ batch = {}
  /\ Ready # {}
  /\ batch' = {fds[f].registered : f \in Ready}
  /\ UNCHANGED <<fds, timer, um, inTask, blocked, status>>

(* The read callback of timer h once read(2) has returned: the task runs,  *)
(* which is the last thing that the callback of a timed one does.          *)
RunTask(h) ==
  /\ timer' = [timer EXCEPT ![h].ran = TRUE,
                            ![h].late = @ \/ timer[h].cancelled]
  /\ fds' = [fds EXCEPT ![timer[h].fd].expired = FALSE]
  /\ batch' = batch \ {h}
  /\ inTask' = IF timer[h].kind = "one" THEN h ELSE None

(* The task of a single timer returns: whatever event is registered for    *)
(* its number is removed.                                                  *)
EndTask(h) ==
  /\ Running
  /\ inTask = h
  /\ inTask' = None
  /\ fds' = [fds EXCEPT ![timer[h].fd].registered = None]
  /\ UNCHANGED <<timer, um, batch, blocked, status>>

(* read(2) returns: the timer has expired, or the descriptor was closed.   *)
HandleExpired(h) ==
  /\ Handling
  /\ h \in batch
  /\ fds[timer[h].fd].expired \/ ~ fds[timer[h].fd].open
  /\ RunTask(h)
  /\ UNCHANGED <<um, blocked, status>>

(* read(2) has nothing to return: it was reset since the poll, or its      *)
(* number has a new owner.  The loop waits in the call.                    *)
HandleBlocks(h) ==
  /\ Handling
  /\ h \in batch
  /\ fds[timer[h].fd].open /\ ~ fds[timer[h].fd].expired
  /\ blocked' = h
  /\ UNCHANGED <<fds, timer, um, batch, inTask, status>>

(* ... until that descriptor expires.                                      *)
Unblock(h) ==
  /\ blocked = h
  /\ fds[timer[h].fd].expired
  /\ RunTask(h)
  /\ blocked' = None
  /\ UNCHANGED <<um, status>>

-----------------------------------------------------------------------------
Call(h) ==
  \/ \E time \in {0, 1} :
       AddTimedTask(h, time) \/ AddOneTask(h, time) \/ ResetOneTask(h, time)
  \/ CancelTimer(h) \/ CancelCopy(h)

LoopStep ==
  \/ Poll
  \/ \E h \in Handler :
       HandleExpired(h) \/ EndTask(h) \/ HandleBlocks(h) \/ Unblock(h)

Next ==
  \/ LoopStep \/ Destructor
  \/ \E f \in Fd : Expire(f)
  \/ \E h \in Handler : Call(h)

Spec == Init /\ [][Next]_vars

(***************************************************************************)
(* Fairness.  Time passes for what is armed, the loop has a thread, and    *)
(* the tasks of the program return.                                        *)
(***************************************************************************)
Fairness == WF_vars(LoopStep) /\ \A f \in Fd : WF_vars(Expire(f))

FairSpec == Spec /\ Fairness

-----------------------------------------------------------------------------
(* Properties.                                                             *)

(* A timer that its program still waits for: not cancelled, and single     *)
(* ones have not run.                                                      *)
Waiting(h) ==
  /\ timer[h].kind # None
  /\ ~ timer[h].cancelled
  /\ timer[h].kind = "one" => ~ timer[h].ran

(* A timer that had the same number before: its event was in the batch     *)
(* when it was cancelled (Timer.cpp:50, 84), or it was cancelled as a copy *)
(* and still has the number in its timerfd_ (TcpServer.h:97), or its own   *)
(* task has cancelled it and added this one, before the number was         *)
(* unregistered (Timer.cpp:49-51).                                         *)
Robbed(h) ==
  \/ timer[h].heir
  \/ \E g \in Handler \ {h} :
       (timer[g].late \/ timer[g].copied) /\ timer[g].fd = timer[h].fd

(* Cancels, expirations, new timers and the calls of their own tasks leave *)
(* the others alone: a timer that is waited for has its own descriptor,    *)
(* periodic if it was meant to be, with its own event on it, although the  *)
(* numbers are used again (Timer.cpp:75, 84-86).                           *)
OwnDescriptor ==
  \A h \in Handler :
    Waiting(h) /\ ~ Robbed(h) =>
      /\ fds[timer[h].timerfd].open
      /\ timer[h].interval > 0 /\ ~ timer[h].reset => fds[timer[h].fd].periodic
      /\ fds[timer[h].fd].registered = h

(* A cancelled timer is over (Timer.cpp:83): its event is in no batch any  *)
(* more once the one that the loop was handling at the cancel is done.     *)
CancelIsFinal ==
  [][\A h \in Handler : timer[h].cancelled /\ h \notin batch => h \notin batch']_vars

(* The loop waits for ever at most in the read(2) of such a timer: one     *)
(* that was reset, cancelled or robbed between the poll and its turn.      *)
Held(g) ==
  blocked = g /\ (timer[g].reset \/ timer[g].cancelled \/ Robbed(g))

(* A single timer with a time runs, unless it is cancelled, reset or       *)
(* robbed, or the loop is held (Timer.cpp:25, 48).                         *)
OneTaskRuns ==
  \A h \in Handler :
    timer[h].kind = "one" /\ fds[timer[h].fd].armed /\ ~ Robbed(h) ~>
      \/ timer[h].ran \/ timer[h].cancelled \/ timer[h].reset \/ Robbed(h)
      \/ (\E g \in Handler : Held(g)) \/ status # "running"
=============================================================================
