------------------------------- MODULE MCTiming -------------------------------
(***************************************************************************)
(* What time sets off, side by side for TLC: TimeWheeling and Timer share  *)
(* nothing.  The initial state chooses the part that runs, and the other   *)
(* one stays in its own initial state, in which no fair step is enabled    *)
(* but the tick of the wheel.                                              *)
(***************************************************************************)
EXTENDS TimeWheeling

CONSTANT Handler     (* of Timer                                           *)

VARIABLES part, fds, timer, um, batch, inTask, blocked, status

Timer == INSTANCE Timer

(* The program adds finitely many timers, and each of them is one.         *)
ASSUME TimingAssumption == IsFiniteSet(Handler) /\ Timer!None \notin Handler

timerVars  == <<fds, timer, um, batch, inTask, blocked, status>>
timingVars == <<part, vars, timerVars>>

TimingInit ==
  /\ part \in {"Wheel", "Timer"}
  /\ Init
  /\ Timer!Init

TimingNext ==
  \/ /\ part = "Wheel"
     /\ Next
     /\ UNCHANGED <<part, timerVars>>
  \/ /\ part = "Timer"
     /\ Timer!Next
     /\ UNCHANGED <<part, vars>>

(* The fairness of TimeWheeling, for the behaviors in which it runs, and   *)
(* that of Timer.                                                          *)
TimingSpec ==
  /\ TimingInit
  /\ [][TimingNext]_timingVars
  /\ WF_vars(part = "Wheel" /\ Sweep)
  /\ \A c \in Conn : WF_vars(RunTask(c) /\ c \notin unheard)
  /\ Timer!Fairness

-----------------------------------------------------------------------------
(* The properties of the parts.                                            *)

(* Timer.cpp:75, 84-86: a timer that is waited for has its descriptor and  *)
(* its event, although the numbers are used again.                         *)
OwnDescriptor == Timer!OwnDescriptor

(* Timer.cpp:83: a cancelled timer is over, but for the batch at hand.     *)
CancelIsFinal == Timer!CancelIsFinal

(* Timer.cpp:46-49: a single timer runs.                                   *)
OneTaskRuns == Timer!OneTaskRuns
=============================================================================
