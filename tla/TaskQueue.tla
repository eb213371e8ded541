------------------------------ MODULE TaskQueue ------------------------------
(***************************************************************************)
(* What EventLoop promises to the callers of runInLoop, with nothing said  *)
(* about threads, the epoll instance or the wake-up descriptor: a task is  *)
(* accepted once, tasks wait in the order in which they were accepted, and *)
(* the loop executes the oldest waiting one, once.                         *)
(***************************************************************************)
EXTENDS Sequences

CONSTANT Task      (* the closures handed to runInLoop, each at most once *)

VARIABLES
  waiting,         (* accepted and not executed yet, oldest first *)
  done             (* executed, in the order of execution         *)

vars == <<waiting, done>>

Occurs(t, s) == \E i \in DOMAIN s : s[i] = t

Init ==
  /\ waiting = <<>>
  /\ done = <<>>

Submit(t) ==
  /\ ~ Occurs(t, waiting)
  /\ ~ Occurs(t, done)
  /\ waiting' = Append(waiting, t)
  /\ UNCHANGED done

Execute ==
  /\ waiting # <<>>
  /\ done' = Append(done, Head(waiting))
  /\ waiting' = Tail(waiting)

Next == (\E t \in Task : Submit(t)) \/ Execute

Spec == Init /\ [][Next]_vars
=============================================================================
