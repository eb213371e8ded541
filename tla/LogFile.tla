-------------------------------- MODULE LogFile --------------------------------
(***************************************************************************)
(* What the asynchronous Logger promises to the threads that log, with     *)
(* nothing said about buffers, the back thread or the mutex: a message is  *)
(* accepted once, and what reaches the file are accepted messages, each of *)
(* them once.  Nothing is said of their order: two back threads may write  *)
(* the buffers they took in either order.                                  *)
(***************************************************************************)
EXTENDS Integers, Sequences

CONSTANT Msg       (* the messages, each logged at most once *)

VARIABLES
  pending,         (* accepted and not written yet           *)
  written          (* the file                               *)

vars == <<pending, written>>

InFile(m) == \E i \in DOMAIN written : written[i] = m

Init ==
  /\ pending = {}
  /\ written = <<>>

Accept(m) ==
  /\ m \notin pending
  /\ ~ InFile(m)
  /\ pending' = pending \union {m}
  /\ UNCHANGED written

(* Some accepted messages are appended to the file.                        *)
Write ==
  LET new == Len(written) + 1 .. Len(written') IN
  /\ Len(written) < Len(written')
  /\ \A i \in 1 .. Len(written) : written'[i] = written[i]
  /\ \A i \in new : written'[i] \in pending
  /\ \A i, j \in new : written'[i] = written'[j] => i = j
  /\ pending' = pending \ {written'[i] : i \in new}

Next == (\E m \in Msg : Accept(m)) \/ Write

Spec == Init /\ [][Next]_vars
=============================================================================
