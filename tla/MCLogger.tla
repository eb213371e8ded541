------------------------------ MODULE MCLogger ------------------------------
(* Instances of Logger for TLC.                                            *)
EXTENDS Logger

CONSTANTS m1, m2, m3, m4

(* Two messages share a buffer of three bytes, a third does not fit, and   *)
(* m4 is longer than a buffer.                                             *)
Sizes == [m \in Msg |-> CASE m = m1 -> 1 [] m = m2 -> 1 [] m = m3 -> 2 [] m = m4 -> 4]
=============================================================================
