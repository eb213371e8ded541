----------------------------- MODULE MCTcpClient -----------------------------
(***************************************************************************)
(* TcpClient and a Buffer side by side for TLC: TcpClient counts the bytes *)
(* that Buffer keeps.  The initial state chooses the part that runs; the   *)
(* other one stays in its initial state, in which no fair step is enabled. *)
(***************************************************************************)
EXTENDS TcpClient, Buffer, SequencesExt

CONSTANT MaxChunk   (* the longest byte string appended or read at once *)

VARIABLE part

Bits == {0, 1}

Chunks == BoundedSeq(Bits, MaxChunk)

ClientInit ==
  /\ part \in {"TcpClient", "Buffer"}
  /\ Init
  /\ BufferInit

ClientNext ==
  \/ /\ part = "TcpClient"
     /\ Next
     /\ UNCHANGED <<part, bufferVars>>
  \/ /\ part = "Buffer"
     /\ BufferNext
     /\ UNCHANGED <<part, vars>>

(* Nobody has to call a Buffer: it has no fairness.                        *)
ClientSpec ==
  ClientInit /\ [][ClientNext]_<<part, vars, bufferVars>> /\ Fairness
=============================================================================
