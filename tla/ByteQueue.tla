------------------------------ MODULE ByteQueue ------------------------------
(***************************************************************************)
(* What Buffer promises to the code that fills and drains it, with nothing *)
(* said about the vector, its indices, growth or compaction: bytes come    *)
(* out in the order in which they went in, unchanged, each of them once.   *)
(***************************************************************************)
EXTENDS Integers, Sequences

CONSTANT Chunk     (* the byte strings that one append or one read(2) adds *)

VARIABLE content   (* the readable bytes, oldest first *)

Init == content = <<>>

Put(s) == content' = content \o s

Take(n) == content' = SubSeq(content, n + 1, Len(content))

Next ==
  \/ \E s \in Chunk : Put(s)
  \/ \E n \in 0 .. Len(content) : Take(n)

Spec == Init /\ [][Next]_content
=============================================================================
