-------------------------------- MODULE Buffer --------------------------------
(***************************************************************************)
(* One Buffer<N> (src/src/Buffer.h): a vector of bytes, of which those     *)
(* between readIndex and writeIndex are readable.  The bytes before        *)
(* readIndex were retrieved and may be overwritten, those from writeIndex  *)
(* on are free.  A buffer has one owner, so a step is a whole call, except *)
(* that readFromSocket is one step per read(2): each full read makes it    *)
(* call itself with twice the limit, and the peer may send in between.     *)
(***************************************************************************)
EXTENDS Integers, Sequences

CONSTANTS
  N,               (* the template argument: the initial size              *)
  MaxBytes,        (* the limit of the first read(2), 4096 in the code     *)
  Byte,            (* the values of a char                                 *)
  Chunk,           (* the byte strings appended, or returned by a read(2)  *)
  MemcpyOrder,     (* how memcpy may walk over ranges that overlap         *)
  SizeMax,         (* the largest size_t: what -1 converts to              *)
  MaxSize          (* bound of the model on the vector                     *)

ASSUME BufferAssumption ==
  /\ N \in Nat \ {0}
  /\ MaxBytes \in Nat \ {0}
  /\ 0 \in Byte
  /\ Chunk \subseteq Seq(Byte)
  /\ MemcpyOrder \subseteq {"up", "down"}
  /\ MaxSize \in Nat
  /\ N <= MaxSize
  /\ SizeMax \in Nat
  /\ MaxSize < SizeMax

VARIABLES
  size,            (* vec_.size()                                          *)
  vec,             (* vec_                                                 *)
  readIndex,       (* readIndex_                                           *)
  writeIndex,      (* writeIndex_                                          *)
  pc,              (* "idle" between calls, "reading" in readFromSocket,   *)
                   (* "aborted" once an assert failed                      *)
  limit,           (* maxBytes of the innermost readFromSocket             *)
  failed           (* the assert that failed, "none" before                *)

bufferVars == <<size, vec, readIndex, writeIndex, pc, limit, failed>>

ReadableBytes == writeIndex - readIndex
WritableBytes == size - writeIndex

BufferInit ==
  /\ size = N
  /\ vec = [i \in 0 .. N - 1 |-> 0]
  /\ readIndex = 0
  /\ writeIndex = 0
  /\ pc = "idle"
  /\ limit = MaxBytes
  /\ failed = "none"

-----------------------------------------------------------------------------
(* Making room for len bytes behind writeIndex, as append and              *)
(* readFromSocket both do.                                                 *)

MustMove(len) == WritableBytes < len

(* Slips: growing by what is asked for only, and moving without growing.   *)
NewSizeForgetsReadable(len) ==
  IF MustMove(len) /\ readIndex < len
  THEN IF 2 * size >= len THEN 2 * size ELSE len
  ELSE size

NewSizeKeepsOld(len) ==
  IF MustMove(len) /\ readIndex < len THEN 4 * size + len ELSE size

(* The vector grows unless the discarded bytes alone are room enough.      *)
NewSize(len) ==
  IF MustMove(len) /\ readIndex < len
  THEN IF 2 * size >= len + ReadableBytes THEN 2 * size ELSE len + ReadableBytes
  ELSE size

(* A slip: the readable bytes stay where they are.                         *)
MovedNowhere(order, i) == vec[i]

(* memcpy(&vec_[0], &vec_[readIndex_], readableBytes()).  Where the ranges *)
(* overlap the result depends on the order in which memcpy copies: upwards *)
(* every byte is read before it is overwritten, downwards byte i holds     *)
(* what the last whole multiple of readIndex above it held.                *)
Moved(order, i) ==
  IF order = "up" \/ readIndex = 0
  THEN vec[readIndex + i]
  ELSE vec[ReadableBytes + ((i - ReadableBytes) % readIndex)]

(* The vector after room was made for len bytes.                           *)
Compacted(len, order) ==
  [i \in 0 .. NewSize(len) - 1 |->
     IF MustMove(len) /\ i < ReadableBytes THEN Moved(order, i)
     ELSE IF i < size THEN vec[i] ELSE 0]

StartAfter(len) == IF MustMove(len) THEN 0 ELSE readIndex

EndAfter(len) == IF MustMove(len) THEN ReadableBytes ELSE writeIndex

(* The bytes s written into mem from index at on.                          *)
Store(mem, at, s) ==
  [i \in DOMAIN mem |-> IF i \in at .. at + Len(s) - 1 THEN s[i - at + 1] ELSE mem[i]]

(* Room is made for len bytes and s, which is not longer, is put there.    *)
Fill(len, s) ==
  /\ NewSize(len) <= MaxSize
  /\ size' = NewSize(len)
  /\ \E order \in MemcpyOrder : vec' = Store(Compacted(len, order), EndAfter(len), s)
  /\ readIndex' = StartAfter(len)
  /\ writeIndex' = EndAfter(len) + Len(s)

Abort(assertion) ==
  /\ pc' = "aborted"
  /\ failed' = assertion

-----------------------------------------------------------------------------
(* append.  Its assert comes after the bytes were copied.                  *)
AppendBytes(s) ==
  /\ pc = "idle"
  /\ Fill(Len(s), s)
  /\ IF writeIndex' <= size' THEN UNCHANGED <<pc, failed>> ELSE Abort("append")
  /\ UNCHANGED limit

(* readFromSocket is called.                                               *)
ReadFromSocket ==
  /\ pc = "idle"
  /\ pc' = "reading"
  /\ limit' = MaxBytes
  /\ UNCHANGED <<size, vec, readIndex, writeIndex, failed>>

(* Room is made, and read(2) returns the bytes s, none of them at the end  *)
(* of the stream; it was full: the function calls itself.                  *)
ReadReturns(s) ==
  /\ pc = "reading"
  /\ Len(s) <= limit
  /\ Fill(limit, s)
  /\ IF size' - EndAfter(limit) < limit
     THEN Abort("room") /\ UNCHANGED limit
     ELSE /\ IF Len(s) = limit THEN pc' = "reading" /\ limit' = 2 * limit
                               ELSE pc' = "idle" /\ UNCHANGED limit
          /\ UNCHANGED failed

(* read(2) fails, with EAGAIN or another error: room was made all the same. *)
ReadFails ==
  /\ pc = "reading"
  /\ Fill(limit, <<>>)
  /\ IF size' - EndAfter(limit) < limit
     THEN Abort("room")
     ELSE pc' = "idle" /\ UNCHANGED failed
  /\ UNCHANGED limit

(* retrieve; retrieveAll is retrieve(readableBytes()).  The len that       *)
(* sendNonblock passes is -1, which is SizeMax here, when write(2) failed. *)
Retrieve(len) ==
  /\ pc = "idle"
  /\ IF len <= ReadableBytes
     THEN readIndex' = readIndex + len /\ UNCHANGED <<pc, failed>>
     ELSE Abort("retrieve") /\ UNCHANGED readIndex
  /\ UNCHANGED <<size, vec, writeIndex, limit>>

(* writeToSocket: write(2) takes n of the first MaxBytes readable bytes.   *)
(* With a full socket it returns -1, as with an error: the assert fails.   *)
WriteToSocket(n) ==
  /\ pc = "idle"
  /\ n <= ReadableBytes /\ n <= MaxBytes
  /\ IF n >= 0
     THEN readIndex' = readIndex + n /\ UNCHANGED <<pc, failed>>
     ELSE Abort("write") /\ UNCHANGED readIndex
  /\ UNCHANGED <<size, vec, writeIndex, limit>>

BufferNext ==
  \/ \E s \in Chunk : AppendBytes(s)
  \/ ReadFromSocket
  \/ \E s \in Chunk : ReadReturns(s)
  \/ ReadFails
  \/ \E len \in 0 .. MaxSize \union {SizeMax} : Retrieve(len)
  \/ \E n \in -1 .. MaxBytes : WriteToSocket(n)

BufferSpec == BufferInit /\ [][BufferNext]_bufferVars

-----------------------------------------------------------------------------
(* Properties.                                                             *)

(* The indices are ordered and lie within the vector, whatever the calls.  *)
BufferTypeOK ==
  /\ size \in N .. MaxSize
  /\ vec \in [0 .. size - 1 -> Byte]
  /\ readIndex \in 0 .. writeIndex
  /\ writeIndex \in 0 .. size
  /\ pc \in {"idle", "reading", "aborted"}
  /\ limit \in Nat
  /\ failed \in {"none", "append", "room", "retrieve", "write"}

(* The asserts behind append and before read(2) (Buffer.h:56 and :100) can *)
(* not fail: the room made is always enough, for the bytes kept and those  *)
(* to come, so no byte is written behind the vector.                       *)
RoomIsEnough == failed \notin {"append", "room"}

(* The bytes that peek() and readableBytes() give the reader.              *)
Content == [i \in 1 .. ReadableBytes |-> vec[readIndex + i - 1]]

Abstract == INSTANCE ByteQueue WITH content <- Content

(* The buffer is a queue of bytes: growth and compaction neither lose nor  *)
(* reorder nor overwrite a byte that has not been retrieved.               *)
ImplementsByteQueue == Abstract!Spec

(* How many bytes the call that makes this step asks room for.             *)
Asked == IF pc = "reading" THEN limit ELSE ReadableBytes' - ReadableBytes

(* Discarded bytes are reused before memory is: the vector only grows to   *)
(* less than four times the room asked for and twice the bytes it keeps.   *)
GrowthIsBounded ==
  [][size' # size => size' <= 4 * Asked + 2 * ReadableBytes]_bufferVars
=============================================================================
