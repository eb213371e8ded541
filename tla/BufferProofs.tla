----------------------------- MODULE BufferProofs -----------------------------
(***************************************************************************)
(* For every initial size, read limit, alphabet and set of byte strings:   *)
(* the indices of Buffer stay ordered within the vector, the room it makes *)
(* is always enough, growth is bounded, and, where memcpy copies upwards,  *)
(* the readable bytes are a queue.                                         *)
(***************************************************************************)
EXTENDS Buffer, TLAPS

-----------------------------------------------------------------------------
(* Making room.                                                            *)

(* The arithmetic of append and readFromSocket: the readable bytes keep    *)
(* their number, and len free bytes follow them.                           *)
LEMMA RoomArithmetic ==
  ASSUME BufferTypeOK, NEW len \in Nat
  PROVE  /\ NewSize(len) \in Nat
         /\ NewSize(len) >= size
         /\ StartAfter(len) \in 0 .. EndAfter(len)
         /\ EndAfter(len) - StartAfter(len) = ReadableBytes
         /\ EndAfter(len) \in Nat
         /\ EndAfter(len) + len <= NewSize(len)
         /\ ReadableBytes \in Nat
BY BufferAssumption
   DEF BufferTypeOK, NewSize, StartAfter, EndAfter, MustMove, ReadableBytes, WritableBytes

LEMMA ModRange ==
  ASSUME NEW a \in Int, NEW b \in Nat \ {0}
  PROVE  a % b \in 0 .. b - 1
OBVIOUS

(* Whatever memcpy does, it copies bytes of the vector.                    *)
LEMMA MovedType ==
  ASSUME BufferTypeOK, NEW order \in MemcpyOrder, NEW i \in 0 .. ReadableBytes - 1
  PROVE  Moved(order, i) \in Byte
<1>1. /\ readIndex \in Nat
      /\ ReadableBytes \in Nat
      /\ readIndex + ReadableBytes <= size
      /\ size \in Nat
      /\ vec \in [0 .. size - 1 -> Byte]
  BY BufferAssumption DEF BufferTypeOK, ReadableBytes
<1>2. readIndex + i \in 0 .. size - 1
  BY <1>1
<1>3. CASE readIndex = 0 \/ order = "up"
  BY <1>1, <1>2, <1>3 DEF Moved
<1>4. CASE readIndex # 0 /\ order # "up"
  <2>0. /\ i - ReadableBytes \in Int
        /\ readIndex \in Nat \ {0}
    BY <1>1, <1>4
  <2>1. (i - ReadableBytes) % readIndex \in 0 .. readIndex - 1
    <3> DEFINE a == i - ReadableBytes
    <3> HIDE DEF a
    <3>1. a \in Int
      BY <2>0 DEF a
    <3>2. a % readIndex \in 0 .. readIndex - 1
      BY <2>0, <3>1, ModRange
    <3>3. QED
      BY <3>2 DEF a
  <2>2. ReadableBytes + ((i - ReadableBytes) % readIndex) \in 0 .. size - 1
    BY <1>1, <2>1
  <2>3. QED
    BY <1>1, <1>4, <2>2 DEF Moved
<1>5. QED
  BY <1>3, <1>4

LEMMA CompactedType ==
  ASSUME BufferTypeOK, NEW len \in Nat, NEW order \in MemcpyOrder
  PROVE  Compacted(len, order) \in [0 .. NewSize(len) - 1 -> Byte]
<1>1. ASSUME NEW i \in 0 .. NewSize(len) - 1
      PROVE  (IF MustMove(len) /\ i < ReadableBytes THEN Moved(order, i)
              ELSE IF i < size THEN vec[i] ELSE 0) \in Byte
  <2>1. CASE MustMove(len) /\ i < ReadableBytes
    BY <2>1, MovedType, RoomArithmetic
  <2>2. CASE ~ (MustMove(len) /\ i < ReadableBytes)
    BY <2>2, BufferAssumption, RoomArithmetic DEF BufferTypeOK
  <2>3. QED
    BY <2>1, <2>2
<1>2. QED
  BY <1>1 DEF Compacted

LEMMA StoreType ==
  ASSUME NEW m \in Nat, NEW mem \in [0 .. m - 1 -> Byte], NEW at \in Nat,
         NEW s \in Seq(Byte)
  PROVE  Store(mem, at, s) \in [0 .. m - 1 -> Byte]
<1>1. \A i \in 0 .. m - 1 : i \in at .. at + Len(s) - 1 => s[i - at + 1] \in Byte
  OBVIOUS
<1>2. QED
  BY <1>1 DEF Store

(* A fill of at most the room asked for leaves a well-formed buffer.       *)
LEMMA FillType ==
  ASSUME BufferTypeOK, NEW len \in Nat, NEW s \in Seq(Byte), Len(s) <= len,
         Fill(len, s)
  PROVE  /\ size' \in N .. MaxSize
         /\ vec' \in [0 .. size' - 1 -> Byte]
         /\ readIndex' \in 0 .. writeIndex'
         /\ writeIndex' \in 0 .. size'
<1>1. PICK order \in MemcpyOrder : vec' = Store(Compacted(len, order), EndAfter(len), s)
  BY DEF Fill
<1>2. /\ size' = NewSize(len)
      /\ NewSize(len) <= MaxSize
      /\ readIndex' = StartAfter(len)
      /\ writeIndex' = EndAfter(len) + Len(s)
  BY DEF Fill
<1>3. Len(s) \in Nat
  OBVIOUS
<1>4. /\ NewSize(len) \in Nat
      /\ NewSize(len) >= size
      /\ StartAfter(len) \in 0 .. EndAfter(len)
      /\ EndAfter(len) \in Nat
      /\ EndAfter(len) + len <= NewSize(len)
  BY RoomArithmetic
<1>5. size' \in N .. MaxSize
  BY <1>2, <1>4, BufferAssumption DEF BufferTypeOK
<1>6. vec' \in [0 .. size' - 1 -> Byte]
  BY <1>1, <1>2, CompactedType, RoomArithmetic, StoreType
<1>7. /\ readIndex' \in 0 .. writeIndex'
      /\ writeIndex' \in 0 .. size'
  BY <1>2, <1>3, <1>4
<1>8. QED
  BY <1>5, <1>6, <1>7

(* Neither assert fails.                                                   *)
LEMMA FillRoom ==
  ASSUME BufferTypeOK, NEW len \in Nat, NEW s \in Seq(Byte), Len(s) <= len,
         Fill(len, s)
  PROVE  /\ writeIndex' <= size'
         /\ ~ (size' - EndAfter(len) < len)
<1>1. /\ size' = NewSize(len)
      /\ writeIndex' = EndAfter(len) + Len(s)
  BY DEF Fill
<1>2. /\ NewSize(len) \in Nat
      /\ EndAfter(len) \in Nat
      /\ EndAfter(len) + len <= NewSize(len)
  BY RoomArithmetic
<1>3. Len(s) \in Nat
  OBVIOUS
<1>4. QED
  BY <1>1, <1>2, <1>3

-----------------------------------------------------------------------------
(* The invariant is inductive as it stands.                                *)

Inv == BufferTypeOK /\ RoomIsEnough

LEMMA InvInductive ==
  ASSUME Inv, [BufferNext]_bufferVars
  PROVE  Inv'
<1> USE DEF Inv, RoomIsEnough
<1>0. /\ limit \in Nat
      /\ \A s \in Chunk : s \in Seq(Byte) /\ Len(s) \in Nat
  BY BufferAssumption DEF BufferTypeOK
<1>1. ASSUME NEW s \in Chunk, AppendBytes(s)
      PROVE  Inv'
  <2>1. Fill(Len(s), s) /\ pc = "idle" /\ limit' = limit
    BY <1>1 DEF AppendBytes
  <2>2. pc' = pc /\ failed' = failed
    BY <1>0, <1>1, <2>1, FillRoom DEF AppendBytes
  <2>3. QED
    BY <1>0, <2>1, <2>2, FillType DEF BufferTypeOK
<1>2. CASE ReadFromSocket
  BY <1>2, BufferAssumption DEF ReadFromSocket, BufferTypeOK
<1>3. ASSUME NEW s \in Chunk, ReadReturns(s)
      PROVE  Inv'
  <2>1. Fill(limit, s) /\ Len(s) <= limit
    BY <1>3 DEF ReadReturns
  <2>2. /\ failed' = failed
        /\ pc' \in {"reading", "idle"}
        /\ limit' \in {limit, 2 * limit}
    BY <1>0, <1>3, <2>1, FillRoom DEF ReadReturns
  <2>3. QED
    BY <1>0, <2>1, <2>2, FillType DEF BufferTypeOK
<1>4. CASE ReadFails
  <2>1. Fill(limit, <<>>) /\ limit' = limit
    BY <1>4 DEF ReadFails
  <2>2. <<>> \in Seq(Byte) /\ Len(<<>>) <= limit
    BY <1>0
  <2>3. failed' = failed /\ pc' = "idle"
    BY <1>0, <1>4, <2>1, <2>2, FillRoom DEF ReadFails
  <2>4. QED
    BY <1>0, <2>1, <2>2, <2>3, FillType DEF BufferTypeOK
<1>5. ASSUME NEW len \in 0 .. MaxSize \union {SizeMax}, Retrieve(len)
      PROVE  Inv'
  BY <1>5, BufferAssumption DEF Retrieve, Abort, BufferTypeOK, ReadableBytes
<1>write. ASSUME NEW n \in -1 .. MaxBytes, WriteToSocket(n)
          PROVE  Inv'
  BY <1>write, BufferAssumption DEF WriteToSocket, Abort, BufferTypeOK, ReadableBytes
<1>6. CASE UNCHANGED bufferVars
  BY <1>6 DEF bufferVars, BufferTypeOK
<1>7. QED
  BY <1>1, <1>2, <1>3, <1>4, <1>5, <1>write, <1>6 DEF BufferNext

LEMMA InvInitially == BufferInit => Inv
BY BufferAssumption DEF BufferInit, Inv, BufferTypeOK, RoomIsEnough

LEMMA InvAlways == BufferSpec => []Inv
BY InvInitially, InvInductive, PTL DEF BufferSpec

(* Every sequence of appends, reads, retrieves and writes leaves the       *)
(* indices ordered within the vector.                                      *)
THEOREM TypeCorrect == BufferSpec => []BufferTypeOK
BY InvAlways, PTL DEF Inv

(* Buffer.h:56 and Buffer.h:100 never abort the process.                   *)
THEOREM AssertsHold == BufferSpec => []RoomIsEnough
BY InvAlways, PTL DEF Inv

-----------------------------------------------------------------------------
(* Growth.                                                                 *)

LEMMA NewSizeBound ==
  ASSUME BufferTypeOK, NEW len \in Nat, NewSize(len) # size
  PROVE  NewSize(len) <= 4 * len + 2 * ReadableBytes
BY BufferAssumption
   DEF BufferTypeOK, NewSize, MustMove, ReadableBytes, WritableBytes

LEMMA StepGrowth ==
  ASSUME BufferTypeOK, BufferNext, size' # size
  PROVE  size' <= 4 * Asked + 2 * ReadableBytes
<1>1. limit \in Nat
  BY DEF BufferTypeOK
<1>2. ASSUME NEW s \in Chunk, AppendBytes(s)
      PROVE  size' <= 4 * Asked + 2 * ReadableBytes
  <2>1. /\ size' = NewSize(Len(s))
        /\ pc = "idle"
        /\ readIndex' = StartAfter(Len(s))
        /\ writeIndex' = EndAfter(Len(s)) + Len(s)
    BY <1>2 DEF AppendBytes, Fill
  <2>2. Len(s) \in Nat
    BY BufferAssumption
  <2>3. /\ StartAfter(Len(s)) \in Nat
        /\ EndAfter(Len(s)) - StartAfter(Len(s)) = ReadableBytes
        /\ EndAfter(Len(s)) \in Nat
        /\ ReadableBytes \in Nat
    BY <2>2, RoomArithmetic
  <2>4. ReadableBytes' = ReadableBytes + Len(s)
    BY <2>1, <2>2, <2>3 DEF ReadableBytes
  <2>5. Asked = Len(s)
    BY <2>1, <2>2, <2>3, <2>4 DEF Asked
  <2>6. QED
    BY <2>1, <2>2, <2>5, NewSizeBound
<1>3. CASE (\E s \in Chunk : ReadReturns(s)) \/ ReadFails
  <2>1. size' = NewSize(limit) /\ pc = "reading"
    BY <1>3 DEF ReadReturns, ReadFails, Fill
  <2>2. Asked = limit
    BY <2>1 DEF Asked
  <2>3. QED
    BY <1>1, <2>1, <2>2, NewSizeBound
<1>4. CASE ReadFromSocket
  BY <1>4 DEF ReadFromSocket
<1>5. CASE \E len \in 0 .. MaxSize \union {SizeMax} : Retrieve(len)
  BY <1>5 DEF Retrieve
<1>write. CASE \E n \in -1 .. MaxBytes : WriteToSocket(n)
  BY <1>write DEF WriteToSocket
<1>6. QED
  BY <1>2, <1>3, <1>4, <1>5, <1>write DEF BufferNext

(* The vector never grows while the bytes discarded are at least as many   *)
(* as those asked for, so its size is bounded by what callers ask.         *)
THEOREM GrowthCorrect == BufferSpec => GrowthIsBounded
<1>1. Inv /\ [BufferNext]_bufferVars
        => [size' # size => size' <= 4 * Asked + 2 * ReadableBytes]_bufferVars
  BY StepGrowth DEF Inv
<1>2. QED
  BY <1>1, InvAlways, PTL DEF BufferSpec, GrowthIsBounded

-----------------------------------------------------------------------------
(* The refinement.                                                         *)

(* Two sequences of the same length and elements are one.                  *)
LEMMA SameSequence ==
  ASSUME NEW S, NEW a \in Seq(S), NEW b \in Seq(S), Len(a) = Len(b),
         \A i \in 1 .. Len(a) : a[i] = b[i]
  PROVE  a = b
OBVIOUS

LEMMA ConcatElements ==
  ASSUME NEW a \in Seq(Byte), NEW b \in Seq(Byte)
  PROVE  /\ a \o b \in Seq(Byte)
         /\ Len(a \o b) = Len(a) + Len(b)
         /\ \A i \in 1 .. Len(a) : (a \o b)[i] = a[i]
         /\ \A i \in 1 .. Len(b) : (a \o b)[Len(a) + i] = b[i]
OBVIOUS

(* A stretch of the vector, read as a sequence.                            *)
LEMMA SliceIsSequence ==
  ASSUME NEW m \in Nat, NEW v \in [0 .. m - 1 -> Byte],
         NEW w \in 0 .. m, NEW r \in 0 .. w,
         NEW c, c = [i \in 1 .. w - r |-> v[r + i - 1]]
  PROVE  /\ c \in Seq(Byte)
         /\ Len(c) = w - r
         /\ \A i \in 1 .. w - r : c[i] = v[r + i - 1]
<1>1. w - r \in Nat
  OBVIOUS
<1>2. \A i \in 1 .. w - r : v[r + i - 1] \in Byte
  OBVIOUS
<1>3. c \in [1 .. w - r -> Byte]
  BY <1>2
<1>4. QED
  BY <1>1, <1>3

(* Room or not, the bytes kept are those readable before, in their order,  *)
(* and the new ones follow.                                                *)
LEMMA FillKeepsBytes ==
  ASSUME BufferTypeOK, MemcpyOrder = {"up"}, NEW len \in Nat, NEW s \in Seq(Byte),
         Len(s) <= len, Fill(len, s)
  PROVE  /\ ReadableBytes' = ReadableBytes + Len(s)
         /\ \A i \in 1 .. ReadableBytes :
              vec'[readIndex' + i - 1] = vec[readIndex + i - 1]
         /\ \A i \in 1 .. Len(s) :
              vec'[readIndex' + ReadableBytes + i - 1] = s[i]
<1>1. /\ size' = NewSize(len)
      /\ vec' = Store(Compacted(len, "up"), EndAfter(len), s)
      /\ readIndex' = StartAfter(len)
      /\ writeIndex' = EndAfter(len) + Len(s)
  BY DEF Fill
<1>2. /\ Len(s) \in Nat
      /\ NewSize(len) \in Nat
      /\ StartAfter(len) \in Nat
      /\ EndAfter(len) = StartAfter(len) + ReadableBytes
      /\ EndAfter(len) + len <= NewSize(len)
      /\ ReadableBytes \in Nat
  <2>1. Len(s) \in Nat
    OBVIOUS
  <2>2. NewSize(len) \in Nat
    BY RoomArithmetic
  <2>3. QED
    BY <2>1, RoomArithmetic
<1>3. DOMAIN Compacted(len, "up") = 0 .. NewSize(len) - 1
  BY DEF Compacted
<1>4. \A k \in 0 .. NewSize(len) - 1 :
        vec'[k] = IF k \in EndAfter(len) .. EndAfter(len) + Len(s) - 1
                  THEN s[k - EndAfter(len) + 1]
                  ELSE Compacted(len, "up")[k]
  BY <1>1, <1>3 DEF Store
<1>5. ReadableBytes' = ReadableBytes + Len(s)
  BY <1>1, <1>2 DEF ReadableBytes
<1>6. ASSUME NEW i \in 1 .. ReadableBytes
      PROVE  vec'[readIndex' + i - 1] = vec[readIndex + i - 1]
  <2> DEFINE k == StartAfter(len) + i - 1
  <2>1. /\ k \in 0 .. NewSize(len) - 1
        /\ k < EndAfter(len)
    BY <1>2
  <2>2. vec'[k] = Compacted(len, "up")[k]
    BY <1>2, <1>4, <2>1
  <2>3. Compacted(len, "up")[k] = vec[readIndex + i - 1]
    <3>1. CASE MustMove(len)
      BY <1>2, <2>1, <3>1 DEF Compacted, Moved, StartAfter
    <3>2. CASE ~ MustMove(len)
      <4>1. StartAfter(len) = readIndex /\ k < size
        BY <2>1, <3>2, BufferAssumption DEF StartAfter, EndAfter, BufferTypeOK
      <4>2. QED
        BY <2>1, <3>2, <4>1 DEF Compacted
    <3>3. QED
      BY <3>1, <3>2
  <2>4. QED
    BY <1>1, <2>2, <2>3
<1>7. ASSUME NEW i \in 1 .. Len(s)
      PROVE  vec'[readIndex' + ReadableBytes + i - 1] = s[i]
  <2> DEFINE k == EndAfter(len) + i - 1
  <2>1. /\ k \in 0 .. NewSize(len) - 1
        /\ k \in EndAfter(len) .. EndAfter(len) + Len(s) - 1
        /\ k - EndAfter(len) + 1 = i
    BY <1>2
  <2>2. vec'[k] = s[i]
    BY <1>4, <2>1
  <2>3. readIndex' + ReadableBytes + i - 1 = k
    BY <1>1, <1>2
  <2>4. QED
    BY <2>2, <2>3
<1>8. QED
  BY <1>5, <1>6, <1>7

ContentShape ==
  /\ Content \in Seq(Byte)
  /\ Len(Content) = ReadableBytes
  /\ \A i \in 1 .. ReadableBytes : Content[i] = vec[readIndex + i - 1]

LEMMA ContentBefore == BufferTypeOK => ContentShape
BY SliceIsSequence, BufferAssumption DEF ContentShape, BufferTypeOK, Content, ReadableBytes

LEMMA ContentAfter == BufferTypeOK' => ContentShape'
BY ContentBefore, PTL

LEMMA FillPuts ==
  ASSUME BufferTypeOK, BufferTypeOK', MemcpyOrder = {"up"}, NEW len \in Nat,
         NEW s \in Seq(Byte), Len(s) <= len, Fill(len, s)
  PROVE  Content' = Content \o s
<1>1. /\ Content \in Seq(Byte)
      /\ Len(Content) = ReadableBytes
      /\ \A i \in 1 .. ReadableBytes : Content[i] = vec[readIndex + i - 1]
  BY ContentBefore DEF ContentShape
<1>2. /\ Content' \in Seq(Byte)
      /\ Len(Content') = ReadableBytes'
      /\ \A i \in 1 .. ReadableBytes' : Content'[i] = vec'[readIndex' + i - 1]
  BY ContentAfter DEF ContentShape
<1>3. /\ ReadableBytes' = ReadableBytes + Len(s)
      /\ \A i \in 1 .. ReadableBytes :
           vec'[readIndex' + i - 1] = vec[readIndex + i - 1]
      /\ \A i \in 1 .. Len(s) :
           vec'[readIndex' + ReadableBytes + i - 1] = s[i]
  BY FillKeepsBytes
<1>4. ReadableBytes \in Nat /\ Len(s) \in Nat /\ readIndex' \in Nat
  BY BufferAssumption DEF BufferTypeOK, ReadableBytes
<1>5. /\ Content \o s \in Seq(Byte)
      /\ Len(Content \o s) = ReadableBytes + Len(s)
      /\ \A i \in 1 .. ReadableBytes : (Content \o s)[i] = Content[i]
      /\ \A i \in 1 .. Len(s) : (Content \o s)[ReadableBytes + i] = s[i]
  <2>1. /\ Content \o s \in Seq(Byte)
        /\ Len(Content \o s) = Len(Content) + Len(s)
        /\ \A i \in 1 .. Len(Content) : (Content \o s)[i] = Content[i]
        /\ \A i \in 1 .. Len(s) : (Content \o s)[Len(Content) + i] = s[i]
    BY <1>1, ConcatElements
  <2>2. QED
    BY <1>1, <2>1, Zenon
<1>6. ASSUME NEW i \in 1 .. ReadableBytes + Len(s)
      PROVE  Content'[i] = (Content \o s)[i]
  <2>1. CASE i <= ReadableBytes
    <3>1. i \in 1 .. ReadableBytes /\ i \in 1 .. ReadableBytes'
      BY <1>3, <1>4, <2>1
    <3>2. Content'[i] = vec[readIndex + i - 1]
      BY <1>2, <1>3, <3>1
    <3>3. QED
      BY <1>1, <1>5, <3>1, <3>2
  <2>2. CASE i > ReadableBytes
    <3> DEFINE j == i - ReadableBytes
    <3>1. j \in 1 .. Len(s) /\ i = ReadableBytes + j
      BY <1>4, <2>2
    <3>2. Content'[i] = vec'[readIndex' + i - 1]
      BY <1>2, <1>3
    <3>3. readIndex' + i - 1 = readIndex' + ReadableBytes + j - 1
      BY <1>4, <3>1
    <3>4. Content'[i] = s[j]
      BY <1>3, <3>1, <3>2, <3>3
    <3>5. QED
      BY <1>5, <3>1, <3>4
  <2>3. i <= ReadableBytes \/ i > ReadableBytes
    BY <1>4
  <2>4. QED
    BY <2>1, <2>2, <2>3
<1>7. QED
  BY <1>2, <1>3, <1>5, <1>6, SameSequence

(* Retrieving len bytes leaves the others in their order.                  *)
LEMMA RetrieveTakes ==
  ASSUME BufferTypeOK, BufferTypeOK', NEW len \in 0 .. ReadableBytes,
         readIndex' = readIndex + len, UNCHANGED <<vec, writeIndex>>
  PROVE  Content' = SubSeq(Content, len + 1, Len(Content))
<1>1. /\ Content \in Seq(Byte)
      /\ Len(Content) = ReadableBytes
      /\ \A i \in 1 .. ReadableBytes : Content[i] = vec[readIndex + i - 1]
  BY ContentBefore DEF ContentShape
<1>2. /\ Content' \in Seq(Byte)
      /\ Len(Content') = ReadableBytes'
      /\ \A i \in 1 .. ReadableBytes' : Content'[i] = vec'[readIndex' + i - 1]
  BY ContentAfter DEF ContentShape
<1>3. /\ ReadableBytes \in Nat /\ readIndex \in Nat
      /\ ReadableBytes' = ReadableBytes - len
  BY BufferAssumption DEF BufferTypeOK, ReadableBytes
<1> DEFINE rest == SubSeq(Content, len + 1, Len(Content))
<1>4. /\ rest \in Seq(Byte)
      /\ Len(rest) = ReadableBytes - len
      /\ \A i \in 1 .. ReadableBytes - len : rest[i] = Content[len + i]
  BY <1>1, <1>3
<1>5. ASSUME NEW i \in 1 .. ReadableBytes - len
      PROVE  Content'[i] = rest[i]
  <2>1. len + i \in 1 .. ReadableBytes /\ i \in 1 .. ReadableBytes'
    BY <1>3
  <2>2. Content'[i] = vec[readIndex' + i - 1]
    BY <1>2, <2>1
  <2>3. readIndex' + i - 1 = readIndex + (len + i) - 1
    BY <1>3
  <2>4. rest[i] = vec[readIndex + (len + i) - 1]
    BY <1>1, <1>4, <2>1
  <2>5. QED
    BY <2>2, <2>3, <2>4
<1>6. QED
  BY <1>2, <1>3, <1>4, <1>5, SameSequence

LEMMA InitEmpty ==
  ASSUME BufferInit
  PROVE  Content = <<>>
BY DEF BufferInit, Content, ReadableBytes

(* Every step of Buffer adds bytes at the end of the queue, takes bytes    *)
(* from its front, or leaves it alone.                                     *)
LEMMA StepRefines ==
  ASSUME Inv, Inv', BufferNext, MemcpyOrder = {"up"}
  PROVE  Abstract!Next \/ Content' = Content
<1>0. BufferTypeOK /\ BufferTypeOK'
  BY DEF Inv
<1>1. limit \in Nat
  BY <1>0 DEF BufferTypeOK
<1>2. \A s \in Chunk : s \in Seq(Byte) /\ Len(s) \in Nat
  BY BufferAssumption
<1>3. ASSUME NEW s \in Chunk, AppendBytes(s)
      PROVE  Abstract!Next
  <2>1. Fill(Len(s), s)
    BY <1>3 DEF AppendBytes
  <2>2. Content' = Content \o s
    BY <1>0, <1>2, <2>1, FillPuts
  <2>3. QED
    BY <2>2 DEF Abstract!Next, Abstract!Put
<1>4. ASSUME NEW s \in Chunk, ReadReturns(s)
      PROVE  Abstract!Next
  <2>1. Fill(limit, s) /\ Len(s) <= limit
    BY <1>4 DEF ReadReturns
  <2>2. Content' = Content \o s
    BY <1>0, <1>1, <1>2, <2>1, FillPuts
  <2>3. QED
    BY <2>2 DEF Abstract!Next, Abstract!Put
<1>5. CASE ReadFails
  <2>1. Fill(limit, <<>>)
    BY <1>5 DEF ReadFails
  <2>2. <<>> \in Seq(Byte) /\ Len(<<>>) <= limit
    BY <1>1
  <2>3. Content' = Content \o <<>>
    BY <1>0, <1>1, <2>1, <2>2, FillPuts
  <2>4. Content \in Seq(Byte)
    BY <1>0, ContentBefore DEF ContentShape
  <2>5. QED
    BY <2>3, <2>4
<1>6. ASSUME NEW len \in 0 .. MaxSize \union {SizeMax}, Retrieve(len)
      PROVE  Abstract!Next \/ Content' = Content
  <2>1. CASE len <= ReadableBytes
    <3>1. /\ len \in 0 .. ReadableBytes
          /\ readIndex' = readIndex + len
          /\ UNCHANGED <<vec, writeIndex>>
      BY <1>0, <1>6, <2>1, BufferAssumption DEF Retrieve, BufferTypeOK, ReadableBytes
    <3>2. Content' = SubSeq(Content, len + 1, Len(Content))
      BY <1>0, <3>1, RetrieveTakes
    <3>3. len \in 0 .. Len(Content)
      BY <1>0, <3>1, ContentBefore DEF ContentShape
    <3>4. QED
      BY <3>2, <3>3 DEF Abstract!Next, Abstract!Take
  <2>2. CASE ~ (len <= ReadableBytes)
    BY <1>6, <2>2 DEF Retrieve, Content, ReadableBytes
  <2>3. QED
    BY <2>1, <2>2
<1>write. ASSUME NEW n \in -1 .. MaxBytes, WriteToSocket(n)
          PROVE  Abstract!Next \/ Content' = Content
  <2>1. CASE n >= 0
    <3>1. /\ n \in 0 .. ReadableBytes
          /\ readIndex' = readIndex + n
          /\ UNCHANGED <<vec, writeIndex>>
      BY <1>0, <1>write, <2>1, BufferAssumption
         DEF WriteToSocket, BufferTypeOK, ReadableBytes
    <3>2. Content' = SubSeq(Content, n + 1, Len(Content))
      BY <1>0, <3>1, RetrieveTakes
    <3>3. n \in 0 .. Len(Content)
      BY <1>0, <3>1, ContentBefore DEF ContentShape
    <3>4. QED
      BY <3>2, <3>3 DEF Abstract!Next, Abstract!Take
  <2>2. CASE ~ (n >= 0)
    BY <1>write, <2>2 DEF WriteToSocket, Content, ReadableBytes
  <2>3. QED
    BY <2>1, <2>2
<1>7. CASE ReadFromSocket
  BY <1>7 DEF ReadFromSocket, Content, ReadableBytes
<1>8. QED
  BY <1>3, <1>4, <1>5, <1>6, <1>write, <1>7 DEF BufferNext

(* Where memcpy copies upwards, as a memmove towards lower addresses does, *)
(* growth and compaction never lose, reorder or overwrite a readable byte. *)
THEOREM Refinement ==
  ASSUME MemcpyOrder = {"up"}
  PROVE  BufferSpec => ImplementsByteQueue
<1>1. BufferInit => Abstract!Init
  BY InitEmpty DEF Abstract!Init
<1>2. Inv /\ Inv' /\ [BufferNext]_bufferVars => [Abstract!Next]_Content
  <2>1. UNCHANGED bufferVars => Content' = Content
    BY DEF bufferVars, Content, ReadableBytes
  <2>2. QED
    BY <2>1, StepRefines
<1>3. QED
  BY <1>1, <1>2, InvAlways, PTL DEF BufferSpec, ImplementsByteQueue, Abstract!Spec
=============================================================================
