----------------------------- MODULE LoggerProofs -----------------------------
(***************************************************************************)
(* What TLAPS proves of Logger, for every set of messages, back threads    *)
(* and stoppers and every size of a buffer: no message is lost or written  *)
(* twice, what was logged is in the file or waits, a back thread that has  *)
(* ended leaves nothing behind, one back thread alone keeps the order of   *)
(* the messages, and the buffers fit.                                      *)
(***************************************************************************)
EXTENDS Logger, SequenceTheorems, WellFoundedInduction, TLAPS

-----------------------------------------------------------------------------
(* Sequences of buffers.                                                   *)

(* No message is twice in buffer s, or in the buffers bs.                  *)
Distinct(s) == \A i, j \in DOMAIN s : s[i] = s[j] => i = j

Once(bs) ==
  /\ \A i \in DOMAIN bs : Distinct(bs[i])
  /\ \A i, j \in DOMAIN bs : i # j => ToSet(bs[i]) \intersect ToSet(bs[j]) = {}

LEMMA InBuffers ==
  ASSUME NEW bs, NEW x
  PROVE  x \in Held(bs) <=> \E i \in DOMAIN bs : x \in ToSet(bs[i])
  BY DEF Held

LEMMA AppendBuffer ==
  ASSUME NEW s \in Seq(Msg), NEW m \in Msg
  PROVE  /\ Append(s, m) \in Seq(Msg)
         /\ ToSet(Append(s, m)) = ToSet(s) \union {m}
         /\ Distinct(s) /\ m \notin ToSet(s) => Distinct(Append(s, m))
<1> DEFINE t == Append(s, m)
<1>1. /\ t \in Seq(Msg) /\ DOMAIN s = 1 .. Len(s) /\ DOMAIN t = 1 .. Len(s) + 1
      /\ t[Len(s) + 1] = m /\ Len(s) \in Nat
      /\ \A i \in 1 .. Len(s) : t[i] = s[i]
  OBVIOUS
<1> HIDE DEF t
<1>2. ToSet(t) = ToSet(s) \union {m}
  <2>1. ASSUME NEW x \in ToSet(t) PROVE x \in ToSet(s) \union {m}
    BY <1>1, <2>1 DEF ToSet
  <2>2. ASSUME NEW x \in ToSet(s) \union {m} PROVE x \in ToSet(t)
    BY <1>1, <2>2 DEF ToSet
  <2>3. QED
    BY <2>1, <2>2
<1>3. Distinct(s) /\ m \notin ToSet(s) => Distinct(t)
  BY <1>1 DEF Distinct, ToSet
<1>4. QED
  BY <1>1, <1>2, <1>3 DEF t

LEMMA ConcatBuffer ==
  ASSUME NEW s \in Seq(Msg), NEW t \in Seq(Msg)
  PROVE  ToSet(s \o t) = ToSet(s) \union ToSet(t)
<1>1. /\ s \o t \in Seq(Msg)
      /\ DOMAIN s = 1 .. Len(s) /\ DOMAIN t = 1 .. Len(t)
      /\ DOMAIN (s \o t) = 1 .. Len(s) + Len(t)
      /\ Len(s) \in Nat /\ Len(t) \in Nat
      /\ \A i \in 1 .. Len(s) : (s \o t)[i] = s[i]
      /\ \A i \in 1 .. Len(t) : (s \o t)[Len(s) + i] = t[i]
      /\ \A i \in Len(s) + 1 .. Len(s) + Len(t) : (s \o t)[i] = t[i - Len(s)]
  OBVIOUS
<1>2. ASSUME NEW x \in ToSet(s \o t) PROVE x \in ToSet(s) \union ToSet(t)
  BY <1>1, <1>2 DEF ToSet
<1>3. ASSUME NEW x \in ToSet(s) \union ToSet(t) PROVE x \in ToSet(s \o t)
  <2>1. CASE x \in ToSet(s)
    BY <1>1, <2>1 DEF ToSet
  <2>2. CASE x \in ToSet(t)
    <3>1. PICK i \in 1 .. Len(t) : t[i] = x
      BY <1>1, <2>2 DEF ToSet
    <3>2. Len(s) + i \in DOMAIN (s \o t) /\ (s \o t)[Len(s) + i] = x
      BY <1>1, <3>1
    <3>3. QED
      BY <3>2 DEF ToSet
  <2>3. QED
    BY <1>3, <2>1, <2>2
<1>4. QED
  BY <1>2, <1>3

LEMMA Singleton ==
  ASSUME NEW S, NEW s \in Seq(S), Len(s) = 1
  PROVE  s = << s[1] >> /\ s[1] \in S
<1>1. s \in [1 .. 1 -> S]
  <2>1. s \in [1 .. Len(s) -> S]
    BY LenProperties
  <2>2. QED
    BY Zenon, <2>1
<1>2. << s[1] >> = [i \in 1 .. 1 |-> s[1]]
  OBVIOUS
<1>3. s = [i \in 1 .. 1 |-> s[1]] /\ s[1] \in S
  BY <1>1
<1>4. QED
  BY <1>2, <1>3

LEMMA OneBuffer ==
  ASSUME NEW s \in Seq(Msg)
  PROVE  /\ << s >> \in Seq(Seq(Msg)) /\ Len(<< s >>) = 1
         /\ Held(<< s >>) = ToSet(s) /\ Held(<<>>) = {}
         /\ Distinct(s) <=> Once(<< s >>)
         /\ Once(<<>>)
<1>1. /\ DOMAIN << s >> = {1} /\ << s >>[1] = s /\ DOMAIN <<>> = {}
      /\ << s >> \in Seq(Seq(Msg)) /\ Len(<< s >>) = 1
  OBVIOUS
<1>2. QED
  BY <1>1 DEF Held, Once

(* The buffers bs followed by the buffers cs.                              *)
LEMMA ConcatBuffers ==
  ASSUME NEW bs \in Seq(Seq(Msg)), NEW cs \in Seq(Seq(Msg))
  PROVE  /\ bs \o cs \in Seq(Seq(Msg))
         /\ Held(bs \o cs) = Held(bs) \union Held(cs)
         /\ Once(bs) /\ Once(cs) /\ Held(bs) \intersect Held(cs) = {} => Once(bs \o cs)
<1> DEFINE ds == bs \o cs
<1>1. /\ ds \in Seq(Seq(Msg))
      /\ DOMAIN bs = 1 .. Len(bs) /\ DOMAIN cs = 1 .. Len(cs)
      /\ DOMAIN ds = 1 .. Len(bs) + Len(cs)
      /\ Len(bs) \in Nat /\ Len(cs) \in Nat
      /\ \A i \in 1 .. Len(bs) : ds[i] = bs[i]
      /\ \A i \in 1 .. Len(cs) : ds[Len(bs) + i] = cs[i]
      /\ \A i \in Len(bs) + 1 .. Len(bs) + Len(cs) : ds[i] = cs[i - Len(bs)]
  OBVIOUS
<1> HIDE DEF ds
<1>2. ASSUME NEW x \in Held(ds) PROVE x \in Held(bs) \union Held(cs)
  <2>1. PICK i \in DOMAIN ds : x \in ToSet(ds[i])
    BY <1>2, InBuffers
  <2>2. \/ i \in DOMAIN bs /\ ds[i] = bs[i]
        \/ i - Len(bs) \in DOMAIN cs /\ ds[i] = cs[i - Len(bs)]
    BY <1>1
  <2>3. QED
    BY <2>1, <2>2, InBuffers
<1>3. ASSUME NEW x \in Held(bs) \union Held(cs) PROVE x \in Held(ds)
  <2>1. CASE x \in Held(bs)
    BY <1>1, <2>1 DEF Held
  <2>2. CASE x \in Held(cs)
    <3>1. PICK i \in 1 .. Len(cs) : x \in ToSet(cs[i])
      BY <1>1, <2>2 DEF Held
    <3>2. Len(bs) + i \in DOMAIN ds /\ x \in ToSet(ds[Len(bs) + i])
      BY <1>1, <3>1
    <3>3. QED
      BY <3>2 DEF Held
  <2>3. QED
    BY <1>3, <2>1, <2>2
<1>4. ASSUME Once(bs), Once(cs), Held(bs) \intersect Held(cs) = {}
      PROVE  Once(ds)
  <2>0. ASSUME NEW i \in DOMAIN ds
        PROVE  \/ i \in DOMAIN bs /\ ds[i] = bs[i]
               \/ i - Len(bs) \in DOMAIN cs /\ ds[i] = cs[i - Len(bs)]
    BY <1>1
  <2>1. ASSUME NEW i \in DOMAIN ds PROVE Distinct(ds[i])
    BY <1>4, <2>0 DEF Once
  <2>2. ASSUME NEW i \in DOMAIN bs PROVE ToSet(bs[i]) \subseteq Held(bs)
    BY DEF Held
  <2>3. ASSUME NEW i \in DOMAIN cs PROVE ToSet(cs[i]) \subseteq Held(cs)
    BY DEF Held
  <2>4. ASSUME NEW i \in DOMAIN ds, NEW j \in DOMAIN ds, i # j
        PROVE  ToSet(ds[i]) \intersect ToSet(ds[j]) = {}
    <3>1. CASE i \in DOMAIN bs /\ ds[i] = bs[i] /\ j \in DOMAIN bs /\ ds[j] = bs[j]
      BY <1>4, <2>4, <3>1 DEF Once
    <3>2. CASE /\ i - Len(bs) \in DOMAIN cs /\ ds[i] = cs[i - Len(bs)]
               /\ j - Len(bs) \in DOMAIN cs /\ ds[j] = cs[j - Len(bs)]
      <4>1. i - Len(bs) # j - Len(bs)
        BY <1>1, <2>4
      <4>2. QED
        BY <1>4, <3>2, <4>1 DEF Once
    <3>3. QED
      BY <1>4, <2>0, <2>2, <2>3, <3>1, <3>2
  <2>5. QED
    BY <2>1, <2>4 DEF Once
<1>5. QED
  BY <1>1, <1>2, <1>3, <1>4 DEF ds

(* The first of the buffers bs, and the others.                            *)
LEMMA HeadBuffer ==
  ASSUME NEW bs \in Seq(Seq(Msg)), bs # <<>>, Once(bs)
  PROVE  /\ Head(bs) \in Seq(Msg) /\ Tail(bs) \in Seq(Seq(Msg))
         /\ Held(bs) = ToSet(Head(bs)) \union Held(Tail(bs))
         /\ ToSet(Head(bs)) \intersect Held(Tail(bs)) = {}
         /\ Distinct(Head(bs)) /\ Once(Tail(bs))
<1> DEFINE h == Head(bs)
           t == Tail(bs)
<1>1. /\ h \in Seq(Msg) /\ t \in Seq(Seq(Msg)) /\ h = bs[1]
      /\ DOMAIN bs = 1 .. Len(bs) /\ DOMAIN t = 1 .. Len(bs) - 1
      /\ Len(bs) \in Nat /\ Len(bs) > 0
      /\ \A i \in DOMAIN t : t[i] = bs[i + 1] /\ i + 1 \in DOMAIN bs
  OBVIOUS
<1> HIDE DEF h, t
<1>2. ASSUME NEW x \in Held(bs) PROVE x \in ToSet(h) \union Held(t)
  <2>1. PICK i \in DOMAIN bs : x \in ToSet(bs[i])
    BY <1>2 DEF Held
  <2>2. i = 1 \/ (i - 1 \in DOMAIN t /\ t[i - 1] = bs[i])
    <3>1. CASE i # 1
      <4>1. i - 1 \in DOMAIN t /\ (i - 1) + 1 = i
        BY <1>1, <3>1
      <4>2. QED
        BY <1>1, <4>1
    <3>2. QED
      BY <3>1
  <2>3. QED
    BY <1>1, <2>1, <2>2 DEF Held
<1>3. ASSUME NEW x \in ToSet(h) \union Held(t) PROVE x \in Held(bs)
  <2>1. 1 \in DOMAIN bs
    BY <1>1
  <2>2. QED
    BY <1>1, <1>3, <2>1, InBuffers
<1>4. ToSet(h) \intersect Held(t) = {}
  <2>1. ASSUME NEW i \in DOMAIN t PROVE ToSet(h) \intersect ToSet(t[i]) = {}
    <3>1. 1 \in DOMAIN bs /\ i + 1 \in DOMAIN bs /\ i + 1 # 1
      BY <1>1
    <3>2. QED
      BY <1>1, <3>1 DEF Once
  <2>2. QED
    BY <2>1, InBuffers
<1>5. Distinct(h) /\ Once(t)
  <2>1. Distinct(h)
    <3>1. 1 \in DOMAIN bs /\ bs[1] = h
      BY <1>1
    <3>2. Distinct(bs[1])
      BY <3>1 DEF Once
    <3>3. QED
      BY <3>1, <3>2
  <2>2. ASSUME NEW i \in DOMAIN t PROVE Distinct(t[i])
    BY <1>1 DEF Once
  <2>3. ASSUME NEW i \in DOMAIN t, NEW j \in DOMAIN t, i # j
        PROVE  ToSet(t[i]) \intersect ToSet(t[j]) = {}
    <3>1. /\ t[i] = bs[i + 1] /\ t[j] = bs[j + 1]
          /\ i + 1 \in DOMAIN bs /\ j + 1 \in DOMAIN bs /\ i + 1 # j + 1
      BY <1>1, <2>3
    <3>2. QED
      BY <3>1 DEF Once
  <2>4. QED
    BY <2>1, <2>2, <2>3 DEF Once
<1>6. QED
  BY <1>1, <1>2, <1>3, <1>4, <1>5 DEF h, t

-----------------------------------------------------------------------------
(* The inductive invariant, in parts.                                      *)

(* A back thread only has buffers while it writes; the one that has left   *)
(* the loop keeps the mutex, and nothing is logged behind it.              *)
PlacesOK ==
  /\ \A b \in Back : backPc[b] \notin {"write", "rescue"} => full[b] = <<>>
  /\ \A b \in Back : backPc[b] \in {"rescue", "blocked"} => mutex = b
  /\ mutex # Nobody => currentBuffer = <<>>

(* buffers_ is left alone by the thread that keeps the mutex, which has    *)
(* taken a copy of it.                                                     *)
Queued == IF mutex = Nobody THEN buffers ELSE <<>>

(* No message is in two places.                                            *)
OnePlace ==
  /\ Once(currentBuffer) /\ Once(Queued)
  /\ \A b \in Back : Once(full[b])
  /\ Held(currentBuffer) \intersect Held(Queued) = {}
  /\ \A b \in Back : Held(full[b]) \intersect (Held(currentBuffer) \union Held(Queued)) = {}
  /\ \A a, b \in Back : a # b => Held(full[a]) \intersect Held(full[b]) = {}

(* A message that is somewhere was logged.                                 *)
Logged == Pending \union ToSet(written) \subseteq ToSet(accepted)

IInv == LoggerTypeOK /\ PlacesOK /\ OnePlace /\ Logged

(* Pending, place by place.                                                *)
LEMMA PendingPlaces ==
  Pending = Held(currentBuffer) \union Held(Queued) \union UNION {Held(full[b]) : b \in Back}
<1>1. Held(<<>>) = {}
  BY DEF Held
<1>2. QED
  BY <1>1 DEF Pending, Queued

LEMMA InvInitially == LoggerInit => IInv
<1>1. SUFFICES ASSUME LoggerInit PROVE IInv
  OBVIOUS
<1>2. /\ <<>> \in Seq(Seq(Msg)) /\ <<>> \in Seq(Msg) /\ EmptysInit \in 0 .. EmptysMax
      /\ << <<>> >> \in Seq(Seq(Msg)) /\ Len(<< <<>> >>) = 1
  BY LoggerAssumption
<1>3. LoggerTypeOK
  <2>1. backPc \in [Back -> {"none", "test", "lock", "wait", "write", "drain",
                         "rescue", "blocked"}]
    BY <1>1 DEF LoggerInit
  <2>2. stopping \in [Stopper -> {"no", "lock", "wait", "returned"}]
    BY <1>1 DEF LoggerInit
  <2>3. full \in [Back -> Seq(Seq(Msg))]
    BY <1>1, <1>2 DEF LoggerInit
  <2>4. running \in BOOLEAN /\ mutex \in Back \union {Nobody}
    BY <1>1 DEF LoggerInit
  <2>5. QED
    BY <1>1, <1>2, <2>1, <2>2, <2>3, <2>4 DEF LoggerInit, LoggerTypeOK
<1>4. /\ ToSet(<<>>) = {} /\ Held(<<>>) = {} /\ Held(<< <<>> >>) = {}
      /\ Distinct(<<>>) /\ Once(<<>>) /\ Once(<< <<>> >>)
  <2>1. ToSet(<<>>) = {} /\ Distinct(<<>>)
    BY DEF ToSet, Distinct
  <2>2. QED
    BY <1>2, <2>1, OneBuffer
<1>5. Queued = <<>>
  BY <1>1 DEF LoggerInit, Queued
<1>6. PlacesOK
  BY <1>1 DEF LoggerInit, PlacesOK
<1>7. OnePlace
  BY <1>1, <1>4, <1>5 DEF LoggerInit, OnePlace
<1>8. Logged
  <2>1. Pending = {}
    BY <1>1, <1>4, <1>5, PendingPlaces DEF LoggerInit
  <2>2. QED
    BY <1>1, <1>4, <2>1 DEF LoggerInit, Logged
<1>9. QED
  BY <1>3, <1>6, <1>7, <1>8 DEF IInv

-----------------------------------------------------------------------------
(* The steps: what they do to the places, and to the file of LogFile.      *)

(* log() accepts a message that is nowhere.                                *)
LEMMA LogKeeps ==
  ASSUME IInv, NEW m \in Msg, Log(m)
  PROVE  IInv' /\ File!Accept(m)
<1>1. /\ mutex = Nobody /\ mutex' = Nobody /\ m \notin ToSet(accepted)
      /\ accepted' = Append(accepted, m)
      /\ UNCHANGED <<running, mutex, full, written, backPc, stopping>>
      /\ LoggerTypeOK
  BY DEF Log, IInv
<1>2. /\ accepted' \in Seq(Msg) /\ ToSet(accepted') = ToSet(accepted) \union {m}
      /\ accepted \in Seq(Msg)
  BY <1>1, AppendBuffer DEF LoggerTypeOK
<1>3. /\ Queued = buffers /\ Queued' = buffers'
      /\ m \notin Held(currentBuffer) /\ m \notin Held(buffers)
      /\ \A b \in Back : m \notin Held(full[b])
      /\ m \notin ToSet(written)
      /\ buffers \in Seq(Seq(Msg)) /\ currentBuffer \in Seq(Seq(Msg))
  BY <1>1, PendingPlaces DEF Queued, IInv, Logged, LoggerTypeOK
<1>4. \/ currentBuffer = <<>>
      \/ /\ currentBuffer = << currentBuffer[1] >>
         /\ currentBuffer[1] \in Seq(Msg)
         /\ ToSet(currentBuffer[1]) = Held(currentBuffer)
         /\ Distinct(currentBuffer[1])
  <2>1. Len(currentBuffer) = 0 \/ Len(currentBuffer) = 1
    <3>1. Len(currentBuffer) \in Nat /\ Len(currentBuffer) <= 1
      BY <1>1, <1>3 DEF LoggerTypeOK
    <3>2. \A n \in Nat : n <= 1 => n = 0 \/ n = 1
      OBVIOUS
    <3>3. QED
      BY <3>1, <3>2
  <2>2. CASE Len(currentBuffer) = 0
    BY <1>3, <2>2
  <2>3. CASE Len(currentBuffer) = 1
    <3>1. currentBuffer = << currentBuffer[1] >> /\ currentBuffer[1] \in Seq(Msg)
      BY <1>3, <2>3, Singleton
    <3>2. Once(<< currentBuffer[1] >>)
      BY <3>1 DEF IInv, OnePlace
    <3>3. QED
      BY <3>1, <3>2, OneBuffer
  <2>4. QED
    BY <2>1, <2>2, <2>3
(* What the two ways to take the message have in common.                   *)
<1>5. /\ buffers' \in Seq(Seq(Msg)) /\ currentBuffer' \in Seq(Seq(Msg))
      /\ Len(currentBuffer') = 1 /\ emptys' \in 0 .. EmptysMax
      /\ Once(buffers') /\ Once(currentBuffer')
      /\ Held(currentBuffer') \intersect Held(buffers') = {}
      /\ Held(currentBuffer') \union Held(buffers')
           = Held(currentBuffer) \union Held(buffers) \union {m}
  <2>1. CASE MustExchange(m)
    <3>1. /\ buffers' = buffers \o currentBuffer /\ currentBuffer' = << <<m>> >>
          /\ emptys' = IF emptys = 0 THEN 0 ELSE emptys - 1
      BY <2>1 DEF Log, WithCurrent
    <3>2. <<m>> \in Seq(Msg) /\ ToSet(<<m>>) = {m} /\ Distinct(<<m>>)
      BY DEF ToSet, Distinct
    <3>3. /\ currentBuffer' \in Seq(Seq(Msg)) /\ Len(currentBuffer') = 1
          /\ Held(currentBuffer') = {m} /\ Once(currentBuffer')
      BY <3>1, <3>2, OneBuffer
    <3>4. /\ buffers' \in Seq(Seq(Msg))
          /\ Held(buffers') = Held(buffers) \union Held(currentBuffer)
          /\ Once(buffers')
      BY <1>3, <3>1, ConcatBuffers DEF IInv, OnePlace
    <3>5. emptys' \in 0 .. EmptysMax
      BY <1>1, <3>1, LoggerAssumption DEF LoggerTypeOK
    <3>6. QED
      BY <1>3, <3>3, <3>4, <3>5
  <2>2. CASE ~ MustExchange(m)
    <3>1. /\ currentBuffer' = << Append(currentBuffer[1], m) >>
          /\ UNCHANGED <<buffers, emptys>>
          /\ currentBuffer # <<>>
      BY <2>2 DEF Log, MustExchange
    <3>2. /\ currentBuffer[1] \in Seq(Msg)
          /\ ToSet(currentBuffer[1]) = Held(currentBuffer)
          /\ Distinct(currentBuffer[1])
      BY <1>4, <3>1
    <3> DEFINE longer == Append(currentBuffer[1], m)
    <3>3. /\ longer \in Seq(Msg) /\ ToSet(longer) = Held(currentBuffer) \union {m}
          /\ Distinct(longer)
      BY <1>3, <3>2, AppendBuffer
    <3> HIDE DEF longer
    <3>4. /\ << longer >> \in Seq(Seq(Msg)) /\ Len(<< longer >>) = 1
          /\ Held(<< longer >>) = Held(currentBuffer) \union {m}
          /\ Once(<< longer >>)
      BY <3>3, OneBuffer
    <3>5. currentBuffer' = << longer >>
      BY <3>1 DEF longer
    <3>6. /\ Once(buffers) /\ Held(currentBuffer) \intersect Held(buffers) = {}
          /\ emptys \in 0 .. EmptysMax
      BY <1>1, <1>3 DEF IInv, OnePlace, LoggerTypeOK
    <3>7. QED
      BY <1>3, <3>1, <3>4, <3>5, <3>6
  <2>3. QED
    BY <2>1, <2>2
<1>6. LoggerTypeOK'
  BY <1>1, <1>2, <1>5 DEF LoggerTypeOK
<1>7. PlacesOK'
  BY <1>1 DEF IInv, PlacesOK
<1>8. OnePlace'
  <2>1. /\ \A b \in Back : Once(full[b])
        /\ \A b \in Back : Held(full[b]) \intersect (Held(currentBuffer) \union Held(buffers)) = {}
        /\ \A a, b \in Back : a # b => Held(full[a]) \intersect Held(full[b]) = {}
    BY <1>3 DEF IInv, OnePlace
  <2>2. ASSUME NEW b \in Back
        PROVE  Held(full[b]) \intersect (Held(currentBuffer') \union Held(buffers')) = {}
    BY <1>3, <1>5, <2>1
  <2>3. full' = full /\ Queued' = buffers'
    BY <1>1, <1>3
  <2>4. Once(currentBuffer') /\ Once(Queued') /\ Held(currentBuffer') \intersect Held(Queued') = {}
    BY <1>5, <2>3
  <2>5. QED
    BY <2>1, <2>2, <2>3, <2>4 DEF OnePlace
<1>9. Pending' = Pending \union {m} /\ m \notin Pending
  <2>1. Pending' = Held(currentBuffer') \union Held(buffers')
                     \union UNION {Held(full[b]) : b \in Back}
    BY <1>1 DEF Pending
  <2>2. Pending = Held(currentBuffer) \union Held(buffers)
                    \union UNION {Held(full[b]) : b \in Back}
    BY <1>1 DEF Pending
  <2>3. QED
    BY <1>3, <1>5, <2>1, <2>2
<1>10. Logged'
  BY <1>1, <1>2, <1>9 DEF IInv, Logged
<1>11. File!Accept(m)
  BY <1>1, <1>3, <1>9 DEF File!Accept, File!InFile, ToSet
<1>12. QED
  BY <1>6, <1>7, <1>8, <1>10, <1>11 DEF IInv

(* A back thread takes all that is collected: swapped out of buffers_, or  *)
(* copied by a thread that keeps the mutex from then on.                   *)
LEMMA TakeKeeps ==
  ASSUME IInv, NEW b \in Back, Collect(b) \/ Drain(b)
  PROVE  IInv' /\ UNCHANGED File!vars
<1> DEFINE taken == buffers \o currentBuffer
<1>1. /\ LoggerTypeOK /\ mutex = Nobody /\ full[b] = <<>> /\ Queued = buffers
      /\ \A a \in Back : backPc[a] \notin {"rescue", "blocked"}
  BY LoggerAssumption DEF Collect, Drain, IInv, PlacesOK, Queued
<1>2. /\ full' = [full EXCEPT ![b] = taken] /\ currentBuffer' = <<>>
      /\ UNCHANGED <<written, accepted, stopping>>
  BY DEF Collect, Drain, Collected, WithCurrent
<1>3. /\ taken \in Seq(Seq(Msg))
      /\ Held(taken) = Held(buffers) \union Held(currentBuffer)
      /\ Once(taken)
  BY <1>1, ConcatBuffers DEF LoggerTypeOK, IInv, OnePlace
<1>4. /\ Queued' = <<>> /\ buffers' \in Seq(Seq(Msg))
      /\ mutex' \in Back \union {Nobody}
      /\ running' \in BOOLEAN /\ emptys' \in 0 .. EmptysMax
      /\ \/ backPc' = [backPc EXCEPT ![b] = "write"] /\ mutex' = Nobody
         \/ backPc' = [backPc EXCEPT ![b] = "rescue"] /\ mutex' = b
  <2>1. CASE Collect(b)
    <3>1. buffers' = <<>> /\ mutex' = mutex /\ running' = running
          /\ emptys' = Refilled /\ backPc' = [backPc EXCEPT ![b] = "write"]
      BY <2>1 DEF Collect, GoTo
    <3>2. Refilled \in 0 .. EmptysMax
      BY <1>1, LoggerAssumption DEF Refilled, LoggerTypeOK
    <3>3. QED
      BY <1>1, <3>1, <3>2 DEF Queued, LoggerTypeOK
  <2>2. CASE Drain(b)
    <3>1. buffers' = taken /\ mutex' = b /\ running' = running
          /\ emptys' = emptys /\ backPc' = [backPc EXCEPT ![b] = "rescue"]
      BY <2>2 DEF Drain, GoTo, WithCurrent
    <3>2. QED
      BY <1>1, <1>3, <3>1, LoggerAssumption DEF Queued, LoggerTypeOK
  <2>3. QED
    BY <2>1, <2>2
<1> HIDE DEF taken
<1>5. /\ full'[b] = taken
      /\ \A a \in Back \ {b} : full'[a] = full[a] /\ backPc'[a] = backPc[a]
      /\ backPc'[b] \in {"write", "rescue"} /\ (backPc'[b] = "rescue" => mutex' = b)
  BY <1>1, <1>2, <1>4 DEF LoggerTypeOK
<1>6. LoggerTypeOK'
  <2>1. full' \in [Back -> Seq(Seq(Msg))]
    BY <1>1, <1>2, <1>3 DEF LoggerTypeOK
  <2>2. backPc' \in [Back -> {"none", "test", "lock", "wait", "write", "drain",
                          "rescue", "blocked"}]
    BY <1>1, <1>4 DEF LoggerTypeOK
  <2>3. currentBuffer' \in Seq(Seq(Msg)) /\ Len(currentBuffer') <= 1
    BY <1>2
  <2>4. QED
    BY <1>1, <1>2, <1>4, <2>1, <2>2, <2>3 DEF LoggerTypeOK
<1>7. PlacesOK'
  BY <1>1, <1>2, <1>5 DEF IInv, PlacesOK
<1>8. Held(<<>>) = {} /\ Once(<<>>)
  BY DEF Held, Once
<1>9. OnePlace'
  <2>1. \A a \in Back : Once(full'[a])
    BY <1>3, <1>5 DEF IInv, OnePlace
  <2>2. \A a \in Back \ {b} : Held(full[a]) \intersect Held(taken) = {}
    BY <1>1, <1>3 DEF IInv, OnePlace
  <2>3. \A a, c \in Back : a # c => Held(full'[a]) \intersect Held(full'[c]) = {}
    BY <1>5, <2>2 DEF IInv, OnePlace
  <2>4. QED
    BY <1>2, <1>4, <1>8, <2>1, <2>3 DEF OnePlace
<1>10. Pending' = Pending
  <2>1. Pending = Held(currentBuffer) \union Held(buffers)
                    \union UNION {Held(full[a]) : a \in Back}
    BY <1>1 DEF Pending
  <2>2. Pending' = UNION {Held(full'[a]) : a \in Back}
    <3>1. IF mutex' = Nobody THEN Held(buffers') = {} ELSE TRUE
      BY <1>4, <1>8 DEF Queued
    <3>2. QED
      BY <1>2, <1>8, <3>1 DEF Pending
  <2>3. \A a \in Back : Held(full'[a]) = IF a = b THEN Held(taken) ELSE Held(full[a])
    BY <1>5
  <2>4. ASSUME NEW x \in Pending PROVE x \in Pending'
    <3>1. CASE x \in Held(currentBuffer) \union Held(buffers)
      BY <1>3, <2>2, <2>3, <3>1
    <3>2. CASE \E a \in Back : x \in Held(full[a])
      <4>1. PICK a \in Back : x \in Held(full[a])
        BY <3>2
      <4>2. a # b
        BY <1>1, <1>8, <4>1
      <4>3. QED
        BY <2>2, <2>3, <4>1, <4>2
    <3>3. QED
      BY <2>1, <2>4, <3>1, <3>2
  <2>5. ASSUME NEW x \in Pending' PROVE x \in Pending
    <3>1. PICK a \in Back : x \in Held(full'[a])
      BY <2>2, <2>5
    <3>2. x \in Held(taken) \/ x \in Held(full[a])
      BY <2>3, <3>1
    <3>3. QED
      BY <1>3, <2>1, <3>2
  <2>6. QED
    BY <2>4, <2>5
<1>11. Logged'
  BY <1>2, <1>10 DEF IInv, Logged
<1>12. UNCHANGED File!vars
  BY <1>2, <1>10 DEF File!vars
<1>13. QED
  BY <1>6, <1>7, <1>9, <1>11, <1>12 DEF IInv

(* A back thread writes the first of its buffers.                          *)
LEMMA WriteKeeps ==
  ASSUME IInv, NEW b \in Back, WriteBuffer(b)
  PROVE  IInv' /\ [File!Write]_(File!vars)
<1> DEFINE h == Head(full[b])
           t == Tail(full[b])
<1>1. /\ LoggerTypeOK /\ full[b] \in Seq(Seq(Msg)) /\ full[b] # <<>> /\ Once(full[b])
      /\ backPc[b] \in {"write", "rescue"} /\ written \in Seq(Msg)
  BY DEF WriteBuffer, IInv, LoggerTypeOK, OnePlace
<1>2. /\ written' = written \o h /\ full' = [full EXCEPT ![b] = t]
      /\ UNCHANGED <<running, mutex, currentBuffer, buffers, emptys, accepted, backPc, stopping>>
  BY DEF WriteBuffer
<1>3. /\ h \in Seq(Msg) /\ t \in Seq(Seq(Msg))
      /\ Held(full[b]) = ToSet(h) \union Held(t)
      /\ ToSet(h) \intersect Held(t) = {}
      /\ Distinct(h) /\ Once(t)
  BY <1>1, HeadBuffer
<1> HIDE DEF h, t
<1>4. /\ full'[b] = t /\ Queued' = Queued
      /\ \A a \in Back \ {b} : full'[a] = full[a]
  BY <1>1, <1>2 DEF LoggerTypeOK, Queued
<1>5. /\ written' \in Seq(Msg)
      /\ ToSet(written') = ToSet(written) \union ToSet(h)
  BY <1>1, <1>2, <1>3, ConcatBuffer
<1>6. LoggerTypeOK'
  <2>1. full' \in [Back -> Seq(Seq(Msg))]
    BY <1>1, <1>2, <1>3 DEF LoggerTypeOK
  <2>2. QED
    BY <1>1, <1>2, <1>5, <2>1 DEF LoggerTypeOK
<1>7. PlacesOK'
  BY <1>1, <1>2, <1>4 DEF IInv, PlacesOK
<1>8. OnePlace'
  <2>1. \A a \in Back : Held(full'[a]) \subseteq Held(full[a]) /\ Once(full'[a])
    BY <1>3, <1>4 DEF IInv, OnePlace
  <2>2. QED
    BY <1>2, <1>4, <2>1 DEF IInv, OnePlace
<1>9. Pending' = Pending \ ToSet(h) /\ ToSet(h) \subseteq Pending
  <2> DEFINE rest == Held(currentBuffer) \union Held(Queued)
  <2>1. Pending = rest \union UNION {Held(full[a]) : a \in Back}
    BY PendingPlaces
  <2>2. Pending' = rest \union UNION {Held(full'[a]) : a \in Back}
    BY <1>2 DEF Pending, Queued, Held
  <2>3. rest \intersect ToSet(h) = {}
    BY <1>3 DEF IInv, OnePlace
  <2>4. \A a \in Back \ {b} : Held(full[a]) \intersect ToSet(h) = {}
    BY <1>3 DEF IInv, OnePlace
  <2> HIDE DEF rest
  <2>5. ASSUME NEW x \in Pending' PROVE x \in Pending \ ToSet(h)
    <3>1. CASE x \in rest
      BY <2>1, <2>3, <3>1
    <3>2. CASE \E a \in Back : x \in Held(full'[a])
      <4>1. PICK a \in Back : x \in Held(full'[a])
        BY <3>2
      <4>2. x \in Held(full[a]) /\ x \notin ToSet(h)
        BY <1>3, <1>4, <2>4, <4>1
      <4>3. QED
        BY <2>1, <4>2
    <3>3. QED
      BY <2>2, <2>5, <3>1, <3>2
  <2>6. ASSUME NEW x \in Pending \ ToSet(h) PROVE x \in Pending'
    <3>1. CASE x \in rest
      BY <2>2, <3>1
    <3>2. CASE \E a \in Back : x \in Held(full[a])
      <4>1. PICK a \in Back : x \in Held(full[a])
        BY <3>2
      <4>2. x \in Held(full'[a])
        BY <1>3, <1>4, <2>6, <4>1
      <4>3. QED
        BY <2>2, <4>2
    <3>3. QED
      BY <2>1, <2>6, <3>1, <3>2
  <2>7. ToSet(h) \subseteq Pending
    BY <1>3, <2>1
  <2>8. QED
    BY <2>5, <2>6, <2>7
<1>10. Logged'
  BY <1>2, <1>5, <1>9 DEF IInv, Logged
<1>11. CASE h = <<>>
  <2>1. ToSet(h) = {}
    BY <1>11 DEF ToSet
  <2>2. written' = written
    BY <1>1, <1>2, <1>11
  <2>3. UNCHANGED File!vars
    BY <1>9, <2>1, <2>2 DEF File!vars
  <2>4. QED
    BY <1>6, <1>7, <1>8, <1>10, <2>3 DEF IInv
<1>12. CASE h # <<>>
  <2>1. /\ Len(written) \in Nat /\ Len(h) \in Nat \ {0}
        /\ Len(written') = Len(written) + Len(h) /\ DOMAIN h = 1 .. Len(h)
        /\ \A i \in 1 .. Len(written) : written'[i] = written[i]
        /\ \A i \in Len(written) + 1 .. Len(written') :
              /\ i - Len(written) \in DOMAIN h
              /\ written'[i] = h[i - Len(written)]
    BY <1>1, <1>2, <1>3, <1>12
  <2> DEFINE new == Len(written) + 1 .. Len(written')
  <2>2. \A i \in new : written'[i] \in ToSet(h)
    BY <2>1 DEF ToSet
  <2>3. \A i, j \in new : written'[i] = written'[j] => i = j
    <3>1. SUFFICES ASSUME NEW i \in new, NEW j \in new, written'[i] = written'[j]
                   PROVE  i = j
      OBVIOUS
    <3>2. i - Len(written) = j - Len(written)
      BY <1>3, <2>1, <3>1 DEF Distinct
    <3>3. QED
      BY <2>1, <3>2
  <2>4. ASSUME NEW x \in ToSet(h) PROVE x \in {written'[i] : i \in new}
    <3>1. PICK k \in 1 .. Len(h) : h[k] = x
      BY <2>1 DEF ToSet
    <3>2. Len(written) + k \in new /\ (Len(written) + k) - Len(written) = k
      BY <2>1
    <3>3. written'[Len(written) + k] = x
      BY <2>1, <3>1, <3>2
    <3>4. QED
      BY <3>2, <3>3
  <2>5. {written'[i] : i \in new} = ToSet(h)
    BY <2>2, <2>4
  <2>6. Len(written) < Len(written')
    BY <2>1
  <2>7. File!Write
    BY <1>9, <2>1, <2>2, <2>3, <2>5, <2>6 DEF File!Write
  <2>8. QED
    BY <1>6, <1>7, <1>8, <1>10, <2>7 DEF IInv
<1>13. QED
  BY <1>11, <1>12

(* A step that moves a thread that has nothing to write, and no message.   *)
LEMMA ControlKeeps ==
  ASSUME IInv, running' \in BOOLEAN,
         stopping' \in [Stopper -> {"no", "lock", "wait", "returned"}],
         UNCHANGED <<mutex, currentBuffer, buffers, emptys, full, written, accepted>>,
         \/ backPc' = backPc
         \/ \E b \in Back :
              \/ full[b] = <<>>
                 /\ \E l \in {"test", "lock", "wait", "drain"} : backPc' = [backPc EXCEPT ![b] = l]
              \/ full[b] = <<>> /\ mutex = b /\ backPc' = [backPc EXCEPT ![b] = "blocked"]
  PROVE  IInv' /\ UNCHANGED File!vars
<1>1. LoggerTypeOK
  BY DEF IInv
<1>2. /\ backPc' \in [Back -> {"none", "test", "lock", "wait", "write", "drain",
                           "rescue", "blocked"}]
      /\ \A b \in Back :
           \/ backPc'[b] = backPc[b]
           \/ /\ full[b] = <<>>
              /\ backPc'[b] \in {"test", "lock", "wait", "drain", "blocked"}
              /\ backPc'[b] = "blocked" => mutex = b
  BY <1>1 DEF LoggerTypeOK
<1>3. LoggerTypeOK'
  BY <1>1, <1>2 DEF LoggerTypeOK
<1>4. PlacesOK'
  BY <1>2 DEF IInv, PlacesOK
<1>5. OnePlace'
  BY DEF IInv, OnePlace, Queued
<1>6. Pending' = Pending
  BY DEF Pending, Held
<1>7. Logged'
  BY <1>6 DEF IInv, Logged
<1>8. QED
  BY <1>3, <1>4, <1>5, <1>6, <1>7 DEF IInv, File!vars

LEMMA OtherSteps ==
  ASSUME IInv,
         \/ \E b \in Back : \/ Start(b) \/ TestRunning(b) \/ WaitForBuffers(b)
                            \/ Written(b) \/ LockAgain(b)
         \/ \E s \in Stopper : ClearRunning(s) \/ WaitClosed(s) \/ WakeSpuriously(s)
         \/ UNCHANGED loggerVars
  PROVE  IInv' /\ UNCHANGED File!vars
<1>1. LoggerTypeOK
  BY DEF IInv
<1>back. ASSUME NEW b \in Back,
                \/ Start(b) \/ TestRunning(b) \/ WaitForBuffers(b)
                \/ Written(b) \/ LockAgain(b)
         PROVE  IInv' /\ UNCHANGED File!vars
  <2>1. /\ UNCHANGED <<mutex, currentBuffer, buffers, emptys, full, written, accepted>>
        /\ stopping' = stopping
    BY <1>back DEF Start, TestRunning, WaitForBuffers, Written, LockAgain
  <2>2. full[b] = <<>>
    BY <1>back DEF Start, TestRunning, WaitForBuffers, Written, LockAgain, IInv, PlacesOK
  <2>3. running' \in BOOLEAN
    BY Zenon, <1>1, <1>back
       DEF Start, TestRunning, WaitForBuffers, Written, LockAgain, LoggerTypeOK
  <2>4. \/ \E l \in {"test", "lock", "wait", "drain"} : backPc' = [backPc EXCEPT ![b] = l]
        \/ mutex = b /\ backPc' = [backPc EXCEPT ![b] = "blocked"]
    <3>1. CASE TestRunning(b)
      <4>1. backPc' = [backPc EXCEPT ![b] = "lock"] \/ backPc' = [backPc EXCEPT ![b] = "drain"]
        BY Zenon, <3>1 DEF TestRunning, GoTo
      <4>2. QED
        BY <4>1
    <3>2. CASE ~ TestRunning(b)
      BY <1>back, <3>2 DEF Start, WaitForBuffers, Written, LockAgain, GoTo, IInv, PlacesOK
    <3>3. QED
      BY <3>1, <3>2
  <2>5. stopping' \in [Stopper -> {"no", "lock", "wait", "returned"}]
    BY <1>1, <2>1 DEF LoggerTypeOK
  <2>6. QED
    BY <2>1, <2>2, <2>3, <2>4, <2>5, ControlKeeps
<1>stop. ASSUME NEW s \in Stopper,
                ClearRunning(s) \/ WaitClosed(s) \/ WakeSpuriously(s)
         PROVE  IInv' /\ UNCHANGED File!vars
  <2>1. /\ UNCHANGED <<mutex, currentBuffer, buffers, emptys, full, written, accepted>>
        /\ backPc' = backPc
    BY <1>stop DEF ClearRunning, WaitClosed, WakeSpuriously
  <2>2. running' \in BOOLEAN
    BY Zenon, <1>1, <1>stop DEF ClearRunning, WaitClosed, WakeSpuriously, LoggerTypeOK
  <2>3. stopping' \in [Stopper -> {"no", "lock", "wait", "returned"}]
    BY <1>1, <1>stop DEF ClearRunning, WaitClosed, WakeSpuriously, LoggerTypeOK
  <2>4. QED
    BY <2>1, <2>2, <2>3, ControlKeeps
<1>stutter. CASE UNCHANGED loggerVars
  <2>1. running' \in BOOLEAN
    BY Zenon, <1>1, <1>stutter DEF loggerVars, LoggerTypeOK
  <2>2. QED
    BY <1>1, <1>stutter, <2>1, ControlKeeps DEF loggerVars, LoggerTypeOK
<1>2. QED
  BY <1>back, <1>stop, <1>stutter

(* Every step keeps the invariant and is one of LogFile.                   *)
LEMMA InvInductive ==
  IInv /\ [LoggerNext]_loggerVars => IInv' /\ [File!Next]_(File!vars)
<1>1. SUFFICES ASSUME IInv, [LoggerNext]_loggerVars
               PROVE  IInv' /\ [File!Next]_(File!vars)
  OBVIOUS
<1>log. ASSUME NEW m \in Msg, Log(m)
        PROVE  IInv' /\ File!Next
  BY <1>1, <1>log, LogKeeps DEF File!Next
<1>take. ASSUME NEW b \in Back, Collect(b) \/ Drain(b)
         PROVE  IInv' /\ UNCHANGED File!vars
  BY <1>1, <1>take, TakeKeeps
<1>write. ASSUME NEW b \in Back, WriteBuffer(b)
          PROVE  IInv' /\ [File!Next]_(File!vars)
  BY <1>1, <1>write, WriteKeeps DEF File!Next
<1>others. ASSUME \/ \E b \in Back : \/ Start(b) \/ TestRunning(b) \/ WaitForBuffers(b)
                                   \/ Written(b) \/ LockAgain(b)
                  \/ \E s \in Stopper :
                       ClearRunning(s) \/ WaitClosed(s) \/ WakeSpuriously(s)
                  \/ UNCHANGED loggerVars
           PROVE  IInv' /\ UNCHANGED File!vars
  BY <1>1, <1>others, OtherSteps
<1>2. QED
  BY <1>1, <1>log, <1>take, <1>write, <1>others DEF LoggerNext, BackStep

-----------------------------------------------------------------------------
(* The order of the messages.                                              *)

(* The buffers bs spell the rest of s behind its first n messages: at[i]   *)
(* messages of s stand before the i-th buffer.                             *)
Spells(bs, s, n) ==
  \E at \in [1 .. Len(bs) + 1 -> 0 .. Len(s)] :
    /\ at[1] = n /\ at[Len(bs) + 1] = Len(s)
    /\ \A i \in 1 .. Len(bs) :
         /\ at[i + 1] = at[i] + Len(bs[i])
         /\ \A j \in 1 .. Len(bs[i]) : bs[i][j] = s[at[i] + j]

(* What FirstBack, while it is alone, has still to write, in this order.   *)
Line == full[FirstBack] \o Queued \o currentBuffer

Alone == \A b \in Back \ {FirstBack} : backPc[b] = "none"

InOrder ==
  /\ \A i \in 1 .. Len(written) : i <= Len(accepted) /\ written[i] = accepted[i]
  /\ Spells(Line, accepted, Len(written))

OrderOK == Alone => InOrder

(* A place in a part of a sequence is a place of the sequence.             *)
LEMMA Within ==
  ASSUME NEW a \in Nat, NEW b \in Nat, NEW n \in Nat, a + b <= n, NEW j \in 1 .. b
  PROVE  a + j \in 1 .. n
OBVIOUS

(* A message that is appended gets a buffer of its own ...                 *)
LEMMA SpellsNew ==
  ASSUME NEW bs \in Seq(Seq(Msg)), NEW s \in Seq(Msg), NEW n, NEW m \in Msg,
         Spells(bs, s, n)
  PROVE  Spells(Append(bs, <<m>>), Append(s, m), n)
<1> DEFINE cs == Append(bs, <<m>>)
           t == Append(s, m)
<1>1. /\ Len(bs) \in Nat /\ Len(cs) = Len(bs) + 1 /\ cs[Len(bs) + 1] = <<m>>
      /\ \A i \in 1 .. Len(bs) : cs[i] = bs[i] /\ Len(bs[i]) \in Nat
      /\ Len(s) \in Nat /\ Len(t) = Len(s) + 1 /\ t[Len(s) + 1] = m
      /\ \A i \in 1 .. Len(s) : t[i] = s[i]
      /\ Len(<<m>>) = 1 /\ <<m>>[1] = m
  OBVIOUS
<1>2. PICK at \in [1 .. Len(bs) + 1 -> 0 .. Len(s)] :
        /\ at[1] = n /\ at[Len(bs) + 1] = Len(s)
        /\ \A i \in 1 .. Len(bs) :
             /\ at[i + 1] = at[i] + Len(bs[i])
             /\ \A j \in 1 .. Len(bs[i]) : bs[i][j] = s[at[i] + j]
  BY DEF Spells
<1>at. \A i \in 1 .. Len(bs) + 1 : at[i] \in Nat /\ at[i] <= Len(s)
  <2>1. Len(s) \in Nat
    BY <1>1
  <2>2. \A i \in 1 .. Len(bs) + 1 : at[i] \in 0 .. Len(s)
    BY <1>2
  <2>3. QED
    BY <2>1, <2>2
<1> DEFINE new == [i \in 1 .. Len(cs) + 1 |-> IF i = Len(bs) + 2 THEN Len(t) ELSE at[i]]
<1> HIDE DEF cs, t
<1>3. /\ \A i \in 1 .. Len(bs) + 1 : new[i] = at[i]
      /\ new[Len(bs) + 2] = Len(s) + 1
      /\ new \in [1 .. Len(cs) + 1 -> 0 .. Len(t)]
  BY <1>1, <1>2
<1> HIDE DEF new
<1>4. ASSUME NEW i \in 1 .. Len(cs)
      PROVE  /\ new[i + 1] = new[i] + Len(cs[i])
             /\ \A j \in 1 .. Len(cs[i]) : cs[i][j] = t[new[i] + j]
  <2>1. CASE i = Len(bs) + 1
    <3>1. cs[i] = <<m>> /\ new[i] = Len(s) /\ new[i + 1] = Len(s) + 1
      BY <1>1, <1>2, <1>3, <2>1
    <3>2. QED
      BY <1>1, <3>1
  <2>2. CASE i \in 1 .. Len(bs)
    <3>1. cs[i] = bs[i] /\ new[i] = at[i] /\ new[i + 1] = at[i] + Len(bs[i])
      BY <1>1, <1>2, <1>3, <2>2
    <3>2. /\ at[i] \in Nat /\ at[i + 1] <= Len(s) /\ Len(bs[i]) \in Nat
          /\ at[i + 1] = at[i] + Len(bs[i])
      <4>1. i \in 1 .. Len(bs) + 1 /\ i + 1 \in 1 .. Len(bs) + 1
        BY <1>1, <2>2
      <4>2. QED
        BY <1>1, <1>2, <1>at, <2>2, <4>1
    <3>3. ASSUME NEW j \in 1 .. Len(bs[i]) PROVE t[at[i] + j] = s[at[i] + j]
      <4>1. at[i] + j \in 1 .. Len(s)
        <5>1. Len(s) \in Nat /\ at[i] + Len(bs[i]) <= Len(s)
          BY <1>1, <3>2
        <5>2. QED
          BY Zenon, <3>2, <5>1, Within
      <4>2. QED
        BY <1>1, <4>1
    <3>4. QED
      BY <1>2, <2>2, <3>1, <3>3
  <2>3. QED
    BY <1>1, <2>1, <2>2
<1>5. new[1] = n /\ new[Len(cs) + 1] = Len(t)
  BY <1>1, <1>2, <1>3
<1>6. Spells(cs, t, n)
  BY <1>3, <1>4, <1>5 DEF Spells
<1>7. QED
  BY <1>6 DEF cs, t

(* ... or is appended to the last one.                                     *)
LEMMA SpellsLonger ==
  ASSUME NEW bs \in Seq(Seq(Msg)), NEW c \in Seq(Msg), NEW s \in Seq(Msg),
         NEW n, NEW m \in Msg, Spells(Append(bs, c), s, n)
  PROVE  Spells(Append(bs, Append(c, m)), Append(s, m), n)
<1> DEFINE old == Append(bs, c)
           d == Append(c, m)
           cs == Append(bs, d)
           t == Append(s, m)
<1>0. /\ d \in Seq(Msg) /\ Len(d) = Len(c) + 1 /\ d[Len(c) + 1] = m
      /\ Len(c) \in Nat
      /\ \A i \in 1 .. Len(c) : d[i] = c[i]
  OBVIOUS
<1> HIDE DEF d
<1>1. /\ Len(bs) \in Nat /\ Len(old) = Len(bs) + 1 /\ Len(cs) = Len(bs) + 1
      /\ old[Len(bs) + 1] = c /\ cs[Len(bs) + 1] = d
      /\ \A i \in 1 .. Len(bs) : old[i] = bs[i] /\ cs[i] = bs[i] /\ Len(bs[i]) \in Nat
      /\ Len(s) \in Nat /\ Len(t) = Len(s) + 1 /\ t[Len(s) + 1] = m
      /\ \A i \in 1 .. Len(s) : t[i] = s[i]
  BY <1>0
<1>s. Spells(old, s, n)
  OBVIOUS
<1> HIDE DEF old, cs, t
<1>2. PICK at \in [1 .. Len(bs) + 2 -> 0 .. Len(s)] :
        /\ at[1] = n /\ at[Len(bs) + 2] = Len(s)
        /\ \A i \in 1 .. Len(bs) + 1 :
             /\ at[i + 1] = at[i] + Len(old[i])
             /\ \A j \in 1 .. Len(old[i]) : old[i][j] = s[at[i] + j]
  <2>1. Len(old) + 1 = Len(bs) + 2 /\ Len(old) = Len(bs) + 1
    BY <1>1
  <2>2. PICK at \in [1 .. Len(old) + 1 -> 0 .. Len(s)] :
          /\ at[1] = n /\ at[Len(old) + 1] = Len(s)
          /\ \A i \in 1 .. Len(old) :
               /\ at[i + 1] = at[i] + Len(old[i])
               /\ \A j \in 1 .. Len(old[i]) : old[i][j] = s[at[i] + j]
    BY <1>s DEF Spells
  <2>3. at \in [1 .. Len(bs) + 2 -> 0 .. Len(s)] /\ at[Len(bs) + 2] = Len(s)
    BY <2>1, <2>2
  <2>4. \A i \in 1 .. Len(bs) + 1 :
           /\ at[i + 1] = at[i] + Len(old[i])
           /\ \A j \in 1 .. Len(old[i]) : old[i][j] = s[at[i] + j]
    BY <2>1, <2>2
  <2>5. QED
    BY Zenon, <2>2, <2>3, <2>4
<1>at. \A i \in 1 .. Len(bs) + 2 : at[i] \in Nat /\ at[i] <= Len(s)
  <2>1. Len(s) \in Nat
    BY <1>1
  <2>2. \A i \in 1 .. Len(bs) + 2 : at[i] \in 0 .. Len(s)
    BY <1>2
  <2>3. QED
    BY <2>1, <2>2
<1> DEFINE new == [i \in 1 .. Len(cs) + 1 |-> IF i = Len(bs) + 2 THEN Len(t) ELSE at[i]]
<1>3. /\ \A i \in 1 .. Len(bs) + 1 : new[i] = at[i]
      /\ new[Len(bs) + 2] = Len(s) + 1
      /\ new \in [1 .. Len(cs) + 1 -> 0 .. Len(t)]
  BY <1>1, <1>2
<1> HIDE DEF new
<1>4. ASSUME NEW i \in 1 .. Len(cs)
      PROVE  /\ new[i + 1] = new[i] + Len(cs[i])
             /\ \A j \in 1 .. Len(cs[i]) : cs[i][j] = t[new[i] + j]
  <2>0. /\ new[i] = at[i] /\ at[i] \in Nat /\ at[i + 1] <= Len(s)
        /\ at[i + 1] = at[i] + Len(old[i])
        /\ i \in 1 .. Len(bs) + 1
    <3>1. i \in 1 .. Len(bs) + 1 /\ i \in 1 .. Len(bs) + 2 /\ i + 1 \in 1 .. Len(bs) + 2
      BY <1>1
    <3>2. QED
      BY <1>2, <1>3, <1>at, <3>1
  <2>1. CASE i = Len(bs) + 1
    <3>1. old[i] = c /\ cs[i] = d /\ at[i] + Len(c) = Len(s) /\ new[i + 1] = Len(s) + 1
      BY <1>1, <1>2, <1>3, <2>0, <2>1
    <3>2. ASSUME NEW j \in 1 .. Len(c) PROVE d[j] = t[at[i] + j]
      <4>1. at[i] + j \in 1 .. Len(s)
        <5>1. at[i] \in Nat /\ Len(c) \in Nat /\ at[i] + Len(c) = Len(s)
          BY <1>0, <2>0, <3>1
        <5>2. QED
          BY <5>1
      <4>2. c[j] = s[at[i] + j]
        <5>1. \A l \in 1 .. Len(old[i]) : old[i][l] = s[at[i] + l]
          BY Zenon, <1>2, <2>0
        <5>2. QED
          BY Zenon, <3>1, <5>1
      <4>3. d[j] = c[j]
        BY Zenon, <1>0
      <4>4. t[at[i] + j] = s[at[i] + j]
        BY Zenon, <1>1, <4>1
      <4>5. QED
        BY Zenon, <4>2, <4>3, <4>4
    <3>3. d[Len(c) + 1] = t[at[i] + (Len(c) + 1)]
      <4>1. at[i] + (Len(c) + 1) = Len(s) + 1
        BY <1>0, <2>0, <3>1
      <4>2. QED
        BY <1>0, <1>1, <4>1
    <3>4. new[i + 1] = new[i] + Len(cs[i])
      BY <1>0, <2>0, <3>1
    <3>5. ASSUME NEW j \in 1 .. Len(cs[i]) PROVE cs[i][j] = t[new[i] + j]
      <4>1. j \in 1 .. Len(c) \/ j = Len(c) + 1
        <5>1. j \in 1 .. Len(c) + 1 /\ Len(c) \in Nat
          BY <1>0, <3>1
        <5>2. QED
          BY <5>1
      <4>2. QED
        BY <2>0, <3>1, <3>2, <3>3, <4>1
    <3>6. QED
      BY <3>4, <3>5
  <2>2. CASE i \in 1 .. Len(bs)
    <3>1. /\ cs[i] = bs[i] /\ old[i] = bs[i] /\ new[i + 1] = at[i + 1]
          /\ Len(bs[i]) \in Nat
      <4>1. i + 1 \in 1 .. Len(bs) + 1
        BY <1>1, <2>2
      <4>2. QED
        BY <1>1, <1>3, <2>2, <4>1
    <3>2. ASSUME NEW j \in 1 .. Len(bs[i]) PROVE t[at[i] + j] = s[at[i] + j]
      <4>1. at[i] + j \in 1 .. Len(s)
        <5>1. at[i] \in Nat /\ Len(bs[i]) \in Nat /\ at[i] + Len(bs[i]) <= Len(s)
          BY <2>0, <3>1
        <5>2. Len(s) \in Nat
          BY <1>1
        <5>3. QED
          BY Zenon, <5>1, <5>2, Within
      <4>2. QED
        BY <1>1, <4>1
    <3>3. new[i + 1] = new[i] + Len(cs[i])
      BY <2>0, <3>1
    <3>4. ASSUME NEW j \in 1 .. Len(cs[i]) PROVE cs[i][j] = t[new[i] + j]
      <4>1. cs[i] = old[i] /\ new[i] = at[i]
        BY <2>0, <3>1
      <4>2. \A l \in 1 .. Len(old[i]) : old[i][l] = s[at[i] + l]
        BY Zenon, <1>2, <2>0
      <4>3. cs[i][j] = s[at[i] + j]
        BY <4>1, <4>2
      <4>4. t[at[i] + j] = s[at[i] + j]
        BY <3>1, <3>2
      <4>5. QED
        BY <4>1, <4>3, <4>4
    <3>5. QED
      BY <3>3, <3>4
  <2>3. QED
    BY <1>1, <2>1, <2>2
<1>5. new[1] = n /\ new[Len(cs) + 1] = Len(t)
  BY <1>1, <1>2, <1>3
<1>6. Spells(cs, t, n)
  BY <1>3, <1>4, <1>5 DEF Spells
<1>7. QED
  BY <1>6 DEF cs, d, t

(* The first buffer goes on where the first n messages end.                *)
LEMMA SpellsHead ==
  ASSUME NEW bs \in Seq(Seq(Msg)), bs # <<>>, NEW s \in Seq(Msg), NEW n,
         Spells(bs, s, n)
  PROVE  /\ n \in Nat /\ n + Len(Head(bs)) <= Len(s)
         /\ \A j \in 1 .. Len(Head(bs)) : Head(bs)[j] = s[n + j]
         /\ Spells(Tail(bs), s, n + Len(Head(bs)))
<1> DEFINE cs == Tail(bs)
<1>1. /\ Len(bs) \in Nat \ {0} /\ Len(cs) = Len(bs) - 1
      /\ \A i \in 1 .. Len(bs) - 1 : cs[i] = bs[i + 1]
      /\ Len(s) \in Nat /\ Head(bs) = bs[1]
  OBVIOUS
<1> HIDE DEF cs
<1>2. PICK at \in [1 .. Len(bs) + 1 -> 0 .. Len(s)] :
        /\ at[1] = n /\ at[Len(bs) + 1] = Len(s)
        /\ \A i \in 1 .. Len(bs) :
             /\ at[i + 1] = at[i] + Len(bs[i])
             /\ \A j \in 1 .. Len(bs[i]) : bs[i][j] = s[at[i] + j]
  BY DEF Spells
<1>3. /\ n \in Nat /\ at[2] = n + Len(bs[1]) /\ at[2] <= Len(s)
      /\ \A j \in 1 .. Len(bs[1]) : bs[1][j] = s[n + j]
  <2>1. 1 \in 1 .. Len(bs) /\ 2 \in 1 .. Len(bs) + 1 /\ 1 + 1 = 2 /\ 1 \in 1 .. Len(bs) + 1
    BY <1>1
  <2>2. at[1] \in 0 .. Len(s) /\ at[2] \in 0 .. Len(s)
    BY <1>2, <2>1
  <2>3. QED
    BY <1>1, <1>2, <2>1, <2>2
<1> DEFINE new == [i \in 1 .. Len(cs) + 1 |-> at[i + 1]]
<1>4. /\ \A i \in 1 .. Len(bs) : new[i] = at[i + 1]
      /\ new \in [1 .. Len(cs) + 1 -> 0 .. Len(s)]
  BY <1>1, <1>2
<1> HIDE DEF new
<1>5. ASSUME NEW i \in 1 .. Len(cs)
      PROVE  /\ new[i + 1] = new[i] + Len(cs[i])
             /\ \A j \in 1 .. Len(cs[i]) : cs[i][j] = s[new[i] + j]
  <2>1. /\ cs[i] = bs[i + 1] /\ new[i] = at[i + 1] /\ new[i + 1] = at[(i + 1) + 1]
        /\ i + 1 \in 1 .. Len(bs)
    BY <1>1, <1>4
  <2>2. QED
    BY <1>2, <2>1
<1>6. new[1] = n + Len(bs[1]) /\ new[Len(cs) + 1] = Len(s)
  <2>1. 1 \in 1 .. Len(bs) /\ Len(cs) + 1 = Len(bs) /\ Len(bs) \in 1 .. Len(bs) /\ 1 + 1 = 2
    BY <1>1
  <2>2. QED
    BY <1>2, <1>3, <1>4, <2>1
<1>7. Spells(cs, s, n + Len(bs[1]))
  BY <1>4, <1>5, <1>6 DEF Spells
<1>8. QED
  BY <1>1, <1>3, <1>7 DEF cs

-----------------------------------------------------------------------------
(* The steps keep the order.                                                *)

(* Sequences of buffers, regrouped and without their first.                *)
LEMMA Regroup ==
  ASSUME NEW bs \in Seq(Seq(Msg)), NEW cs \in Seq(Seq(Msg)), NEW ds \in Seq(Seq(Msg))
  PROVE  bs \o cs \o ds = bs \o (cs \o ds)
<1> DEFINE S == Seq(Msg)
<1>1. bs \in Seq(S) /\ cs \in Seq(S) /\ ds \in Seq(S)
  OBVIOUS
<1> HIDE DEF S
<1>2. QED
  BY <1>1, ConcatAssociative

LEMMA TailOfConcat ==
  ASSUME NEW S, NEW s \in Seq(S), s # <<>>, NEW t \in Seq(S)
  PROVE  Tail(s \o t) = Tail(s) \o t
<1>1. /\ Tail(s \o t) \in Seq(S) /\ Tail(s) \o t \in Seq(S)
      /\ Len(s) \in Nat \ {0} /\ Len(t) \in Nat
      /\ Len(Tail(s \o t)) = Len(s) + Len(t) - 1
      /\ Len(Tail(s) \o t) = Len(s) + Len(t) - 1
  OBVIOUS
<1>2. ASSUME NEW i \in 1 .. Len(s) + Len(t) - 1
      PROVE  Tail(s \o t)[i] = (Tail(s) \o t)[i]
  OBVIOUS
<1>3. QED
  BY <1>1, <1>2, SeqEqual

LEMMA OrderInitially == LoggerInit => OrderOK
<1>1. SUFFICES ASSUME LoggerInit PROVE InOrder
  BY DEF OrderOK
<1>2. Line = << <<>> >> /\ written = <<>> /\ accepted = <<>>
  BY <1>1, LoggerAssumption DEF LoggerInit, Line, Queued
<1> DEFINE at == [i \in 1 .. 2 |-> 0]
<1>3. Spells(<< <<>> >>, <<>>, 0)
  <2>1. at \in [1 .. Len(<< <<>> >>) + 1 -> 0 .. Len(<<>>)]
    OBVIOUS
  <2>2. at[1] = 0 /\ at[Len(<< <<>> >>) + 1] = Len(<<>>)
    OBVIOUS
  <2>3. \A i \in 1 .. Len(<< <<>> >>) :
          /\ at[i + 1] = at[i] + Len(<< <<>> >>[i])
          /\ \A j \in 1 .. Len(<< <<>> >>[i]) : << <<>> >>[i][j] = <<>>[at[i] + j]
    OBVIOUS
  <2> HIDE DEF at
  <2>4. QED
    BY <2>1, <2>2, <2>3 DEF Spells
<1>4. QED
  BY <1>2, <1>3 DEF InOrder

LEMMA LogInOrder ==
  ASSUME IInv, OrderOK, NEW m \in Msg, Log(m)
  PROVE  OrderOK'
<1>1. /\ mutex = Nobody /\ mutex' = Nobody /\ accepted' = Append(accepted, m)
      /\ UNCHANGED <<full, written, backPc>>
      /\ LoggerTypeOK
  BY DEF Log, IInv
<1>2. SUFFICES ASSUME Alone PROVE InOrder'
  BY <1>1 DEF OrderOK, Alone
<1>3. InOrder
  BY <1>2 DEF OrderOK
<1> DEFINE mine == full[FirstBack]
<1>4. /\ mine \in Seq(Seq(Msg)) /\ buffers \in Seq(Seq(Msg))
      /\ currentBuffer \in Seq(Seq(Msg)) /\ Len(currentBuffer) <= 1
      /\ accepted \in Seq(Msg) /\ written \in Seq(Msg)
      /\ Queued = buffers /\ Queued' = buffers' /\ mine' = mine
  BY <1>1, LoggerAssumption DEF LoggerTypeOK, Queued
<1> HIDE DEF mine
<1>5. /\ Line = mine \o buffers \o currentBuffer
      /\ Line' = mine \o buffers' \o currentBuffer'
  BY <1>4 DEF Line, mine
<1>6. Spells(Line', accepted', Len(written))
  <2>1. CASE MustExchange(m)
    <3>1. /\ buffers' = buffers \o currentBuffer /\ currentBuffer' = << <<m>> >>
          /\ <<m>> \in Seq(Msg)
      BY <2>1 DEF Log, WithCurrent
    <3>2. mine \o (buffers \o currentBuffer) = Line /\ Line \in Seq(Seq(Msg))
      <4>1. mine \o (buffers \o currentBuffer) = mine \o buffers \o currentBuffer
        BY Zenon, <1>4, Regroup
      <4>2. QED
        BY <1>4, <1>5, <4>1, ConcatProperties
    <3>3. Line' = Append(Line, <<m>>)
      BY <1>5, <3>1, <3>2, AppendIsConcat
    <3>4. QED
      BY <1>1, <1>3, <1>4, <3>2, <3>3, SpellsNew DEF InOrder
  <2>2. CASE ~ MustExchange(m)
    <3> DEFINE c == currentBuffer[1]
               front == mine \o buffers
    <3>1. /\ currentBuffer' = << Append(c, m) >> /\ buffers' = buffers
          /\ currentBuffer # <<>>
      BY <2>2 DEF Log, MustExchange
    <3>2. currentBuffer = << c >> /\ c \in Seq(Msg)
      <4>1. Len(currentBuffer) = 1
        BY <1>4, <3>1
      <4>2. QED
        BY <1>4, <4>1, Singleton
    <3>3. front \in Seq(Seq(Msg)) /\ Append(c, m) \in Seq(Msg)
      BY <1>4, <3>2, ConcatProperties
    <3>4. Line = front \o << c >> /\ Line' = front \o << Append(c, m) >>
      BY <1>5, <3>1, <3>2
    <3> HIDE DEF front, c
    <3>5. Line = Append(front, c) /\ Line' = Append(front, Append(c, m))
      BY <3>2, <3>3, <3>4, AppendIsConcat
    <3>6. QED
      BY <1>1, <1>3, <1>4, <3>2, <3>3, <3>5, SpellsLonger DEF InOrder
  <2>3. QED
    BY <2>1, <2>2
<1>7. \A i \in 1 .. Len(written) : i <= Len(accepted') /\ written[i] = accepted'[i]
  <2>1. /\ Len(accepted) \in Nat /\ Len(written) \in Nat
        /\ Len(accepted') = Len(accepted) + 1
        /\ \A i \in 1 .. Len(accepted) : accepted'[i] = accepted[i]
    BY <1>1, <1>4
  <2>2. QED
    BY <1>3, <2>1 DEF InOrder
<1>8. QED
  BY <1>1, <1>6, <1>7 DEF InOrder

(* FirstBack takes what is collected, in its order.                        *)
LEMMA TakeInOrder ==
  ASSUME IInv, OrderOK, NEW b \in Back, Collect(b) \/ Drain(b)
  PROVE  OrderOK'
<1>1. /\ LoggerTypeOK /\ mutex = Nobody /\ full[b] = <<>> /\ Queued = buffers
      /\ backPc[b] # "none"
  BY LoggerAssumption DEF Collect, Drain, IInv, PlacesOK, Queued
<1>2. /\ full' = [full EXCEPT ![b] = buffers \o currentBuffer]
      /\ currentBuffer' = <<>>
      /\ UNCHANGED <<written, accepted>>
      /\ Queued' = <<>>
      /\ backPc' = [backPc EXCEPT ![b] = "write"] \/ backPc' = [backPc EXCEPT ![b] = "rescue"]
  <2>1. CASE Collect(b)
    BY <1>1, <2>1 DEF Collect, Collected, WithCurrent, GoTo, Queued
  <2>2. CASE Drain(b)
    BY <1>1, <2>2, LoggerAssumption DEF Drain, WithCurrent, GoTo, Queued
  <2>3. QED
    BY <2>1, <2>2
<1>3. SUFFICES ASSUME Alone' PROVE InOrder'
  BY DEF OrderOK
<1>4. \A a \in Back : backPc'[a] = "none" => backPc[a] = "none" /\ a # b
  BY <1>1, <1>2 DEF LoggerTypeOK
<1>5. Alone /\ b = FirstBack
  BY <1>3, <1>4 DEF Alone
<1>6. InOrder
  BY <1>5 DEF OrderOK
<1> DEFINE taken == buffers \o currentBuffer
<1>7. /\ full[FirstBack] = <<>> /\ full'[FirstBack] = taken
      /\ buffers \in Seq(Seq(Msg)) /\ currentBuffer \in Seq(Seq(Msg))
      /\ taken \in Seq(Seq(Msg))
  BY <1>1, <1>2, <1>5, ConcatProperties DEF LoggerTypeOK
<1>8. Line' = taken
  <2>1. Line' = taken \o <<>> \o <<>>
    BY <1>2, <1>7 DEF Line
  <2>2. QED
    BY <1>7, <2>1, ConcatEmptySeq
<1>9. Line = taken
  <2>1. Line = <<>> \o buffers \o currentBuffer
    BY <1>1, <1>7 DEF Line
  <2>2. QED
    BY <1>7, <2>1, ConcatEmptySeq
<1>10. QED
  BY <1>2, <1>6, <1>8, <1>9 DEF InOrder

(* FirstBack writes the first buffer of the line.                          *)
LEMMA WriteInOrder ==
  ASSUME IInv, OrderOK, NEW b \in Back, WriteBuffer(b)
  PROVE  OrderOK'
<1> DEFINE h == Head(full[b])
           t == Tail(full[b])
<1>1. /\ LoggerTypeOK /\ full[b] \in Seq(Seq(Msg)) /\ full[b] # <<>>
      /\ backPc[b] # "none" /\ written \in Seq(Msg) /\ accepted \in Seq(Msg)
      /\ currentBuffer \in Seq(Seq(Msg)) /\ Queued \in Seq(Seq(Msg))
      /\ h \in Seq(Msg) /\ t \in Seq(Seq(Msg))
  BY DEF WriteBuffer, IInv, LoggerTypeOK, Queued
<1>2. /\ written' = written \o h /\ full' = [full EXCEPT ![b] = t]
      /\ UNCHANGED <<mutex, currentBuffer, buffers, accepted, backPc>>
      /\ Queued' = Queued
  BY DEF WriteBuffer, Queued
<1>3. SUFFICES ASSUME Alone PROVE InOrder'
  BY <1>2 DEF OrderOK, Alone
<1>4. InOrder /\ b = FirstBack
  BY <1>1, <1>3 DEF OrderOK, Alone
<1> DEFINE behind == Queued \o currentBuffer
<1>5. /\ behind \in Seq(Seq(Msg))
      /\ Line = full[b] \o behind
      /\ Line' = t \o behind
  <2>1. behind \in Seq(Seq(Msg))
    BY <1>1, ConcatProperties
  <2>2. Line = full[b] \o behind
    <3>1. full[b] \o Queued \o currentBuffer = full[b] \o behind
      BY Zenon, <1>1, Regroup
    <3>2. QED
      BY <1>4, <3>1 DEF Line
  <2>3. full'[b] = t
    BY <1>1, <1>2 DEF LoggerTypeOK
  <2>4. Line' = t \o Queued \o currentBuffer
    BY <1>2, <1>4, <2>3 DEF Line
  <2>5. t \o Queued \o currentBuffer = t \o behind
    BY Zenon, <1>1, Regroup
  <2>6. QED
    BY <2>1, <2>2, <2>4, <2>5
<1> HIDE DEF behind
<1>6. Line \in Seq(Seq(Msg)) /\ Line # <<>> /\ Head(Line) = h /\ Line' = Tail(Line)
  <2>1. full[b] \o behind \in Seq(Seq(Msg)) /\ full[b] \o behind # <<>>
    BY <1>1, <1>5
  <2>2. Head(full[b] \o behind) = h
    BY <1>1, <1>5
  <2>3. Tail(full[b] \o behind) = t \o behind
    BY <1>1, <1>5, TailOfConcat
  <2>4. QED
    BY <1>5, <2>1, <2>2, <2>3
<1> HIDE DEF h, t
<1>7. /\ Len(written) + Len(h) <= Len(accepted)
      /\ \A j \in 1 .. Len(h) : h[j] = accepted[Len(written) + j]
      /\ Spells(Line', accepted, Len(written) + Len(h))
  BY <1>1, <1>4, <1>6, SpellsHead DEF InOrder
<1>8. /\ Len(written) \in Nat /\ Len(h) \in Nat /\ Len(accepted) \in Nat
      /\ Len(written') = Len(written) + Len(h)
      /\ \A i \in 1 .. Len(written) : written'[i] = written[i]
      /\ \A i \in Len(written) + 1 .. Len(written') : written'[i] = h[i - Len(written)]
  BY <1>1, <1>2
<1>9. ASSUME NEW i \in 1 .. Len(written')
      PROVE  i <= Len(accepted) /\ written'[i] = accepted[i]
  <2>1. CASE i <= Len(written)
    BY <1>4, <1>8, <2>1 DEF InOrder
  <2>2. CASE i > Len(written)
    <3>1. i - Len(written) \in 1 .. Len(h) /\ Len(written) + (i - Len(written)) = i
      BY <1>8, <2>2
    <3>2. QED
      BY <1>7, <1>8, <2>2, <3>1
  <2>3. QED
    BY <1>8, <2>1, <2>2
<1>10. QED
  BY <1>2, <1>7, <1>8, <1>9 DEF InOrder

-----------------------------------------------------------------------------
(* The sizes of the buffers.                                               *)

(* What holds of 0 and, with n, of n + 1 holds of every number.            *)
LEMMA EveryNumber ==
  ASSUME NEW S \in SUBSET Nat, 0 \in S, \A n \in S : n + 1 \in S
  PROVE  S = Nat
<1> DEFINE R == OpToRel(<, Nat)
<1>1. IsWellFoundedOn(R, Nat)
  BY NatLessThanWellFounded
<1>2. SUFFICES ASSUME S # Nat PROVE FALSE
  OBVIOUS
<1> HIDE DEF R
<1>3. PICK x \in Nat \ S : \A y \in Nat \ S : <<y, x>> \notin R
  <2>1. Nat \ S \subseteq Nat /\ Nat \ S # {}
    BY <1>2
  <2>2. QED
    BY <1>1, <2>1, WFMin
<1>4. x # 0 /\ x - 1 \in Nat /\ x - 1 < x
  BY <1>3
<1>5. x - 1 \notin S
  BY <1>3, <1>4
<1>6. <<x - 1, x>> \in R
  BY <1>3, <1>4 DEF OpToRel, R
<1>7. QED
  BY <1>3, <1>4, <1>5, <1>6

(* sums[i] is the size of the first i messages of buffer b.                *)
AreSums(sums, b) ==
  /\ sums \in [0 .. Len(b) -> Nat]
  /\ sums[0] = 0
  /\ \A i \in 1 .. Len(b) : sums[i] = sums[i - 1] + Size[b[i]]

LEMMA SumsOfLonger ==
  ASSUME NEW b \in Seq(Msg), NEW m \in Msg, NEW sums, AreSums(sums, b)
  PROVE  LET longer == [i \in 0 .. Len(b) + 1 |->
                          IF i = Len(b) + 1 THEN sums[Len(b)] + Size[m] ELSE sums[i]]
         IN  /\ AreSums(longer, Append(b, m))
             /\ longer[Len(b) + 1] = sums[Len(b)] + Size[m]
<1> DEFINE longer == [i \in 0 .. Len(b) + 1 |->
                        IF i = Len(b) + 1 THEN sums[Len(b)] + Size[m] ELSE sums[i]]
           c == Append(b, m)
<1>1. /\ Len(b) \in Nat /\ Len(c) = Len(b) + 1 /\ c[Len(b) + 1] = m
      /\ \A i \in 1 .. Len(b) : c[i] = b[i]
      /\ Size[m] \in Nat
  BY LoggerAssumption
<1>2. /\ \A i \in 0 .. Len(b) : sums[i] \in Nat /\ longer[i] = sums[i]
      /\ sums[0] = 0
      /\ \A i \in 1 .. Len(b) : sums[i] = sums[i - 1] + Size[b[i]]
      /\ longer[Len(b) + 1] = sums[Len(b)] + Size[m]
  BY <1>1 DEF AreSums
<1> HIDE DEF c
<1>3. longer \in [0 .. Len(c) -> Nat]
  <2>1. Len(b) \in 0 .. Len(b)
    BY <1>1
  <2>0. sums[Len(b)] \in Nat /\ sums[Len(b)] + Size[m] \in Nat
    <3>1. sums[Len(b)] \in Nat
      BY <1>2, <2>1
    <3>2. QED
      BY <1>1, <3>1
  <2> HIDE DEF longer
  <2>2. ASSUME NEW i \in 0 .. Len(b) + 1 PROVE longer[i] \in Nat
    <3>1. CASE i = Len(b) + 1
      BY <1>2, <2>0, <3>1
    <3>2. CASE i \in 0 .. Len(b)
      BY <1>2, <3>2
    <3>3. QED
      BY <1>1, <3>1, <3>2
  <2>3. longer \in [0 .. Len(b) + 1 -> Nat]
    BY <2>2 DEF longer
  <2>4. QED
    BY <1>1, <2>3
<1> HIDE DEF longer
<1>4. ASSUME NEW i \in 1 .. Len(c) PROVE longer[i] = longer[i - 1] + Size[c[i]]
  <2>1. CASE i = Len(b) + 1
    BY <1>1, <1>2, <2>1
  <2>2. CASE i \in 1 .. Len(b)
    <3>1. i - 1 \in 0 .. Len(b) /\ i \in 0 .. Len(b)
      BY <1>1, <2>2
    <3>2. QED
      BY <1>1, <1>2, <2>2, <3>1
  <2>3. QED
    BY <1>1, <2>1, <2>2
<1>5. longer[0] = 0
  BY <1>1, <1>2
<1>6. AreSums(longer, c)
  BY <1>3, <1>4, <1>5 DEF AreSums
<1>7. QED
  BY <1>2, <1>6 DEF c, longer

LEMMA SumsExist ==
  ASSUME NEW b \in Seq(Msg)
  PROVE  \E sums : AreSums(sums, b)
<1> DEFINE S == {n \in Nat : \A c \in Seq(Msg) : Len(c) = n => \E sums : AreSums(sums, c)}
<1>1. 0 \in S
  <2>1. ASSUME NEW c \in Seq(Msg), Len(c) = 0 PROVE AreSums([i \in {0} |-> 0], c)
    <3>1. 0 .. Len(c) = {0} /\ 1 .. Len(c) = {}
      BY <2>1
    <3>2. QED
      BY <3>1 DEF AreSums
  <2>2. QED
    BY <2>1
<1>2. ASSUME NEW n \in S PROVE n + 1 \in S
  <2>1. ASSUME NEW c \in Seq(Msg), Len(c) = n + 1 PROVE \E sums : AreSums(sums, c)
    <3>1. c # <<>>
      BY <2>1
    <3>2. PICK front \in Seq(Msg), m \in Msg : c = Append(front, m)
      BY <3>1, SequenceEmptyOrAppend
    <3>3. Len(front) = n
      BY <2>1, <3>2
    <3>4. PICK sums : AreSums(sums, front)
      BY <1>2, <3>3
    <3>5. QED
      BY <3>2, <3>4, SumsOfLonger
  <2>2. QED
    BY <2>1
<1>3. S = Nat
  <2>1. S \in SUBSET Nat
    OBVIOUS
  <2> HIDE DEF S
  <2>2. QED
    BY <1>1, <1>2, <2>1, EveryNumber
<1>4. QED
  BY <1>3

(* Bytes is what these sums say.                                           *)
LEMMA BytesAreSums ==
  ASSUME NEW b \in Seq(Msg), NEW sums, AreSums(sums, b)
  PROVE  Bytes(b) = sums[Len(b)]
<1> DEFINE Step(f) == [i \in 0 .. Len(b) |->
                         IF i = 0 THEN 0 ELSE f[i - 1] + Size[b[i]]]
           upTo == CHOOSE f : f = Step(f)
<1>0. Len(b) \in Nat
  OBVIOUS
<1>1. sums = Step(sums)
  <2>1. ASSUME NEW i \in 0 .. Len(b)
        PROVE  sums[i] = IF i = 0 THEN 0 ELSE sums[i - 1] + Size[b[i]]
    BY <1>0 DEF AreSums
  <2>2. sums = [i \in 0 .. Len(b) |-> sums[i]]
    BY DEF AreSums
  <2>3. QED
    BY <2>1, <2>2
<1>2. upTo = Step(upTo)
  BY <1>1
<1>3. Bytes(b) = upTo[Len(b)]
  BY DEF Bytes
<1> HIDE DEF upTo
<1> DEFINE S == {i \in Nat : i > Len(b) \/ upTo[i] = sums[i]}
<1>4. 0 \in S
  BY <1>0, <1>2 DEF AreSums
<1>5. ASSUME NEW i \in S PROVE i + 1 \in S
  <2>1. CASE i + 1 > Len(b)
    BY <2>1
  <2>2. CASE i + 1 <= Len(b)
    <3>1. /\ i + 1 \in 0 .. Len(b) /\ i + 1 \in 1 .. Len(b) /\ i + 1 # 0
          /\ (i + 1) - 1 = i /\ ~ (i > Len(b))
      BY <1>0, <2>2
    <3>2. upTo[i + 1] = upTo[i] + Size[b[i + 1]]
      BY <1>2, <3>1
    <3>3. sums[i + 1] = sums[i] + Size[b[i + 1]]
      BY <3>1 DEF AreSums
    <3>4. QED
      BY <3>1, <3>2, <3>3
  <2>3. QED
    BY <1>0, <2>1, <2>2
<1>6. S = Nat
  <2>1. S \in SUBSET Nat
    OBVIOUS
  <2> HIDE DEF S
  <2>2. QED
    BY <1>4, <1>5, <2>1, EveryNumber
<1>7. QED
  BY <1>0, <1>3, <1>6

(* A message adds its size.                                                *)
LEMMA BytesOfLonger ==
  ASSUME NEW b \in Seq(Msg), NEW m \in Msg
  PROVE  /\ Bytes(b) \in Nat
         /\ Bytes(Append(b, m)) = Bytes(b) + Size[m]
<1>1. PICK sums : AreSums(sums, b)
  BY SumsExist
<1>2. Append(b, m) \in Seq(Msg) /\ Len(Append(b, m)) = Len(b) + 1 /\ Len(b) \in Nat
  OBVIOUS
<1>3. Bytes(b) = sums[Len(b)] /\ sums[Len(b)] \in Nat
  BY <1>1, <1>2, BytesAreSums DEF AreSums
<1>4. Bytes(Append(b, m)) = sums[Len(b)] + Size[m]
  <2> DEFINE longer == [i \in 0 .. Len(b) + 1 |->
                          IF i = Len(b) + 1 THEN sums[Len(b)] + Size[m] ELSE sums[i]]
  <2>1. /\ AreSums(longer, Append(b, m))
        /\ longer[Len(b) + 1] = sums[Len(b)] + Size[m]
    BY <1>1, SumsOfLonger
  <2> HIDE DEF longer
  <2>2. QED
    BY <1>2, <2>1, BytesAreSums
<1>5. QED
  BY <1>3, <1>4

LEMMA BytesOfNone == Bytes(<<>>) = 0
<1>1. AreSums([i \in {0} |-> 0], <<>>)
  <2>1. 0 .. Len(<<>>) = {0} /\ 1 .. Len(<<>>) = {}
    OBVIOUS
  <2>2. QED
    BY <2>1 DEF AreSums
<1>2. <<>> \in Seq(Msg) /\ Len(<<>>) = 0
  OBVIOUS
<1>3. QED
  BY <1>1, <1>2, BytesAreSums

LEMMA BytesOfOne ==
  ASSUME NEW m \in Msg
  PROVE  Bytes(<<m>>) = Size[m]
<1>1. Append(<<>>, m) = <<m>> /\ <<>> \in Seq(Msg)
  OBVIOUS
<1>2. Bytes(Append(<<>>, m)) = Bytes(<<>>) + Size[m]
  BY <1>1, BytesOfLonger
<1>3. QED
  BY <1>1, <1>2, BytesOfNone, LoggerAssumption

(* A buffer is full only because of a message that is too long for it.     *)
Fits(b) == (\A m \in ToSet(b) : Size[m] <= BufferSize) => Bytes(b) <= BufferSize

FitOK ==
  /\ \A i \in DOMAIN buffers : Fits(buffers[i])
  /\ \A i \in DOMAIN currentBuffer : Fits(currentBuffer[i])

(* Buffers that fit, one behind the other.                                 *)
LEMMA ConcatFits ==
  ASSUME NEW bs \in Seq(Seq(Msg)), NEW cs \in Seq(Seq(Msg)),
         \A i \in DOMAIN bs : Fits(bs[i]), \A i \in DOMAIN cs : Fits(cs[i])
  PROVE  \A i \in DOMAIN (bs \o cs) : Fits((bs \o cs)[i])
<1>1. /\ DOMAIN bs = 1 .. Len(bs) /\ DOMAIN cs = 1 .. Len(cs)
      /\ DOMAIN (bs \o cs) = 1 .. Len(bs) + Len(cs)
      /\ Len(bs) \in Nat /\ Len(cs) \in Nat
      /\ \A i \in 1 .. Len(bs) : (bs \o cs)[i] = bs[i]
      /\ \A i \in Len(bs) + 1 .. Len(bs) + Len(cs) : (bs \o cs)[i] = cs[i - Len(bs)]
  OBVIOUS
<1>2. ASSUME NEW i \in DOMAIN (bs \o cs) PROVE Fits((bs \o cs)[i])
  <2>1. CASE i \in DOMAIN bs
    BY <1>1, <2>1
  <2>2. CASE i \notin DOMAIN bs
    <3>1. i - Len(bs) \in DOMAIN cs /\ (bs \o cs)[i] = cs[i - Len(bs)]
      BY <1>1, <2>2
    <3>2. QED
      BY <3>1
  <2>3. QED
    BY <2>1, <2>2
<1>3. QED
  BY <1>2

(* As long as a buffer has no more than BUFFER_SIZE bytes the room that is *)
(* left does not wrap, and a message that goes in without an exchange fits.*)
LEMMA RoomIsReal ==
  ASSUME NEW used \in Nat, NEW size \in Nat, used <= BufferSize,
         ~ ((BufferSize - used) % (SizeMax + 1) < size)
  PROVE  used + size <= BufferSize
<1> DEFINE room == BufferSize - used
<1>1. room \in 0 .. SizeMax /\ SizeMax \in Nat /\ BufferSize \in Nat
  BY LoggerAssumption
<1>2. room % (SizeMax + 1) = room
  BY <1>1
<1>3. QED
  BY <1>1, <1>2

LEMMA FitInitially == LoggerInit => FitOK
<1>1. SUFFICES ASSUME LoggerInit PROVE FitOK
  OBVIOUS
<1>2. buffers = <<>> /\ currentBuffer = << <<>> >>
  BY <1>1 DEF LoggerInit
<1>3. Fits(<<>>)
  BY BytesOfNone, LoggerAssumption DEF Fits
<1>4. DOMAIN buffers = {} /\ DOMAIN currentBuffer = {1} /\ currentBuffer[1] = <<>>
  BY <1>2
<1>5. QED
  BY <1>3, <1>4 DEF FitOK

LEMMA LogFits ==
  ASSUME IInv, FitOK, NEW m \in Msg, Log(m)
  PROVE  FitOK'
<1>1. /\ buffers \in Seq(Seq(Msg)) /\ currentBuffer \in Seq(Seq(Msg))
      /\ Len(currentBuffer) <= 1 /\ Size[m] \in Nat
  BY LoggerAssumption DEF IInv, LoggerTypeOK
<1>2. CASE MustExchange(m)
  <2>1. buffers' = buffers \o currentBuffer /\ currentBuffer' = << <<m>> >>
    BY <1>2 DEF Log, WithCurrent
  <2>2. Fits(<<m>>)
    <3>1. ToSet(<<m>>) = {m} /\ Bytes(<<m>>) = Size[m]
      BY BytesOfOne DEF ToSet
    <3>2. QED
      BY <3>1 DEF Fits
  <2>3. \A i \in DOMAIN buffers' : Fits(buffers'[i])
    BY <1>1, <2>1, ConcatFits DEF FitOK
  <2>4. DOMAIN currentBuffer' = {1} /\ currentBuffer'[1] = <<m>>
    BY <2>1
  <2>5. QED
    BY <2>2, <2>3, <2>4 DEF FitOK
<1>3. CASE ~ MustExchange(m)
  <2> DEFINE c == currentBuffer[1]
             d == Append(c, m)
  <2>1. /\ currentBuffer' = << d >> /\ buffers' = buffers
        /\ currentBuffer # <<>>
        /\ ~ ((BufferSize - Bytes(c)) % (SizeMax + 1) < Size[m])
    BY <1>3 DEF Log, MustExchange
  <2>2. c \in Seq(Msg) /\ 1 \in DOMAIN currentBuffer
    BY <1>1, <2>1
  <2>3. /\ Bytes(c) \in Nat /\ Bytes(d) = Bytes(c) + Size[m]
        /\ ToSet(d) = ToSet(c) \union {m} /\ Fits(c)
    BY <2>2, BytesOfLonger, AppendBuffer DEF FitOK
  <2> HIDE DEF c, d
  <2>4. Fits(d)
    <3>1. SUFFICES ASSUME \A x \in ToSet(d) : Size[x] <= BufferSize
                   PROVE  Bytes(d) <= BufferSize
      BY DEF Fits
    <3>2. Bytes(c) <= BufferSize
      BY <2>3, <3>1 DEF Fits
    <3>3. QED
      BY <1>1, <2>1, <2>3, <3>2, RoomIsReal
  <2>5. DOMAIN currentBuffer' = {1} /\ currentBuffer'[1] = d
    BY <2>1
  <2>6. \A i \in DOMAIN buffers' : Fits(buffers'[i])
    BY <2>1 DEF FitOK
  <2>7. QED
    BY <2>4, <2>5, <2>6 DEF FitOK
<1>4. QED
  BY <1>2, <1>3

LEMMA TakeFits ==
  ASSUME IInv, FitOK, NEW b \in Back, Collect(b) \/ Drain(b)
  PROVE  FitOK'
<1>1. currentBuffer' = <<>> /\ (buffers' = <<>> \/ buffers' = buffers \o currentBuffer)
  BY DEF Collect, Drain, WithCurrent
<1>2. buffers \in Seq(Seq(Msg)) /\ currentBuffer \in Seq(Seq(Msg))
  BY DEF IInv, LoggerTypeOK
<1>3. DOMAIN currentBuffer' = {}
  BY <1>1
<1>4. \A i \in DOMAIN buffers' : Fits(buffers'[i])
  <2>1. CASE buffers' = <<>>
    BY <2>1
  <2>2. CASE buffers' = buffers \o currentBuffer
    BY <1>2, <2>2, ConcatFits DEF FitOK
  <2>3. QED
    BY <1>1, <2>1, <2>2
<1>5. QED
  BY <1>3, <1>4 DEF FitOK

-----------------------------------------------------------------------------
(* Order and size together.                                                *)

(* The other steps move no buffer.                                         *)
LEMMA RestInOrderAndFits ==
  ASSUME IInv, OrderOK, FitOK,
         \/ \E b \in Back : \/ Start(b) \/ TestRunning(b) \/ WaitForBuffers(b)
                            \/ Written(b) \/ LockAgain(b)
         \/ \E s \in Stopper : ClearRunning(s) \/ WaitClosed(s) \/ WakeSpuriously(s)
         \/ UNCHANGED loggerVars
  PROVE  OrderOK' /\ FitOK'
<1>1. /\ UNCHANGED <<mutex, currentBuffer, buffers, full, written, accepted>>
      /\ \A b \in Back : backPc'[b] = "none" => backPc[b] = "none"
  <2>1. ASSUME NEW b \in Back,
               \/ Start(b) \/ TestRunning(b) \/ WaitForBuffers(b)
               \/ Written(b) \/ LockAgain(b)
        PROVE  /\ UNCHANGED <<mutex, currentBuffer, buffers, full, written, accepted>>
               /\ \E l \in {"test", "lock", "wait", "drain", "blocked"} :
                    backPc' = [backPc EXCEPT ![b] = l]
    <3>1. CASE TestRunning(b)
      <4>1. backPc' = [backPc EXCEPT ![b] = "lock"] \/ backPc' = [backPc EXCEPT ![b] = "drain"]
        BY Zenon, <3>1 DEF TestRunning, GoTo
      <4>2. QED
        BY <3>1, <4>1 DEF TestRunning
    <3>2. CASE ~ TestRunning(b)
      BY <2>1, <3>2 DEF Start, WaitForBuffers, Written, LockAgain, GoTo
    <3>3. QED
      BY <3>1, <3>2
  <2>2. ASSUME NEW b \in Back,
               \E l \in {"test", "lock", "wait", "drain", "blocked"} :
                  backPc' = [backPc EXCEPT ![b] = l]
        PROVE  \A a \in Back : backPc'[a] = "none" => backPc[a] = "none"
    BY <2>2 DEF IInv, LoggerTypeOK
  <2>3. ASSUME NEW s \in Stopper, ClearRunning(s) \/ WaitClosed(s) \/ WakeSpuriously(s)
        PROVE  UNCHANGED <<mutex, currentBuffer, buffers, full, written, accepted, backPc>>
    BY <2>3 DEF ClearRunning, WaitClosed, WakeSpuriously
  <2>4. QED
    BY <2>1, <2>2, <2>3 DEF loggerVars
<1>2. OrderOK'
  <2>1. Line' = Line /\ (Alone' => Alone)
    BY <1>1 DEF Line, Queued, Alone
  <2>2. InOrder => InOrder'
    BY <1>1, <2>1 DEF InOrder
  <2>3. QED
    BY <2>1, <2>2 DEF OrderOK
<1>3. FitOK'
  BY <1>1 DEF FitOK
<1>4. QED
  BY <1>2, <1>3

LEMMA OrderInductive ==
  IInv /\ OrderOK /\ FitOK /\ [LoggerNext]_loggerVars => OrderOK' /\ FitOK'
<1>1. SUFFICES ASSUME IInv, OrderOK, FitOK, [LoggerNext]_loggerVars PROVE OrderOK' /\ FitOK'
  OBVIOUS
<1>log. ASSUME NEW m \in Msg, Log(m) PROVE OrderOK' /\ FitOK'
  BY <1>1, <1>log, LogInOrder, LogFits
<1>take. ASSUME NEW b \in Back, Collect(b) \/ Drain(b) PROVE OrderOK' /\ FitOK'
  BY <1>1, <1>take, TakeInOrder, TakeFits
<1>write. ASSUME NEW b \in Back, WriteBuffer(b) PROVE OrderOK' /\ FitOK'
  <2>1. UNCHANGED <<buffers, currentBuffer>>
    BY <1>write DEF WriteBuffer
  <2>2. FitOK'
    BY <1>1, <2>1 DEF FitOK
  <2>3. QED
    BY <1>1, <1>write, <2>2, WriteInOrder
<1>others. CASE \/ \E b \in Back : \/ Start(b) \/ TestRunning(b) \/ WaitForBuffers(b)
                                   \/ Written(b) \/ LockAgain(b)
                \/ \E s \in Stopper :
                     ClearRunning(s) \/ WaitClosed(s) \/ WakeSpuriously(s)
                \/ UNCHANGED loggerVars
  BY <1>1, <1>others, RestInOrderAndFits
<1>2. QED
  BY <1>1, <1>log, <1>take, <1>write, <1>others DEF LoggerNext, BackStep

-----------------------------------------------------------------------------
(* The theorems.                                                           *)

LEMMA InvAlways == LoggerSpec => []IInv
  BY InvInitially, InvInductive, PTL DEF LoggerSpec

LEMMA OrderAlways == LoggerSpec => [](OrderOK /\ FitOK)
  BY InvAlways, InvInductive, OrderInitially, FitInitially, OrderInductive, PTL DEF LoggerSpec

(* Every variable keeps its type: emptys_ stays within EMPTYS_MAX_SIZE     *)
(* (Logger.cpp:116).                                                       *)
THEOREM TypeCorrect == LoggerSpec => []LoggerTypeOK
<1>1. IInv => LoggerTypeOK
  BY DEF IInv
<1>2. QED
  BY <1>1, InvAlways, PTL

(* No message is lost or written twice between log() and the file, however *)
(* log(), the back threads and stop() interleave (Logger.cpp:57).          *)
THEOREM Refinement == LoggerSpec => ImplementsLogFile
<1>1. LoggerInit => File!Init
  <2>1. Held(<<>>) = {} /\ Held(<< <<>> >>) = {}
    BY DEF Held, ToSet
  <2>2. ASSUME LoggerInit PROVE Pending = {} /\ written = <<>>
    BY <2>1, <2>2 DEF LoggerInit, Pending
  <2>3. QED
    BY <2>2 DEF File!Init
<1>2. QED
  BY <1>1, InvAlways, InvInductive, PTL
     DEF LoggerSpec, ImplementsLogFile, File!Spec

(* The rescue at the end of backThread: a back thread that has left its    *)
(* loop leaves nothing but what another one writes (Logger.cpp:128).       *)
THEOREM RescueCorrect == LoggerSpec => []NothingLeftBehind
<1>1. IInv => NothingLeftBehind
  <2>1. SUFFICES ASSUME IInv, NEW b \in Back, backPc[b] = "blocked"
                 PROVE  Pending \subseteq UNION {Held(full[o]) : o \in Back \ {b}}
    BY DEF NothingLeftBehind
  <2>2. mutex = b /\ mutex # Nobody /\ currentBuffer = <<>> /\ full[b] = <<>>
    BY <2>1, LoggerAssumption DEF IInv, PlacesOK
  <2>3. Held(<<>>) = {}
    BY DEF Held
  <2>4. QED
    BY <2>2, <2>3 DEF Pending
<1>2. QED
  BY <1>1, InvAlways, PTL

(* As long as start() was only called by the constructor, the file has the *)
(* messages in the order of their log() (Logger.cpp:69, :124).             *)
THEOREM OrderCorrect == LoggerSpec => []WrittenInOrder
<1>1. IInv /\ OrderOK => WrittenInOrder
  <2>1. SUFFICES ASSUME IInv, InOrder PROVE IsPrefix(written, accepted)
    BY DEF WrittenInOrder, OrderOK, Alone
  <2>2. /\ written \in Seq(Msg) /\ accepted \in Seq(Msg)
        /\ Len(written) \in Nat /\ Len(accepted) \in Nat
    BY <2>1 DEF IInv, LoggerTypeOK
  <2>3. Len(written) <= Len(accepted)
    <3>1. Len(written) = 0 \/ Len(written) \in 1 .. Len(written)
      BY <2>2
    <3>2. QED
      BY <2>1, <2>2, <3>1 DEF InOrder
  <2>4. SubSeq(written, 1, Len(written)) = SubSeq(accepted, 1, Len(written))
    BY <2>1, <2>2, <2>3 DEF InOrder
  <2>5. QED
    BY <2>3, <2>4 DEF IsPrefix
<1>2. QED
  BY <1>1, InvAlways, OrderAlways, PTL

(* A buffer that is to be written has no more than BUFFER_SIZE bytes, or a *)
(* message longer than that (Logger.cpp:74).                               *)
THEOREM FitCorrect == LoggerSpec => []BuffersFit
<1>1. FitOK => BuffersFit
  BY DEF FitOK, Fits, BuffersFit
<1>2. QED
  BY <1>1, OrderAlways, PTL

(* What was logged is in the file or on its way there, not both, and the   *)
(* file has it once, however stop() and the back threads interleave with   *)
(* the exchange of the buffers (Logger.cpp:57, 110, 128).                  *)
OnceInFile ==
  /\ ToSet(accepted) = Pending \union ToSet(written)
  /\ Pending \intersect ToSet(written) = {}
  /\ Distinct(written)

(* The abstract log keeps its messages apart, and one for each log().      *)
LEMMA OnceInductive ==
  ASSUME IInv, OnceInFile, [LoggerNext]_loggerVars
  PROVE  OnceInFile'
<1>1. /\ accepted \in Seq(Msg) /\ written \in Seq(Msg) /\ written' \in Seq(Msg)
  BY InvInductive DEF IInv, LoggerTypeOK
<1>2. ASSUME NEW m \in Msg, Log(m)
      PROVE  OnceInFile'
  <2>1. File!Accept(m)
    BY <1>2, LogKeeps
  <2>2. /\ Pending' = Pending \union {m} /\ written' = written
        /\ m \notin Pending /\ \A i \in DOMAIN written : written[i] # m
    BY <2>1 DEF File!Accept, File!InFile
  <2>3. m \notin ToSet(written)
    BY <2>2 DEF ToSet
  <2>4. ToSet(accepted') = ToSet(accepted) \union {m}
    <3>1. accepted' = Append(accepted, m)
      BY <1>2 DEF Log
    <3>2. QED
      BY <1>1, <3>1, AppendBuffer
  <2>5. QED
    BY <2>2, <2>3, <2>4 DEF OnceInFile
<1> USE DEF ToSet
<1>3. ASSUME accepted' = accepted, UNCHANGED File!vars
      PROVE  OnceInFile'
  BY <1>3 DEF File!vars, OnceInFile
<1>4. ASSUME accepted' = accepted, File!Write
      PROVE  OnceInFile'
  <2> DEFINE new == Len(written) + 1 .. Len(written')
  <2>1. /\ Len(written) < Len(written')
        /\ \A i \in 1 .. Len(written) : written'[i] = written[i]
        /\ \A i \in new : written'[i] \in Pending
        /\ \A i, j \in new : written'[i] = written'[j] => i = j
        /\ Pending' = Pending \ {written'[i] : i \in new}
    BY <1>4 DEF File!Write
  <2>2. /\ DOMAIN written = 1 .. Len(written) /\ DOMAIN written' = 1 .. Len(written')
        /\ Len(written) \in Nat /\ Len(written') \in Nat
    BY <1>1
  <2>3. DOMAIN written' = DOMAIN written \union new /\ DOMAIN written \intersect new = {}
    BY <2>1, <2>2
  <2> HIDE DEF new
  <2> DEFINE taken == {written'[i] : i \in new}
             before == {written'[i] : i \in DOMAIN written}
  <2>4. before = ToSet(written)
    BY <2>1, <2>2
  <2>5. ToSet(written') = before \union taken
    BY <2>3
  <2>6. taken \subseteq Pending /\ Pending' = Pending \ taken
    BY <2>1
  <2>7. ToSet(accepted') = ToSet(accepted)
    BY <1>4
  <2> HIDE DEF taken, before
  <2>8. ToSet(written') = ToSet(written) \union taken
    BY <2>4, <2>5, Zenon
  <2>9. /\ ToSet(accepted') = Pending' \union ToSet(written')
        /\ Pending' \intersect ToSet(written') = {}
    <3> HIDE DEF ToSet
    <3>1. /\ ToSet(accepted) = Pending \union ToSet(written)
          /\ Pending \intersect ToSet(written) = {}
      BY DEF OnceInFile
    <3>2. QED
      BY <2>8, <2>6, <2>7, <3>1
  <2>10. \A i \in DOMAIN written, j \in new : written'[i] # written'[j]
    BY <2>1, <2>2 DEF OnceInFile
  <2>11. \A i, j \in DOMAIN written : written'[i] = written'[j] => i = j
    BY <2>1, <2>2 DEF OnceInFile, Distinct
  <2>12. Distinct(written')
    BY <2>1, <2>3, <2>10, <2>11 DEF Distinct
  <2>13. QED
    BY <2>9, <2>12 DEF OnceInFile
<1>5. CASE \A m \in Msg : ~ Log(m)
  <2>1. accepted' = accepted
    BY <1>5 DEF LoggerNext, BackStep, Start, TestRunning, WaitForBuffers, Collect, WriteBuffer,
       Written, Drain, LockAgain, ClearRunning, WaitClosed, WakeSpuriously, loggerVars
  <2>2. File!Write \/ UNCHANGED File!vars
    BY <1>5, TakeKeeps, WriteKeeps, OtherSteps DEF LoggerNext, BackStep
  <2>3. QED
    BY <1>3, <1>4, <2>1, <2>2
<1>6. QED
  BY <1>2, <1>5

(* For every number of back threads, stoppers and messages.                *)
THEOREM OnceCorrect == LoggerSpec => []OnceInFile
<1>1. LoggerInit => OnceInFile
  <2>1. Held(<<>>) = {} /\ Held(<< <<>> >>) = {}
    BY DEF Held, ToSet
  <2>2. ASSUME LoggerInit PROVE Pending = {} /\ written = <<>> /\ accepted = <<>>
    BY <2>1, <2>2 DEF LoggerInit, Pending
  <2>3. QED
    BY <2>2 DEF OnceInFile, ToSet, Distinct
<1>2. QED
  BY <1>1, OnceInductive, InvAlways, PTL DEF LoggerSpec
=============================================================================
