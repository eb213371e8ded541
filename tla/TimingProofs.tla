----------------------------- MODULE TimingProofs -----------------------------
(***************************************************************************)
(* What TLAPS proves of the components that MCTiming puts side by side:    *)
(* TimeWheeling and Timer.                                                 *)
(***************************************************************************)
EXTENDS MCTiming, FiniteSetTheorems, TLAPS

-----------------------------------------------------------------------------
(* TimeWheeling, for every set of connections and every size of the wheel. *)
(* The inductive invariant, in parts.                                      *)

(* One connection r, with what is queued for it.                           *)
ConnOK(r, tasks) ==
  /\ r \in ConnType
  /\ tasks \in {<<>>, <<"delete">>, <<"destroy">>}
  /\ r.mem = "none" => r = NoConn /\ tasks = <<>>
  /\ r.event = "live" <=> r.state = "ESTABLISHED"
  /\ r.event = "freed" <=> r.state = "CLOSED"
  /\ r.event = "none" => r.mem = "none"
  /\ r.event = "live" => r.mem = "live" /\ r.told = 0
  /\ tasks # <<>> => r.mem = "live"
  /\ tasks = <<"delete">> => r.state = "CLOSED"
  /\ tasks = <<"destroy">> /\ r.event # "live" => r.overtaken
  /\ r.twice => r.overtaken
  /\ ~ r.dangling

ConnsOK == \A c \in Conn : ConnOK(conn[c], queued[c])

(* What bucket b holds besides the connections of todo: clear() will empty *)
(* the bucket that is being swept.                                         *)
Kept(b) == IF sweeping /\ b = CheckIndex THEN {} ELSE wheel[b]

(* A connection that the main thread may still look at, of which it alone  *)
(* has a pointer that leads to a delete.                                   *)
Unclaimed(r, tasks) == r.mem = "live" /\ tasks = <<>>

(* The wheel and what is left of the sweep hold each such connection once. *)
HoldsOnce ==
  /\ \A c \in todo : Unclaimed(conn[c], queued[c])
  /\ \A b \in Bucket : \A c \in Kept(b) : Unclaimed(conn[c], queued[c]) /\ c \notin todo
  /\ \A a, b \in Bucket : a # b => Kept(a) \intersect Kept(b) = {}

SweepOK ==
  /\ ~ sweeping => todo = {}
  /\ looking # NoOne => looking \in todo
  /\ looking = NoOne <=> seen = "nothing"

(* A connection that was ESTABLISHED at the second read: a close since     *)
(* then has been taken down.                                               *)
SeenOK ==
  \A c \in Conn :
    looking = c /\ seen \in {"established", "idle"} /\ conn[c].event # "live" =>
      conn[c].overtaken

(* Only the current bucket and the one before it hold anything, and what   *)
(* is in the current one was put there since it became current.            *)
AgesOK ==
  /\ \A b \in Bucket : Kept(b) # {} => b \in {cur, CheckIndex}
  /\ \A b \in Bucket : \A c \in Kept(b) : silence[c] <= MaxIdle
  /\ ~ sweeping => \A c \in wheel[cur] : silence[c] = 0

IInv == TypeOK /\ ConnsOK /\ HoldsOnce /\ SweepOK /\ SeenOK /\ AgesOK

-----------------------------------------------------------------------------
(* The hand of the wheel.                                                  *)

LEMMA ModOnce ==
  ASSUME NEW m \in Nat \ {0}, NEW r \in 0 .. m - 1
  PROVE  r % m = r /\ (r + m) % m = r
  BY SMT

(* One turn: the bucket that was current is the one to be checked next.    *)
LEMMA Turn ==
  ASSUME NEW i \in Bucket
  PROVE  /\ (i + 1) % MaxIdle \in Bucket
         /\ (i + 1) % MaxIdle # i
         /\ (i + MaxIdle - 1) % MaxIdle \in Bucket
         /\ (i + MaxIdle - 1) % MaxIdle # i
         /\ (((i + 1) % MaxIdle) + MaxIdle - 1) % MaxIdle = i
<1>1. MaxIdle \in Nat \ {0} /\ MaxIdle >= 2 /\ i \in 0 .. MaxIdle - 1
  BY TimeWheelingAssumption DEF Bucket
<1>2. CASE i = 0
  <2>1. 1 % MaxIdle = 1 /\ (MaxIdle - 1) % MaxIdle = MaxIdle - 1
        /\ (0 + MaxIdle) % MaxIdle = 0
    BY <1>1, ModOnce
  <2>2. QED
    BY <1>1, <1>2, <2>1 DEF Bucket
<1>3. CASE i = MaxIdle - 1
  <2>1. (0 + MaxIdle) % MaxIdle = 0
        /\ ((MaxIdle - 2) + MaxIdle) % MaxIdle = MaxIdle - 2
        /\ (MaxIdle - 1) % MaxIdle = MaxIdle - 1
    BY <1>1, ModOnce
  <2>2. i + 1 = 0 + MaxIdle /\ i + MaxIdle - 1 = (MaxIdle - 2) + MaxIdle
    BY <1>1, <1>3
  <2>3. QED
    BY <1>1, <1>3, <2>1, <2>2 DEF Bucket
<1>4. CASE i # 0 /\ i # MaxIdle - 1
  <2>1. i + 1 \in 0 .. MaxIdle - 1 /\ i - 1 \in 0 .. MaxIdle - 1
    BY <1>1, <1>4
  <2>2. (i + 1) % MaxIdle = i + 1 /\ ((i - 1) + MaxIdle) % MaxIdle = i - 1
        /\ (i + MaxIdle) % MaxIdle = i
    BY <1>1, <2>1, ModOnce
  <2>3. i + MaxIdle - 1 = (i - 1) + MaxIdle /\ (i + 1) + MaxIdle - 1 = i + MaxIdle
    BY <1>1
  <2>4. QED
    BY <1>1, <1>4, <2>1, <2>2, <2>3 DEF Bucket
<1>5. QED
  BY <1>2, <1>3, <1>4

-----------------------------------------------------------------------------
(* The steps.                                                              *)

LEMMA InvInitially == Init => IInv
<1>1. SUFFICES ASSUME Init PROVE IInv
  OBVIOUS
<1>2. NoConn \in ConnType
  <2>1. 0 \in 0 .. 1
    OBVIOUS
  <2>2. QED
    BY Zenon, <2>1 DEF NoConn, ConnType
<1>3. 0 \in Bucket /\ 0 \in 0 .. MaxIdle + 1 /\ <<>> \in Seq({"delete", "destroy"})
  BY TimeWheelingAssumption DEF Bucket
<1>4. TypeOK
  BY <1>1, <1>2, <1>3 DEF Init, TypeOK
<1>5. ConnOK(NoConn, <<>>)
  BY <1>2 DEF ConnOK, NoConn
<1>6. \A b \in Bucket : Kept(b) = {}
  BY <1>1 DEF Init, Kept
<1>7. ConnsOK /\ HoldsOnce /\ SweepOK /\ SeenOK /\ AgesOK
  BY <1>1, <1>3, <1>5, <1>6 DEF Init, ConnsOK, HoldsOnce, SweepOK, SeenOK, AgesOK
<1>8. QED
  BY <1>4, <1>7 DEF IInv

(* What the invariant says of one connection.                              *)
LEMMA InvOf ==
  ASSUME IInv, NEW c \in Conn
  PROVE  /\ conn[c] \in ConnType /\ ConnOK(conn[c], queued[c])
         /\ silence[c] \in 0 .. MaxIdle + 1
  BY DEF IInv, TypeOK, ConnsOK

(* A step of a loop: it changes one connection and what is queued for it,  *)
(* claims none for a delete, and makes none older.                         *)
LEMMA OneConnection ==
  ASSUME IInv, NEW c \in Conn, NEW r, NEW tasks,
         conn' = [conn EXCEPT ![c] = r], queued' = [queued EXCEPT ![c] = tasks],
         ConnOK(r, tasks),
         Unclaimed(conn[c], queued[c]) => Unclaimed(r, tasks),
         looking = c /\ seen \in {"established", "idle"} /\ r.event # "live" => r.overtaken,
         silence' = silence \/ silence' = [silence EXCEPT ![c] = 0],
         unheard' = unheard \ {c},
         UNCHANGED <<source, wheel, cur, todo, sweeping, looking, seen>>
  PROVE  IInv'
<1>1. TypeOK /\ r \in ConnType /\ tasks \in Seq({"delete", "destroy"})
  <2>1. /\ <<>> \in Seq({"delete", "destroy"})
        /\ <<"delete">> \in Seq({"delete", "destroy"})
        /\ <<"destroy">> \in Seq({"delete", "destroy"})
    OBVIOUS
  <2>2. QED
    BY <2>1 DEF IInv, ConnOK
<1>2. /\ conn'[c] = r /\ queued'[c] = tasks
      /\ \A d \in Conn \ {c} : conn'[d] = conn[d] /\ queued'[d] = queued[d]
      /\ \A d \in Conn : silence'[d] \in {0, silence[d]}
  BY <1>1 DEF TypeOK
<1>3. TypeOK'
  <2>1. conn' \in [Conn -> ConnType] /\ queued' \in [Conn -> Seq({"delete", "destroy"})]
    BY <1>1 DEF TypeOK
  <2>2. 0 \in 0 .. MaxIdle + 1
    BY TimeWheelingAssumption
  <2>3. silence' \in [Conn -> 0 .. MaxIdle + 1]
    <3>1. CASE silence' = silence
      BY <1>1, <3>1 DEF TypeOK
    <3>2. CASE silence' = [silence EXCEPT ![c] = 0]
      BY <1>1, <2>2, <3>2 DEF TypeOK
    <3>3. QED
      BY <3>1, <3>2
  <2>4. unheard' \subseteq Conn
    BY <1>1 DEF TypeOK
  <2>5. QED
    BY <1>1, <2>1, <2>3, <2>4 DEF TypeOK, Bucket
<1>4. ConnsOK'
  BY <1>2 DEF IInv, ConnsOK
<1>5. \A d \in Conn : Unclaimed(conn[d], queued[d]) => Unclaimed(conn'[d], queued'[d])
  BY <1>2
<1>6. \A b \in Bucket : Kept(b)' = Kept(b) /\ Kept(b) \subseteq Conn
  BY <1>1 DEF Kept, CheckIndex, TypeOK
<1>7. HoldsOnce'
  BY <1>1, <1>5, <1>6 DEF IInv, HoldsOnce, TypeOK
<1>8. SweepOK' /\ SeenOK'
  BY <1>2 DEF IInv, SweepOK, SeenOK
<1>9. AgesOK'
  <2>1. \A d \in Conn : silence'[d] = 0 \/ silence'[d] = silence[d]
    BY <1>2
  <2>2. wheel[cur] \subseteq Conn
    BY <1>1 DEF TypeOK
  <2>3. QED
    BY <1>6, <2>1, <2>2, TimeWheelingAssumption DEF IInv, AgesOK, CheckIndex
<1>10. QED
  BY <1>3, <1>4, <1>7, <1>8, <1>9 DEF IInv

(* Records that differ in one flag.                                        *)
LEMMA ConnFlags ==
  ASSUME NEW r \in ConnType, NEW b \in BOOLEAN
  PROVE  /\ [r EXCEPT !.closing = b] \in ConnType
         /\ [r EXCEPT !.overtaken = b] \in ConnType
         /\ [r EXCEPT !.missed = b] \in ConnType
         /\ [r EXCEPT !.twice = b] \in ConnType
         /\ [r EXCEPT !.dangling = b] \in ConnType
<1>closing. [r EXCEPT !.closing = b] \in ConnType
  BY DEF ConnType
<1>overtaken. [r EXCEPT !.overtaken = b] \in ConnType
  BY DEF ConnType
<1>missed. [r EXCEPT !.missed = b] \in ConnType
  BY DEF ConnType
<1>twice. [r EXCEPT !.twice = b] \in ConnType
  BY DEF ConnType
<1>dangling. [r EXCEPT !.dangling = b] \in ConnType
  BY DEF ConnType
<1>1. QED
  BY <1>closing, <1>overtaken, <1>missed, <1>twice, <1>dangling

(* destroy() of a connection that was accepted: a second one is told from  *)
(* a first one.                                                            *)
LEMMA DestroyType ==
  ASSUME NEW r \in ConnType, r.mem = "live", ~ r.dangling
  PROVE  /\ Destroy(r) \in ConnType
         /\ Destroy(r).state = "CLOSED" /\ Destroy(r).event = "freed"
         /\ Destroy(r).mem = "live" /\ Destroy(r).told = r.told
         /\ Destroy(r).twice <=> r.twice \/ r.event = "freed"
         /\ Destroy(r).overtaken <=> r.overtaken
         /\ ~ Destroy(r).dangling
<1> DEFINE shut == [r EXCEPT !.state = "CLOSED"]
           gone == [shut EXCEPT !.event = "freed"]
           both == [gone EXCEPT !.twice = r.twice \/ r.event = "freed"]
           new  == [both EXCEPT !.dangling = r.dangling \/ r.mem = "freed"]
<1>1. shut \in ConnType
  BY DEF ConnType
<1>2. gone \in ConnType
  <2> HIDE DEF shut
  <2>1. QED
    BY <1>1 DEF ConnType
<1>3. both \in ConnType
  <2> HIDE DEF gone
  <2>1. (r.twice \/ r.event = "freed") \in BOOLEAN
    OBVIOUS
  <2>2. QED
    BY <1>2, <2>1, ConnFlags
<1>4. new \in ConnType
  <2> HIDE DEF both
  <2>1. (r.dangling \/ r.mem = "freed") \in BOOLEAN
    OBVIOUS
  <2>2. QED
    BY <1>3, <2>1, ConnFlags
<1>5. Destroy(r) = new
  BY DEF Destroy, ConnType
<1>6. /\ new.state = "CLOSED" /\ new.event = "freed"
      /\ new.mem = r.mem /\ new.told = r.told
      /\ new.twice <=> r.twice \/ r.event = "freed"
      /\ new.overtaken <=> r.overtaken
      /\ ~ new.dangling
  BY DEF ConnType
<1> HIDE DEF new
<1>7. QED
  BY <1>4, <1>5, <1>6

(* delete of a connection, which is the first one.                         *)
LEMMA DeleteType ==
  ASSUME NEW r \in ConnType, r.mem = "live", ~ r.dangling
  PROVE  /\ Delete(r) \in ConnType /\ Delete(r).mem = "freed"
         /\ Delete(r).state = r.state /\ Delete(r).event = r.event
         /\ Delete(r).told = r.told
         /\ Delete(r).twice <=> r.twice
         /\ Delete(r).overtaken <=> r.overtaken
         /\ ~ Delete(r).dangling
<1> DEFINE gone == [r EXCEPT !.mem = "freed"]
           new  == [gone EXCEPT !.dangling = r.dangling \/ r.mem = "freed"]
<1>1. gone \in ConnType
  BY DEF ConnType
<1>2. new \in ConnType
  <2> HIDE DEF gone
  <2>1. (r.dangling \/ r.mem = "freed") \in BOOLEAN
    OBVIOUS
  <2>2. QED
    BY <1>1, <2>1, ConnFlags
<1>3. Delete(r) = new
  BY DEF Delete, ConnType
<1>4. /\ new.mem = "freed" /\ new.state = r.state /\ new.event = r.event
      /\ new.told = r.told
      /\ new.twice <=> r.twice
      /\ new.overtaken <=> r.overtaken
      /\ ~ new.dangling
  BY DEF ConnType
<1> HIDE DEF new
<1>5. QED
  BY <1>2, <1>3, <1>4

(* A message: the connection is no longer silent.                          *)
LEMMA ReceiveKeeps ==
  ASSUME IInv, NEW c \in Conn, Receive(c)
  PROVE  IInv'
<1>1. conn' = [conn EXCEPT ![c] = conn[c]] /\ queued' = [queued EXCEPT ![c] = queued[c]]
  BY DEF Receive, Serves, IInv, TypeOK
<1>2. conn[c].event = "live"
  BY DEF Receive, Serves
<1>3. QED
  BY <1>1, <1>2, InvOf, OneConnection DEF Receive, Serves

(* A close that waits for output.                                          *)
LEMMA PostponeKeeps ==
  ASSUME IInv, NEW c \in Conn, Postpone(c)
  PROVE  IInv'
<1> DEFINE old == conn[c]
           r   == [old EXCEPT !.closing = TRUE]
<1>1. old \in ConnType /\ ConnOK(old, queued[c]) /\ old.event = "live"
  BY InvOf DEF Postpone, Serves
<1>2. r \in ConnType
  BY <1>1, ConnFlags
<1>3. /\ r.mem = old.mem /\ r.state = old.state /\ r.event = old.event
      /\ r.told = old.told
      /\ r.twice <=> old.twice
      /\ r.overtaken <=> old.overtaken
      /\ r.dangling <=> old.dangling
  BY <1>1 DEF ConnType
<1>4. /\ conn' = [conn EXCEPT ![c] = r] /\ queued' = [queued EXCEPT ![c] = queued[c]]
      /\ unheard' = unheard \ {c}
      /\ UNCHANGED <<source, wheel, cur, todo, sweeping, looking, seen, silence>>
  BY DEF Postpone, Serves, IInv, TypeOK
<1> HIDE DEF r
<1>5. ConnOK(r, queued[c])
  BY <1>1, <1>2, <1>3 DEF ConnOK
<1>6. Unclaimed(conn[c], queued[c]) => Unclaimed(r, queued[c])
  BY <1>3 DEF Unclaimed
<1>7. QED
  BY <1>1, <1>3, <1>4, <1>5, <1>6, OneConnection

(* A close, which overtakes the task that is queued for the connection.    *)
LEMMA CloseKeeps ==
  ASSUME IInv, NEW c \in Conn, CloseConnection(c)
  PROVE  IInv'
<1> DEFINE old   == conn[c]
           over  == Decided(c)
           late  == looking = c /\ seen = "open"
           told  == [old EXCEPT !.told = @ + 1]
           ended == [told EXCEPT !.overtaken = old.overtaken \/ over]
           r     == [Destroy(ended) EXCEPT !.missed = late]
<1>1. old \in ConnType /\ ConnOK(old, queued[c]) /\ old.event = "live"
  BY InvOf DEF CloseConnection, Serves
<1>2. told \in ConnType
  BY <1>1 DEF ConnOK, ConnType
<1>3. ended \in ConnType
  <2> HIDE DEF told
  <2>1. (old.overtaken \/ over) \in BOOLEAN
    BY DEF Decided
  <2>2. QED
    BY <1>2, <2>1, ConnFlags
<1>4. /\ ended.mem = "live" /\ ended.event = "live"
      /\ ended.twice <=> old.twice
      /\ ended.overtaken <=> old.overtaken \/ over
      /\ ~ ended.dangling
  BY <1>1 DEF ConnOK, ConnType
<1>5. Close(old, over) = Destroy(ended)
  BY <1>1 DEF Close, ConnType
<1> HIDE DEF ended
<1>over. /\ queued[c] # <<>> => over
         /\ looking = c /\ seen \in {"established", "idle"} => over
  BY DEF Decided
<1> HIDE DEF over
<1> DEFINE gone == Destroy(ended)
<1>6. /\ gone \in ConnType /\ gone.state = "CLOSED" /\ gone.event = "freed"
      /\ gone.mem = "live" /\ ~ gone.dangling
      /\ gone.twice <=> old.twice
      /\ gone.overtaken <=> old.overtaken \/ over
  BY <1>3, <1>4, DestroyType
<1>7. conn' = [conn EXCEPT ![c] = [gone EXCEPT !.missed = late]]
  <2>1. conn' = [conn EXCEPT ![c] = [Close(conn[c], Decided(c)) EXCEPT !.missed = late]]
    BY DEF CloseConnection
  <2>2. Close(conn[c], Decided(c)) = gone
    BY <1>5 DEF over
  <2>3. QED
    BY <2>1, <2>2
<1> HIDE DEF gone
<1> DEFINE new == [gone EXCEPT !.missed = late]
<1>8. new \in ConnType
  <2>1. late \in BOOLEAN
    OBVIOUS
  <2>2. QED
    BY <1>6, <2>1, ConnFlags
<1>9. /\ new.state = "CLOSED" /\ new.event = "freed"
      /\ new.mem = "live" /\ ~ new.dangling
      /\ new.twice <=> old.twice
      /\ new.overtaken <=> old.overtaken \/ over
  BY <1>6 DEF ConnType
<1> HIDE DEF new
<1>10. ConnOK(new, queued[c])
  BY <1>1, <1>8, <1>9, <1>over DEF ConnOK
<1>11. Unclaimed(conn[c], queued[c]) => Unclaimed(new, queued[c])
  BY <1>9 DEF Unclaimed
<1>12. /\ conn' = [conn EXCEPT ![c] = new] /\ queued' = [queued EXCEPT ![c] = queued[c]]
       /\ unheard' = unheard \ {c}
       /\ UNCHANGED <<source, wheel, cur, todo, sweeping, looking, seen, silence>>
  BY <1>7 DEF CloseConnection, Serves, IInv, TypeOK, new
<1>13. QED
  BY <1>9, <1>10, <1>11, <1>12, <1>over, OneConnection

(* The task that the wheel has queued: the only delete of the connection.  *)
LEMMA RunTaskKeeps ==
  ASSUME IInv, NEW c \in Conn, RunTask(c)
  PROVE  IInv'
<1> DEFINE old == conn[c]
           r == IF queued[c] = <<"delete">> THEN Delete(old) ELSE Delete(Destroy(old))
<1>1. /\ old \in ConnType /\ ConnOK(old, queued[c])
      /\ old.mem = "live" /\ ~ old.dangling
      /\ queued[c] \in {<<"delete">>, <<"destroy">>}
  BY InvOf DEF RunTask, ConnOK
<1>2. /\ Head(<<"delete">>) = "delete" /\ Tail(<<"delete">>) = <<>>
      /\ Head(<<"destroy">>) = "destroy" /\ Tail(<<"destroy">>) = <<>>
      /\ <<"delete">> # <<"destroy">>
  OBVIOUS
<1>3. /\ conn' = [conn EXCEPT ![c] = r] /\ queued' = [queued EXCEPT ![c] = <<>>]
      /\ unheard' = unheard \ {c}
      /\ UNCHANGED <<source, wheel, cur, todo, sweeping, looking, seen, silence>>
  BY <1>1, <1>2 DEF RunTask
<1>4. ASSUME queued[c] = <<"delete">> PROVE ConnOK(r, <<>>)
  <2>1. r = Delete(old) /\ old.state = "CLOSED"
    BY <1>1, <1>2, <1>4 DEF ConnOK
  <2>2. /\ r \in ConnType /\ r.mem = "freed" /\ ~ r.dangling
        /\ r.state = old.state /\ r.event = old.event
        /\ r.twice <=> old.twice
        /\ r.overtaken <=> old.overtaken
    BY <1>1, <2>1, DeleteType
  <2> HIDE DEF r
  <2>3. QED
    BY <1>1, <2>1, <2>2 DEF ConnOK
<1>5. ASSUME queued[c] = <<"destroy">> PROVE ConnOK(r, <<>>)
  <2> DEFINE gone == Destroy(old)
  <2>1. r = Delete(gone)
    BY <1>2, <1>5
  <2>2. /\ gone \in ConnType /\ gone.state = "CLOSED" /\ gone.event = "freed"
        /\ gone.mem = "live" /\ ~ gone.dangling
        /\ gone.twice <=> old.twice \/ old.event = "freed"
        /\ gone.overtaken <=> old.overtaken
    BY <1>1, DestroyType
  <2>3. old.event = "freed" => old.overtaken
    BY <1>1, <1>5 DEF ConnOK
  <2> HIDE DEF gone
  <2>4. /\ r \in ConnType /\ r.mem = "freed" /\ ~ r.dangling
        /\ r.state = "CLOSED" /\ r.event = "freed"
        /\ r.twice <=> gone.twice
        /\ r.overtaken <=> gone.overtaken
    BY <2>1, <2>2, DeleteType
  <2> HIDE DEF r
  <2>5. QED
    BY <1>1, <2>2, <2>3, <2>4 DEF ConnOK
<1>6. ~ Unclaimed(conn[c], queued[c])
  BY DEF RunTask, Unclaimed
<1>7. ConnOK(r, <<>>)
  BY <1>1, <1>4, <1>5
<1> HIDE DEF r
<1>8. looking # c
  <2>1. looking = c => c \in todo
    BY TimeWheelingAssumption DEF IInv, SweepOK
  <2>2. QED
    BY <1>6, <2>1 DEF IInv, HoldsOnce
<1>9. QED
  BY <1>3, <1>6, <1>7, <1>8, OneConnection

(* accept: the connection is new to the wheel.                             *)
LEMMA AcceptKeeps ==
  ASSUME IInv, NEW c \in Conn, Accept(c)
  PROVE  IInv'
<1> DEFINE live == [NoConn EXCEPT !.mem = "live"]
           both == [live EXCEPT !.event = "live"]
           r    == [both EXCEPT !.state = "ESTABLISHED"]
<1>1. /\ TypeOK /\ conn[c] = NoConn /\ queued[c] = <<>> /\ NoConn \in ConnType
      /\ ~ sweeping /\ todo = {} /\ looking = NoOne
  BY InvOf DEF Accept, ConnOK, IInv, SweepOK
<1>2. live \in ConnType
  BY <1>1 DEF ConnType
<1>3. both \in ConnType
  <2> HIDE DEF live
  <2>1. QED
    BY <1>2 DEF ConnType
<1>4. r \in ConnType
  <2> HIDE DEF both
  <2>1. QED
    BY <1>3 DEF ConnType
<1>5. /\ r.mem = "live" /\ r.event = "live" /\ r.state = "ESTABLISHED"
      /\ r.told = 0 /\ ~ r.twice /\ ~ r.dangling
  BY DEF NoConn
<1>6. conn' = [conn EXCEPT ![c] = r]
  BY <1>1 DEF Accept, TypeOK
<1>7. /\ wheel' = [wheel EXCEPT ![cur] = @ \union {c}]
      /\ silence' = [silence EXCEPT ![c] = 0]
      /\ UNCHANGED <<source, cur, todo, sweeping, looking, seen, queued, unheard>>
  BY DEF Accept
<1> HIDE DEF r
<1>8. ConnOK(r, <<>>) /\ Unclaimed(r, <<>>) /\ ~ Unclaimed(conn[c], queued[c])
  BY <1>1, <1>4, <1>5 DEF ConnOK, Unclaimed, NoConn
<1>9. /\ conn'[c] = r /\ queued'[c] = <<>> /\ silence'[c] = 0
      /\ \A d \in Conn \ {c} : conn'[d] = conn[d] /\ silence'[d] = silence[d]
  BY <1>1, <1>6, <1>7 DEF TypeOK
<1>10. TypeOK'
  BY <1>1, <1>4, <1>6, <1>7, TimeWheelingAssumption DEF TypeOK
<1>11. ConnsOK'
  BY <1>1, <1>7, <1>8, <1>9 DEF IInv, ConnsOK
<1>before. \A b \in Bucket : Kept(b) = wheel[b]
  BY Zenon, <1>1 DEF Kept
<1>after. \A b \in Bucket : Kept(b)' = wheel'[b]
  BY Zenon, <1>1, <1>7 DEF Kept
<1>12. /\ cur \in Bucket /\ wheel \in [Bucket -> SUBSET Conn]
       /\ wheel'[cur] = wheel[cur] \union {c}
       /\ \A b \in Bucket \ {cur} : wheel'[b] = wheel[b]
  BY <1>1, <1>7 DEF TypeOK
<1>13. \A b \in Bucket : c \notin wheel[b]
  <2>1. SUFFICES ASSUME NEW b \in Bucket, c \in wheel[b] PROVE FALSE
    OBVIOUS
  <2>2. c \in Kept(b)
    BY <2>1, <1>before
  <2>3. Unclaimed(conn[c], queued[c])
    BY <2>2 DEF IInv, HoldsOnce
  <2>4. QED
    BY <1>8, <2>3
<1>14. \A b \in Bucket : \A d \in wheel[b] :
         d # c /\ d \in Conn /\ Unclaimed(conn'[d], queued'[d])
  <2>1. SUFFICES ASSUME NEW b \in Bucket, NEW d \in wheel[b]
                 PROVE  d # c /\ d \in Conn /\ Unclaimed(conn'[d], queued'[d])
    OBVIOUS
  <2>2. d # c /\ d \in Conn
    BY <1>12, <1>13
  <2>3. d \in Kept(b)
    BY <1>before
  <2>4. Unclaimed(conn[d], queued[d])
    BY <2>3 DEF IInv, HoldsOnce
  <2>5. QED
    BY <1>7, <1>9, <2>2, <2>4
<1>15. HoldsOnce'
  <2>1. \A b \in Bucket : \A d \in wheel'[b] :
          Unclaimed(conn'[d], queued'[d]) /\ d \notin todo'
    BY <1>1, <1>7, <1>8, <1>9, <1>12, <1>14
  <2>2. \A a, b \in Bucket : a # b => wheel[a] \intersect wheel[b] = {}
    BY <1>before DEF IInv, HoldsOnce
  <2>3. \A a, b \in Bucket : a # b => wheel'[a] \intersect wheel'[b] = {}
    BY <1>12, <1>13, <2>2
  <2>4. QED
    BY <1>1, <1>7, <1>after, <2>1, <2>3 DEF HoldsOnce
<1>16. SweepOK' /\ SeenOK'
  BY <1>1, <1>7, TimeWheelingAssumption DEF IInv, SweepOK, SeenOK
<1>17. AgesOK'
  <2>1. CheckIndex' = CheckIndex /\ cur' = cur
    BY <1>7 DEF CheckIndex
  <2>2. \A b \in Bucket : wheel'[b] # {} => b \in {cur, CheckIndex}
    BY <1>12, <1>before DEF IInv, AgesOK
  <2>3. \A b \in Bucket : \A d \in wheel[b] : silence[d] <= MaxIdle
    BY <1>before DEF IInv, AgesOK
  <2>4. \A b \in Bucket : \A d \in wheel'[b] : silence'[d] <= MaxIdle
    BY <1>9, <1>12, <1>14, <2>3, TimeWheelingAssumption
  <2>5. \A d \in wheel[cur] : silence[d] = 0
    BY Zenon, <1>1 DEF IInv, AgesOK
  <2>6. \A d \in wheel'[cur] : silence'[d] = 0
    BY <1>9, <1>12, <1>14, <2>5
  <2>7. QED
    BY <1>after, <2>1, <2>2, <2>4, <2>6 DEF AgesOK
<1>18. QED
  BY <1>10, <1>11, <1>15, <1>16, <1>17 DEF IInv

(* The timer: the bucket before the current one is taken out to be looked  *)
(* at, and the rest is a second old at most.                               *)
LEMMA TickKeeps ==
  ASSUME IInv, Tick
  PROVE  IInv'
<1>1. /\ TypeOK /\ ~ sweeping /\ todo = {} /\ looking = NoOne
      /\ cur \in Bucket /\ CheckIndex \in Bucket
  BY Turn DEF IInv, Tick, SweepOK, TypeOK, CheckIndex
<1>2. /\ sweeping' /\ todo' = wheel[CheckIndex] /\ sweeping' \in BOOLEAN
      /\ silence' = [c \in Conn |-> Older(silence[c])]
      /\ UNCHANGED <<source, wheel, cur, looking, seen, conn, queued, unheard>>
  BY DEF Tick
<1>3. \A c \in Conn :
        /\ silence'[c] \in 0 .. MaxIdle + 1
        /\ silence[c] = 0 => silence'[c] = 1
  BY <1>1, <1>2, TimeWheelingAssumption DEF TypeOK, Older
<1>4. TypeOK'
  <2>1. todo' \subseteq Conn
    BY <1>1, <1>2 DEF TypeOK
  <2>2. silence' \in [Conn -> 0 .. MaxIdle + 1]
    <3>1. \A c \in Conn : Older(silence[c]) \in 0 .. MaxIdle + 1
      BY <1>1, TimeWheelingAssumption DEF TypeOK, Older
    <3>2. QED
      BY <1>2, <3>1
  <2>3. QED
    BY Zenon, <1>1, <1>2, <2>1, <2>2 DEF TypeOK
<1>before. \A b \in Bucket : Kept(b) = wheel[b] /\ wheel[b] \subseteq Conn
  <2>1. \A b \in Bucket : Kept(b) = wheel[b]
    BY Zenon, <1>1 DEF Kept
  <2>2. QED
    BY <1>1, <2>1 DEF TypeOK
<1>after. \A b \in Bucket : Kept(b)' = IF b = CheckIndex THEN {} ELSE wheel[b]
  BY Zenon, <1>2 DEF Kept, CheckIndex
<1>6. ConnsOK'
  BY <1>2 DEF IInv, ConnsOK
<1>7. HoldsOnce'
  <2>1. /\ \A b \in Bucket : \A c \in wheel[b] : Unclaimed(conn[c], queued[c])
        /\ \A a, b \in Bucket : a # b => wheel[a] \intersect wheel[b] = {}
    BY <1>before DEF IInv, HoldsOnce
  <2>2. \A c \in todo' : Unclaimed(conn'[c], queued'[c])
    BY <1>1, <1>2, <2>1
  <2>3. \A b \in Bucket : \A c \in (Kept(b))' :
          Unclaimed(conn'[c], queued'[c]) /\ c \notin todo'
    BY <1>1, <1>2, <1>after, <2>1
  <2>4. \A a, b \in Bucket : a # b => (Kept(a))' \intersect (Kept(b))' = {}
    BY <1>after, <2>1
  <2>5. QED
    BY <2>2, <2>3, <2>4 DEF HoldsOnce
<1>8. SweepOK' /\ SeenOK'
  BY <1>1, <1>2 DEF IInv, SweepOK, SeenOK
<1>9. AgesOK'
  <2>1. CheckIndex' = CheckIndex /\ cur' = cur
    BY <1>2 DEF CheckIndex
  <2>2. /\ \A b \in Bucket : wheel[b] # {} => b \in {cur, CheckIndex}
        /\ \A b \in Bucket : \A c \in wheel[b] : silence[c] <= MaxIdle
    BY <1>before DEF IInv, AgesOK
  <2>3. \A c \in wheel[cur] : silence[c] = 0
    BY Zenon, <1>1 DEF IInv, AgesOK
  <2>4. \A c \in wheel[cur] : silence'[c] <= MaxIdle
    <3>1. wheel[cur] \subseteq Conn
      BY <1>1 DEF TypeOK
    <3>2. ASSUME NEW c \in wheel[cur] PROVE silence'[c] = 1
      <4>1. c \in Conn /\ silence[c] = 0
        BY <2>3, <3>1
      <4>2. QED
        BY <1>3, <4>1
    <3>3. QED
      BY <3>2, TimeWheelingAssumption
  <2>5. \A b \in Bucket : (Kept(b))' # {} => b = cur
    BY <1>after, <2>2
  <2>6. \A b \in Bucket : \A c \in (Kept(b))' : silence'[c] <= MaxIdle
    BY <1>after, <2>4, <2>5
  <2>7. QED
    BY Zenon, <1>2, <2>1, <2>5, <2>6 DEF AgesOK
<1>10. QED
  BY <1>4, <1>6, <1>7, <1>8, <1>9 DEF IInv

(* The first read of a state: a closed connection is claimed for a delete. *)
LEMMA LookKeeps ==
  ASSUME IInv, NEW c \in Conn, Look(c)
  PROVE  IInv'
<1> DEFINE old == conn[c]
           r   == [old EXCEPT !.dangling = FALSE]
<1>1. /\ TypeOK /\ c \in todo /\ old.mem = "live" /\ queued[c] = <<>>
      /\ old \in ConnType /\ ConnOK(old, <<>>) /\ ~ old.dangling
  BY InvOf DEF Look, IInv, HoldsOnce, Unclaimed, ConnOK
<1>2. r \in ConnType
  BY <1>1, ConnFlags
<1>3. conn' = [conn EXCEPT ![c] = r]
  <2>1. (old.dangling \/ old.mem = "freed") = FALSE
    BY <1>1
  <2>2. conn' = [conn EXCEPT ![c].dangling = (@ \/ conn[c].mem = "freed")]
    BY DEF Look
  <2>3. QED
    BY <2>1, <2>2
<1>4. /\ r.mem = old.mem /\ r.state = old.state /\ r.event = old.event
      /\ r.told = old.told /\ ~ r.dangling
      /\ r.twice <=> old.twice
      /\ r.overtaken <=> old.overtaken
  BY <1>1 DEF ConnType
<1>5. UNCHANGED <<source, wheel, cur, sweeping, silence>>
  BY DEF Look
<1> HIDE DEF r
<1>6. ConnOK(r, <<>>) /\ Unclaimed(r, <<>>)
  BY <1>1, <1>2, <1>4 DEF ConnOK, Unclaimed, NoConn
<1>sweeping. sweeping
  BY Zenon, <1>1 DEF IInv, SweepOK
<1>held. \A b \in Bucket : (Kept(b))' = Kept(b) /\ Kept(b) \subseteq Conn \ {c}
  <2>1. ASSUME NEW b \in Bucket
        PROVE  (Kept(b))' = Kept(b)
    BY Zenon, <1>5 DEF Kept, CheckIndex
  <2>2. ASSUME NEW b \in Bucket
        PROVE  Kept(b) \subseteq wheel[b] /\ c \notin Kept(b)
    BY <1>1 DEF Kept, IInv, HoldsOnce
  <2>3. QED
    BY <1>1, <2>1, <2>2 DEF TypeOK
<1>ages. AgesOK'
  <2>1. CheckIndex' = CheckIndex /\ cur' = cur /\ sweeping'
    BY <1>5, <1>sweeping DEF CheckIndex
  <2>2. QED
    BY Zenon, <1>5, <1>held, <2>1 DEF IInv, AgesOK
<1>others. \A d \in Conn \ {c} : conn'[d] = conn[d]
  BY <1>1, <1>3 DEF TypeOK
<1>self. conn'[c] = r
  BY <1>1, <1>3 DEF TypeOK
<1>7. CASE old.state = "CLOSED"
  <2>1. /\ queued' = [queued EXCEPT ![c] = <<"delete">>]
        /\ todo' = todo \ {c} /\ looking' = NoOne /\ seen' = "nothing"
        /\ unheard' \in {unheard, unheard \union {c}}
    BY <1>1, <1>7 DEF Look, LookAway, RunInLoop
  <2>2. ConnOK(r, <<"delete">>)
    BY <1>4, <1>6, <1>7 DEF ConnOK, Unclaimed
  <2>3. TypeOK'
    <3>1. <<"delete">> \in Seq({"delete", "destroy"})
      OBVIOUS
    <3>2. QED
      BY <1>1, <1>2, <1>3, <1>5, <2>1, <3>1 DEF TypeOK
  <2>4. /\ queued'[c] = <<"delete">>
        /\ \A d \in Conn \ {c} : queued'[d] = queued[d]
    BY <1>1, <2>1 DEF TypeOK
  <2>5. ConnsOK'
    BY <1>others, <1>self, <2>2, <2>4 DEF IInv, ConnsOK
  <2>6. HoldsOnce'
    BY <1>1, <1>held, <1>others, <2>1, <2>4 DEF IInv, HoldsOnce, TypeOK
  <2>7. SweepOK' /\ SeenOK'
    BY <1>5, <1>sweeping, <2>1, TimeWheelingAssumption DEF SweepOK, SeenOK
  <2>8. QED
    BY <1>ages, <2>3, <2>5, <2>6, <2>7 DEF IInv
<1>8. CASE old.state # "CLOSED"
  <2>1. queued' = queued /\ todo' = todo /\ looking' = c /\ seen' = "open" /\ unheard' = unheard
    BY <1>8 DEF Look
  <2>2. TypeOK'
    BY <1>1, <1>2, <1>3, <1>5, <2>1 DEF TypeOK
  <2>3. ConnsOK'
    BY <1>1, <1>6, <1>others, <1>self, <2>1 DEF IInv, ConnsOK
  <2>4. HoldsOnce'
    BY <1>1, <1>6, <1>held, <1>others, <1>self, <2>1 DEF IInv, HoldsOnce, TypeOK
  <2>5. SweepOK' /\ SeenOK'
    BY <1>1, <1>5, <1>sweeping, <2>1, TimeWheelingAssumption DEF SweepOK, SeenOK
  <2>6. QED
    BY <1>ages, <2>2, <2>3, <2>4, <2>5 DEF IInv
<1>9. QED
  BY <1>7, <1>8

(* The rest of the look at c, in steps: one that was closed is dropped, an *)
(* idle one claimed for its destruction, and one that is not idle goes to  *)
(* the current bucket.                                                     *)
LEMMA LookingKeeps ==
  ASSUME IInv, NEW c \in Conn, LookAgain(c) \/ TestIdle(c) \/ QueueDestroy(c)
  PROVE  IInv'
<1>1. /\ TypeOK /\ c \in todo /\ conn[c].mem = "live" /\ queued[c] = <<>>
      /\ ConnOK(conn[c], <<>>)
      /\ cur \in Bucket /\ wheel \in [Bucket -> SUBSET Conn]
      /\ looking = c /\ looking # NoOne
  BY InvOf, TimeWheelingAssumption
     DEF LookAgain, TestIdle, QueueDestroy, IInv, HoldsOnce, Unclaimed, SweepOK, TypeOK
<1>2. UNCHANGED <<source, cur, sweeping, conn, silence>>
  BY DEF LookAgain, TestIdle, QueueDestroy
<1>sweeping. sweeping
  BY Zenon, <1>1 DEF IInv, SweepOK
<1>check. CheckIndex' = CheckIndex
  BY <1>2 DEF CheckIndex
<1>held. \A b \in Bucket : Kept(b) \subseteq Conn \ {c}
  BY <1>1 DEF Kept, IInv, HoldsOnce
<1>kept. ASSUME wheel' = wheel
         PROVE  AgesOK' /\ \A b \in Bucket : (Kept(b))' = Kept(b)
  <2>1. \A b \in Bucket : (Kept(b))' = Kept(b)
    BY Zenon, <1>2, <1>check, <1>kept DEF Kept
  <2>2. AgesOK'
    BY Zenon, <1>2, <1>check, <1>sweeping, <2>1 DEF IInv, AgesOK
  <2>3. QED
    BY <2>1, <2>2
<1>away. ASSUME LookAway(c) PROVE SweepOK' /\ SeenOK' /\ todo' = todo \ {c}
  BY <1>2, <1>away, <1>sweeping, TimeWheelingAssumption DEF LookAway, SweepOK, SeenOK
(* It is still looked at.                                                  *)
<1>looks. ASSUME UNCHANGED <<looking, todo, wheel, queued, unheard>>,
                 seen' \in {"established", "idle"},
                 conn[c].event # "live" => conn[c].overtaken
          PROVE  IInv'
  <2>1. \A b \in Bucket : (Kept(b))' = Kept(b)
    BY <1>looks, <1>kept
  <2>2. HoldsOnce'
    BY <1>2, <1>looks, <2>1 DEF IInv, HoldsOnce
  <2>3. ConnsOK' /\ TypeOK'
    BY <1>1, <1>2, <1>looks DEF IInv, ConnsOK, TypeOK
  <2>4. SweepOK' /\ SeenOK'
    BY <1>1, <1>2, <1>looks, <1>sweeping DEF SweepOK, SeenOK
  <2>5. QED
    BY <1>looks, <1>kept, <2>2, <2>3, <2>4 DEF IInv
<1>dropped. CASE LookAway(c) /\ UNCHANGED <<wheel, queued, unheard>>
  <2>1. \A b \in Bucket : (Kept(b))' = Kept(b)
    BY <1>dropped, <1>kept
  <2>2. HoldsOnce'
    BY <1>1, <1>2, <1>away, <1>dropped, <2>1 DEF IInv, HoldsOnce
  <2>3. ConnsOK' /\ TypeOK'
    BY <1>1, <1>2, <1>away, <1>dropped DEF LookAway, IInv, ConnsOK, TypeOK
  <2>4. QED
    BY <1>away, <1>dropped, <1>kept, <2>2, <2>3 DEF IInv
<1>idle. CASE QueueDestroy(c)
  <2>1. /\ queued' = [queued EXCEPT ![c] = <<"destroy">>] /\ queued'[c] = <<"destroy">>
        /\ \A d \in Conn \ {c} : queued'[d] = queued[d]
        /\ unheard' \in {unheard, unheard \union {c}} /\ wheel' = wheel
        /\ LookAway(c) /\ seen = "idle"
    BY <1>1, <1>idle DEF QueueDestroy, RunInLoop, TypeOK
  <2>2. \A b \in Bucket : (Kept(b))' = Kept(b)
    BY <1>kept, <2>1
  <2>3. HoldsOnce'
    BY <1>1, <1>2, <1>away, <1>held, <2>1, <2>2 DEF IInv, HoldsOnce, TypeOK
  <2>4. ConnOK(conn[c], <<"destroy">>)
    <3>1. conn[c].event # "live" => conn[c].overtaken
      BY <1>1, <2>1 DEF IInv, SeenOK
    <3>2. QED
      BY <1>1, <3>1 DEF ConnOK
  <2>5. ConnsOK'
    BY <1>2, <2>1, <2>4 DEF IInv, ConnsOK
  <2>6. TypeOK'
    <3>1. <<"destroy">> \in Seq({"delete", "destroy"})
      OBVIOUS
    <3>2. QED
      BY <1>1, <1>2, <2>1, <3>1 DEF LookAway, TypeOK
  <2>7. QED
    BY <1>away, <1>kept, <2>1, <2>3, <2>5, <2>6 DEF IInv
<1>again. CASE /\ silence[c] <= MaxIdle /\ LookAway(c) /\ UNCHANGED <<queued, unheard>>
               /\ wheel' = [wheel EXCEPT ![cur] = @ \union {c}]
  <2>1. /\ wheel'[cur] = wheel[cur] \union {c}
        /\ \A b \in Bucket \ {cur} : wheel'[b] = wheel[b]
    BY <1>1, <1>again
  <2>2. \A b \in Bucket : (Kept(b))' = IF b = CheckIndex THEN {} ELSE wheel'[b]
    BY Zenon, <1>2, <1>check, <1>sweeping DEF Kept
  <2>3. \A b \in Bucket : Kept(b) = IF b = CheckIndex THEN {} ELSE wheel[b]
    BY Zenon, <1>sweeping DEF Kept
  <2>4. /\ \A b \in Bucket \ {cur} : (Kept(b))' = Kept(b)
        /\ \A b \in {cur} : (Kept(b))' \subseteq Kept(b) \union {c}
    <3>1. \A b \in Bucket \ {cur} : (Kept(b))' = Kept(b)
      <4>1. ASSUME NEW b \in Bucket \ {cur} PROVE (Kept(b))' = Kept(b)
        BY Zenon, <2>1, <2>2, <2>3
      <4>2. QED
        BY <4>1
    <3>2. \A b \in {cur} : (Kept(b))' \subseteq Kept(b) \union {c}
      <4>1. ASSUME NEW b \in {cur} PROVE (Kept(b))' \subseteq Kept(b) \union {c}
        <5>1. b = cur
          OBVIOUS
        <5>2. QED
          BY <1>1, <2>1, <2>2, <2>3, <5>1
      <4>2. QED
        BY <4>1
    <3>3. QED
      BY <3>1, <3>2
  <2>5. \A b \in Bucket : \A d \in (Kept(b))' :
          Unclaimed(conn'[d], queued'[d]) /\ d \notin todo'
    <3>1. Unclaimed(conn[c], queued[c])
      BY <1>1 DEF Unclaimed
    <3>2. \A b \in Bucket : \A d \in Kept(b) :
            Unclaimed(conn[d], queued[d]) /\ d \notin todo
      BY DEF IInv, HoldsOnce
    <3>3. QED
      BY <1>1, <1>2, <1>again, <1>away, <2>4, <3>1, <3>2
  <2>6. \A a, b \in Bucket : a # b => (Kept(a))' \intersect (Kept(b))' = {}
    <3>1. \A a, b \in Bucket : a # b => Kept(a) \intersect Kept(b) = {}
      BY DEF IInv, HoldsOnce
    <3>2. ASSUME NEW a \in Bucket, NEW b \in Bucket, a # b
          PROVE  (Kept(a))' \intersect (Kept(b))' = {}
      <4>1. Kept(a) \intersect Kept(b) = {}
        BY <3>1, <3>2
      <4>2. c \notin Kept(a) /\ c \notin Kept(b)
        BY <1>held
      <4>3. /\ (Kept(a))' = Kept(a) \/ (a = cur /\ (Kept(a))' \subseteq Kept(a) \union {c})
            /\ (Kept(b))' = Kept(b) \/ (b = cur /\ (Kept(b))' \subseteq Kept(b) \union {c})
        BY <2>4
      <4>4. QED
        BY <3>2, <4>1, <4>2, <4>3
    <3>3. QED
      BY Zenon, <3>2
  <2>7. \A d \in todo' : Unclaimed(conn'[d], queued'[d])
    BY <1>1, <1>2, <1>again, <1>away DEF IInv, HoldsOnce
  <2>8. HoldsOnce'
    BY <2>5, <2>6, <2>7 DEF HoldsOnce
  <2>9. ConnsOK' /\ TypeOK'
    BY <1>1, <1>2, <1>again DEF LookAway, IInv, ConnsOK, TypeOK
  <2>10. AgesOK'
    <3>1. /\ \A b \in Bucket : Kept(b) # {} => b \in {cur, CheckIndex}
          /\ \A b \in Bucket : \A d \in Kept(b) : silence[d] <= MaxIdle
      BY Zenon DEF IInv, AgesOK
    <3>2. \A b \in Bucket : (Kept(b))' # {} => b \in {cur, CheckIndex}
      BY <2>4, <3>1
    <3>3. ASSUME NEW b \in Bucket, NEW d \in (Kept(b))' PROVE silence[d] <= MaxIdle
      <4>1. d \in Kept(b) \/ d = c
        BY <2>4
      <4>2. QED
        BY <1>again, <3>1, <4>1
    <3>4. QED
      BY Zenon, <1>2, <1>check, <1>sweeping, <3>2, <3>3 DEF AgesOK
  <2>11. QED
    BY <1>again, <1>away, <2>8, <2>9, <2>10 DEF IInv
<1>3. CASE LookAgain(c)
  <2>1. conn[c].state = "ESTABLISHED" => conn[c].event = "live"
    BY <1>1 DEF ConnOK
  <2>2. QED
    BY <1>3, <1>dropped, <1>looks, <2>1 DEF LookAgain
<1>4. CASE TestIdle(c)
  <2>1. conn[c].event # "live" => conn[c].overtaken
    BY <1>1, <1>4 DEF TestIdle, IInv, SeenOK
  <2>2. silence[c] \in 0 .. MaxIdle + 1
    BY <1>1 DEF TypeOK
  <2>3. QED
    BY <1>4, <1>again, <1>looks, <2>1, <2>2, TimeWheelingAssumption DEF TestIdle
<1>5. QED
  BY <1>3, <1>4, <1>idle

(* The end of a sweep: its bucket is cleared, and the wheel turns.         *)
LEMMA EndSweepKeeps ==
  ASSUME IInv, EndSweep
  PROVE  IInv'
<1>1. /\ TypeOK /\ cur \in Bucket /\ CheckIndex \in Bucket
      /\ wheel \in [Bucket -> SUBSET Conn]
      /\ cur' \in Bucket /\ cur' # cur /\ CheckIndex' = cur
  BY Turn DEF IInv, TypeOK, EndSweep, CheckIndex
<1>2. /\ todo = {} /\ todo' = {}
      /\ wheel' = [wheel EXCEPT ![CheckIndex] = {}]
      /\ UNCHANGED <<source, looking, seen, conn, silence, queued, unheard>>
  BY DEF EndSweep
<1>swept. sweeping /\ sweeping' = FALSE
  BY Zenon DEF EndSweep
<1>held. \A b \in Bucket : wheel'[b] = Kept(b) /\ (Kept(b))' = Kept(b)
  <2>1. ASSUME NEW b \in Bucket
        PROVE  wheel'[b] = IF b = CheckIndex THEN {} ELSE wheel[b]
    BY <1>1, <1>2
  <2>2. ASSUME NEW b \in Bucket
        PROVE  wheel'[b] = Kept(b)
    BY Zenon, <1>swept, <2>1 DEF Kept
  <2>3. ASSUME NEW b \in Bucket
        PROVE  (Kept(b))' = wheel'[b]
    BY Zenon, <1>swept DEF Kept
  <2>4. QED
    BY <2>2, <2>3
<1>3. TypeOK'
  <2>1. wheel' \in [Bucket -> SUBSET Conn]
    BY <1>1, <1>2
  <2>2. QED
    BY <1>1, <1>2, <1>swept, <2>1 DEF TypeOK
<1>4. ConnsOK'
  BY <1>2 DEF IInv, ConnsOK
<1>5. HoldsOnce'
  BY <1>2, <1>held DEF IInv, HoldsOnce
<1>6. SweepOK' /\ SeenOK'
  <2>1. looking = NoOne
    BY <1>2 DEF IInv, SweepOK
  <2>2. QED
    BY <1>2, <2>1 DEF IInv, SweepOK, SeenOK
<1>7. AgesOK'
  <2>1. /\ \A b \in Bucket : Kept(b) # {} => b \in {cur, CheckIndex}
        /\ \A b \in Bucket : \A c \in Kept(b) : silence[c] <= MaxIdle
    BY Zenon DEF IInv, AgesOK
  <2>2. Kept(CheckIndex) = {}
    BY Zenon, <1>swept DEF Kept
  <2>3. \A b \in Bucket : (Kept(b))' # {} => b = cur
    BY <1>held, <2>1, <2>2
  <2>4. wheel'[cur'] = {}
    BY <1>1, <1>held, <2>1, <2>2
  <2>5. \A b \in Bucket : \A c \in (Kept(b))' : silence'[c] <= MaxIdle
    BY <1>2, <1>held, <2>1
  <2>6. QED
    BY <1>1, <2>3, <2>4, <2>5 DEF AgesOK
<1>8. QED
  BY <1>3, <1>4, <1>5, <1>6, <1>7 DEF IInv

LEMMA InvInductive == IInv /\ [Next]_vars => IInv'
<1>1. SUFFICES ASSUME IInv, [Next]_vars PROVE IInv'
  OBVIOUS
<1>main. ASSUME NEW c \in Conn,
                \/ Accept(c) \/ Look(c) \/ LookAgain(c) \/ TestIdle(c) \/ QueueDestroy(c)
         PROVE  IInv'
  BY <1>1, <1>main, AcceptKeeps, LookKeeps, LookingKeeps
<1>sweep. CASE Tick \/ EndSweep
  BY <1>1, <1>sweep, TickKeeps, EndSweepKeeps
<1>loop. ASSUME NEW c \in Conn,
                Receive(c) \/ Postpone(c) \/ CloseConnection(c) \/ RunTask(c)
         PROVE  IInv'
  BY <1>1, <1>loop, ReceiveKeeps, PostponeKeeps, CloseKeeps, RunTaskKeeps
<1>stutter. CASE UNCHANGED vars
  <2>1. /\ TypeOK' /\ ConnsOK' /\ SweepOK' /\ SeenOK'
    BY <1>1, <1>stutter DEF vars, IInv, TypeOK, ConnsOK, SweepOK, SeenOK
  <2>2. \A b \in Bucket : (Kept(b))' = Kept(b)
    BY Zenon, <1>stutter DEF vars, Kept, CheckIndex
  <2>3. HoldsOnce'
    BY <1>1, <1>stutter, <2>2 DEF vars, IInv, HoldsOnce
  <2>4. AgesOK'
    <3>1. /\ CheckIndex' = CheckIndex /\ cur' = cur /\ wheel' = wheel
          /\ silence' = silence /\ sweeping' = sweeping
      BY <1>stutter DEF vars, CheckIndex
    <3>2. QED
      BY Zenon, <1>1, <2>2, <3>1 DEF IInv, AgesOK
  <2>5. QED
    BY <2>1, <2>3, <2>4 DEF IInv
<1>2. QED
  BY <1>1, <1>main, <1>sweep, <1>loop, <1>stutter DEF Next, Sweep

-----------------------------------------------------------------------------
(* The theorems.                                                           *)

LEMMA InvAlways == Spec => []IInv
  BY InvInitially, InvInductive, PTL DEF Spec

(* Every variable keeps its type: the user is told once at most of the end *)
(* of a connection (TcpConnection.cpp:85).                                 *)
THEOREM TypeCorrect == Spec => []TypeOK
<1>1. IInv => TypeOK
  BY DEF IInv
<1>2. QED
  BY <1>1, InvAlways, PTL

(* No deleted connection is looked at or deleted again: the wheel and the  *)
(* bucket it sweeps hold each connection once, and a connection is claimed *)
(* for a delete when it leaves them (TimeWheeling.h:28, 30).               *)
THEOREM PointersCorrect == Spec => []NeverDangling
<1>1. IInv => NeverDangling
  BY DEF IInv, ConnsOK, ConnOK, NeverDangling
<1>2. QED
  BY <1>1, InvAlways, PTL

(* Only a close after the second read of the state, and before the end of  *)
(* the task that is queued then, makes the wheel delete the event of a     *)
(* connection a second time (TimeWheeling.h:30, 37, 61).                   *)
THEOREM DeletesCorrect == Spec => []TwiceIfOvertaken
<1>1. IInv => TwiceIfOvertaken
  BY DEF IInv, ConnsOK, ConnOK, TwiceIfOvertaken
<1>2. QED
  BY <1>1, InvAlways, PTL

(* For every size of the wheel, no connection in it stays silent for more  *)
(* than MAX_IDLE_SECONDS: only the bucket that is swept next holds what    *)
(* was there when the wheel turned (TimeWheeling.h:33).                    *)
THEOREM SweepCorrect == Spec => []FoundInTime
<1>1. IInv => FoundInTime
  <2>1. SUFFICES ASSUME IInv, ~ sweeping, NEW b \in Bucket, NEW c \in wheel[b]
                 PROVE  silence[c] <= MaxIdle
    BY DEF FoundInTime
  <2>2. Kept(b) = wheel[b]
    BY Zenon, <2>1 DEF Kept
  <2>3. QED
    BY <2>1, <2>2 DEF IInv, AgesOK
<1>2. QED
  BY <1>1, InvAlways, PTL

-----------------------------------------------------------------------------
(* Timer, for every finite set of timers.  The inductive invariant says    *)
(* whose each descriptor number is, at any time and after any reuse.       *)

HandlerType ==
  [kind : {Timer!None, "timed", "one"}, timerfd : Nat, fd : Nat, interval : Nat,
   ran : BOOLEAN, cancelled : BOOLEAN, copied : BOOLEAN, reset : BOOLEAN,
   late : BOOLEAN, heir : BOOLEAN]

FdType ==
  [open : BOOLEAN, armed : BOOLEAN, periodic : BOOLEAN, expired : BOOLEAN,
   registered : Handler \union {Timer!None}]

(* One timer r: until its cancel its timerfd_ is the fd_ of its event.     *)
HandlerOK(r) ==
  /\ r \in HandlerType
  /\ r.kind = Timer!None => r = Timer!NoTimer
  /\ r.kind # Timer!None => r.fd \in Timer!Fd /\ r.timerfd \in {0, r.fd}
  /\ r.kind # Timer!None /\ ~ r.cancelled => r.timerfd = r.fd
  /\ r.cancelled /\ r.timerfd # 0 => r.copied
  /\ r.copied \/ r.late => r.cancelled

TimerTypeOK ==
  /\ timer \in [Handler -> HandlerType] /\ fds \in [Timer!Fd -> FdType]
  /\ \A h \in Handler : HandlerOK(timer[h])
  /\ batch \subseteq Handler
  /\ \A h \in batch : timer[h].kind # Timer!None
  /\ inTask \in Handler \union {Timer!None}
  /\ blocked \in batch \union {Timer!None}

(* The epoller has the event of a timer at the number of that event only,  *)
(* and no event of a cancelled timer.                                      *)
Registrations ==
  \A f \in Timer!Fd, h \in Handler :
    fds[f].registered = h => timer[h].fd = f /\ ~ timer[h].cancelled

(* No timer that had the number f was cancelled as a copy, and none ran    *)
(* after its cancel.                                                       *)
Clean(f) == \A g \in Handler : timer[g].fd = f => ~ timer[g].late /\ ~ timer[g].copied

(* Timer h can say that its number is its own.                             *)
Holds(h) == timer[h].kind # Timer!None /\ ~ timer[h].cancelled /\ Clean(timer[h].fd)

(* What d is the descriptor of r, the timer h.                             *)
Owns(h, r, d) ==
  /\ d.open
  /\ r.interval > 0 /\ ~ r.reset => d.periodic
  /\ r.kind = "timed" /\ ~ r.heir => d.registered = h
  /\ r.kind = "one" /\ ~ r.ran /\ ~ r.heir => d.registered = h

Owned ==
  /\ \A h \in Handler : Holds(h) => Owns(h, timer[h], fds[timer[h].fd])
  /\ \A g, h \in Handler : Holds(g) /\ Holds(h) /\ timer[g].fd = timer[h].fd => g = h

(* Whose task runs is a single timer, and the number that is unregistered  *)
(* at its end can only be that of an heir.                                 *)
RunningOK ==
  inTask # Timer!None =>
    /\ timer[inTask].kind = "one" /\ timer[inTask].ran
    /\ \A h \in Handler :
         Holds(h) /\ timer[h].fd = timer[inTask].fd => h = inTask \/ timer[h].heir

TimerInv == TimerTypeOK /\ Registrations /\ Owned /\ RunningOK

LEMMA FdFacts ==
  /\ Timer!Fd \subseteq Nat \ {0}
  /\ \A f \in Timer!Fd : f # 0
<1>1. Cardinality(Handler) \in Nat
  BY TimingAssumption, FS_CardinalityType
<1>2. QED
  BY <1>1 DEF Timer!Fd

LEMMA TimerInvInit == Timer!Init => TimerInv
<1>1. SUFFICES ASSUME Timer!Init PROVE TimerInv
  OBVIOUS
<1>2. HandlerOK(Timer!NoTimer) /\ Timer!Closed \in FdType
  BY DEF HandlerOK, HandlerType, FdType, Timer!NoTimer, Timer!Closed
<1>3. TimerTypeOK
  BY <1>1, <1>2 DEF Timer!Init, TimerTypeOK, HandlerOK
<1>4. \A h \in Handler : timer[h].kind = Timer!None
  BY <1>1 DEF Timer!Init, Timer!NoTimer
<1>5. Registrations
  BY <1>1, TimingAssumption DEF Timer!Init, Timer!Closed, Registrations
<1>6. QED
  BY <1>1, <1>3, <1>4, <1>5 DEF TimerInv, Owned, Holds, RunningOK, Timer!Init

-----------------------------------------------------------------------------
(* The calls of the program.                                               *)

LEMMA AddKeeps ==
  ASSUME TimerInv, NEW h \in Handler, NEW kind \in {"timed", "one"}, NEW armed \in BOOLEAN,
         NEW interval \in Nat, interval > 0 => armed,
         Timer!Add(h, kind, armed, interval)
  PROVE  TimerInv'
<1> USE DEF TimerInv
<1>1. PICK f \in {g \in Timer!Fd : ~ fds[g].open} :
        /\ fds' = [fds EXCEPT ![f] =
                     [open |-> TRUE, armed |-> armed, periodic |-> armed /\ interval > 0,
                      expired |-> FALSE, registered |-> h]]
        /\ timer' = [timer EXCEPT ![h] =
                       [Timer!NoTimer EXCEPT !.kind = kind, !.timerfd = f, !.fd = f,
                          !.interval = interval,
                          !.heir = inTask # Timer!None /\ timer[inTask].fd = f]]
  BY Zenon DEF Timer!Add
<1>2. /\ timer[h] = Timer!NoTimer /\ timer[h].kind = Timer!None
      /\ batch' = batch /\ blocked' = blocked /\ inTask' = inTask
  BY DEF Timer!Add, TimerTypeOK, HandlerOK
<1> DEFINE heir == inTask # Timer!None /\ timer[inTask].fd = f
           r == [Timer!NoTimer EXCEPT !.kind = kind, !.timerfd = f, !.fd = f,
                   !.interval = interval, !.heir = heir]
           d == [open |-> TRUE, armed |-> armed, periodic |-> armed /\ interval > 0,
                 expired |-> FALSE, registered |-> h]
<1>3. timer' = [timer EXCEPT ![h] = r] /\ fds' = [fds EXCEPT ![f] = d]
  BY <1>1
<1>heir. heir \in BOOLEAN
  OBVIOUS
<1>from. heir <=> inTask # Timer!None /\ timer[inTask].fd = f
  OBVIOUS
<1> HIDE DEF heir
<1>4. /\ HandlerOK(r) /\ r.kind = kind /\ r.fd = f /\ ~ r.cancelled
      /\ r.interval = interval
      /\ r.heir <=> heir
  <2>1. Timer!NoTimer \in HandlerType
    BY DEF Timer!NoTimer, HandlerType
  <2>2. f \in Timer!Fd /\ f \in Nat /\ kind # Timer!None
    BY FdFacts DEF Timer!None
  <2>3. r \in HandlerType /\ r.kind = kind /\ r.timerfd = f /\ r.fd = f
    BY <2>1, <2>2, <1>heir DEF HandlerType
  <2>4. /\ r.cancelled = FALSE /\ r.copied = FALSE /\ r.late = FALSE
        /\ r.interval = interval /\ r.heir = heir
    BY DEF Timer!NoTimer
  <2> HIDE DEF r
  <2>5. QED
    BY <2>2, <2>3, <2>4 DEF HandlerOK
<1>5. /\ d \in FdType /\ d.open /\ d.registered = h
      /\ interval > 0 => d.periodic
  BY DEF FdType
<1>6. ~ fds[f].open /\ f \in Timer!Fd
  OBVIOUS
<1> HIDE DEF r, d
<1>7. TimerTypeOK'
  BY <1>2, <1>3, <1>4, <1>5, <1>6 DEF TimerTypeOK, HandlerOK, Timer!None
<1>8. Registrations'
  BY <1>2, <1>3, <1>4, <1>5, <1>6, FdFacts DEF TimerTypeOK, Registrations, Timer!NoTimer
<1>9. ASSUME NEW g \in Handler, Holds(g)', g # h
      PROVE  Holds(g) /\ timer'[g] = timer[g] /\ timer[g].fd # f
             /\ fds'[timer[g].fd] = fds[timer[g].fd]
  <2>1. timer'[g] = timer[g]
    BY <1>3, <1>9 DEF TimerTypeOK
  <2>2. \A k \in Handler : timer[k].fd = timer[g].fd =>
           timer'[k].fd = timer[k].fd /\ timer'[k].late = timer[k].late
             /\ timer'[k].copied = timer[k].copied
    <3>1. timer[g].fd # 0
      BY <1>9, <2>1, FdFacts DEF Holds, TimerTypeOK, HandlerOK
    <3>2. QED
      BY <1>2, <1>3, <3>1 DEF TimerTypeOK, Timer!NoTimer
  <2>3. Holds(g)
    BY <1>9, <2>1, <2>2 DEF Holds, Clean
  <2>4. timer[g].fd # f
    BY <2>3, <1>6 DEF Owned, Owns
  <2>5. QED
    BY <1>3, <2>1, <2>3, <2>4 DEF TimerTypeOK, Holds, HandlerOK
<1>10. Owns(h, r, d)
  BY <1>4, <1>5 DEF Owns
<1>11. timer'[h] = r /\ fds'[f] = d
  BY <1>3, <1>6 DEF TimerTypeOK
<1>12. Owned'
  BY <1>4, <1>9, <1>10, <1>11 DEF Owned
<1>13. RunningOK'
  <2>1. SUFFICES ASSUME inTask # Timer!None PROVE RunningOK'
    BY <1>2 DEF RunningOK
  <2>2. inTask \in Handler /\ inTask # h /\ timer'[inTask] = timer[inTask]
    BY <1>2, <1>3, <2>1 DEF TimerTypeOK, RunningOK, Timer!None
  <2>3. timer[inTask].fd = f => timer'[h].heir
    BY <1>4, <1>11, <1>from, <2>1
  <2>4. QED
    BY <1>2, <1>4, <1>9, <1>11, <2>1, <2>2, <2>3 DEF RunningOK
<1>14. QED
  BY <1>7, <1>8, <1>12, <1>13

(* A step of an added timer h makes r of it and d of the descriptor f with *)
(* its number.  The other timers that hold their number have another one:  *)
(* who is not cancelled is alone with it, and who is spoils it.            *)
LEMMA OneTimerKeeps ==
  ASSUME TimerInv, NEW h \in Handler, timer[h].kind # Timer!None,
         NEW f, f = timer[h].fd, NEW r, NEW d,
         timer' = [timer EXCEPT ![h] = r], fds' = [fds EXCEPT ![f] = d],
         HandlerOK(r), r.kind = timer[h].kind, r.fd = f,
         timer[h].late => r.late, timer[h].copied => r.copied,
         timer[h].cancelled => r.cancelled /\ (r.late \/ r.copied),
         r.heir = timer[h].heir, timer[h].ran => r.ran,
         \/ inTask' \in {inTask, Timer!None}
         \/ inTask' = h /\ r.kind = "one" /\ r.ran,
         d \in FdType, d.registered \in {fds[f].registered, Timer!None},
         d.registered = h => ~ r.cancelled,
         ~ r.cancelled /\ Owns(h, timer[h], fds[f]) => Owns(h, r, d),
         batch' \subseteq batch, blocked' \in batch' \union {Timer!None}
  PROVE  TimerInv'
<1> USE DEF TimerInv
<1>1. f \in Timer!Fd /\ timer'[h] = r /\ fds'[f] = d
  BY DEF TimerTypeOK, HandlerOK
<1>2. TimerTypeOK'
  BY <1>1 DEF TimerTypeOK, HandlerOK
<1>3. Registrations'
  BY <1>1, TimingAssumption DEF TimerTypeOK, Registrations
<1>4. ASSUME NEW g \in Handler, Clean(timer[g].fd)'
      PROVE  Clean(timer[g].fd)
  <2>1. timer'[g].fd = timer[g].fd
    BY DEF TimerTypeOK
  <2>2. ASSUME NEW k \in Handler, timer[k].fd = timer[g].fd
        PROVE  ~ timer[k].late /\ ~ timer[k].copied
    BY <1>4, <2>1, <2>2 DEF Clean, TimerTypeOK
  <2>3. QED
    BY <2>2 DEF Clean
<1>5. ASSUME NEW g \in Handler, Holds(g)', g # h
      PROVE  /\ Holds(g) /\ timer'[g] = timer[g] /\ timer[g].fd # f
             /\ fds'[timer[g].fd] = fds[timer[g].fd]
  <2>1. timer'[g] = timer[g]
    BY <1>5 DEF TimerTypeOK
  <2>2. Clean(timer[g].fd)' /\ Holds(g)
    BY <1>4, <1>5, <2>1 DEF Holds
  <2>3. ASSUME timer[g].fd = f PROVE FALSE
    <3>1. ~ r.late /\ ~ r.copied
      BY <1>1, <2>1, <2>2, <2>3 DEF Clean
    <3>2. Holds(h)
      BY <2>2, <2>3, <3>1 DEF Holds
    <3>3. QED
      BY <1>5, <2>2, <2>3, <3>2 DEF Owned
  <2>4. QED
    BY <2>1, <2>2, <2>3 DEF TimerTypeOK, Holds, HandlerOK
<1>6. Holds(h)' => Holds(h) /\ Owns(h, r, d)
  BY <1>1, <1>4 DEF Owned, Holds
<1>7. Owned'
  BY <1>1, <1>5, <1>6 DEF Owned
<1>8. RunningOK'
  <2>1. \A g \in Handler : timer'[g].fd = timer[g].fd /\ timer'[g].heir = timer[g].heir
    BY <1>1 DEF TimerTypeOK
  <2>2. \A g \in Handler : Holds(g)' => Holds(g)
    BY <1>5, <1>6
  <2>3. CASE inTask' = inTask
    <3>1. \A g \in Handler : /\ timer'[g].kind = timer[g].kind
                            /\ timer[g].ran => timer'[g].ran
      BY <1>1 DEF TimerTypeOK
    <3>2. inTask \in Handler \union {Timer!None}
      BY DEF TimerTypeOK
    <3>3. QED
      BY <2>1, <2>2, <2>3, <3>1, <3>2 DEF RunningOK
  <2>4. CASE inTask' = Timer!None
    BY <2>4 DEF RunningOK
  <2>5. CASE inTask' = h /\ r.kind = "one" /\ r.ran
    BY <1>1, <1>5, <2>1, <2>5 DEF RunningOK
  <2>6. QED
    BY <2>3, <2>4, <2>5
<1>9. QED
  BY <1>2, <1>3, <1>7, <1>8

(* resetOneTask and both cancels are given a timer that has a descriptor.  *)
LEMMA HasDescriptor ==
  ASSUME TimerInv, NEW h \in Handler, timer[h].timerfd # 0
  PROVE  /\ timer[h].kind # Timer!None /\ timer[h].timerfd = timer[h].fd
         /\ timer[h].fd \in Timer!Fd
         /\ timer[h].cancelled => timer[h].copied
         /\ timer[h] \in HandlerType /\ HandlerOK(timer[h])
         /\ fds[timer[h].fd] \in FdType
BY DEF TimerInv, TimerTypeOK, HandlerOK, Timer!NoTimer

LEMMA ResetKeepsInv ==
  ASSUME TimerInv, NEW h \in Handler, NEW time \in {0, 1}, Timer!ResetOneTask(h, time)
  PROVE  TimerInv'
<1> DEFINE f == timer[h].fd
           r == [timer[h] EXCEPT !.reset = TRUE]
           d == [fds[f] EXCEPT !.armed = fds[f].open /\ time > 0,
                               !.periodic = FALSE, !.expired = FALSE]
<1>1. timer[h].timerfd # 0
  BY DEF Timer!ResetOneTask
<1>2. /\ timer' = [timer EXCEPT ![h] = r] /\ fds' = [fds EXCEPT ![f] = d]
      /\ batch' = batch /\ blocked' = blocked /\ inTask' = inTask
  BY <1>1, HasDescriptor DEF Timer!ResetOneTask
<1>3. /\ HandlerOK(r) /\ r.kind = timer[h].kind /\ r.fd = f /\ r.late = timer[h].late
      /\ r.copied = timer[h].copied /\ r.cancelled = timer[h].cancelled /\ r.reset
      /\ r.ran = timer[h].ran /\ r.heir = timer[h].heir
  BY <1>1, HasDescriptor DEF HandlerOK, HandlerType
<1>4. d \in FdType /\ d.registered = fds[f].registered /\ d.open = fds[f].open
  BY <1>1, HasDescriptor DEF FdType
<1>5. Owns(h, timer[h], fds[f]) => Owns(h, r, d)
  BY <1>3, <1>4 DEF Owns
<1>6. fds[f].registered = h => ~ timer[h].cancelled
  BY <1>1, HasDescriptor DEF TimerInv, Registrations
<1>7. blocked \in batch \union {Timer!None}
  BY DEF TimerInv, TimerTypeOK
<1>8. /\ timer[h].kind # Timer!None
      /\ timer[h].cancelled => timer[h].copied
  BY <1>1, HasDescriptor
<1> HIDE DEF r, d
<1>9. QED
  BY <1>2, <1>3, <1>4, <1>5, <1>6, <1>7, <1>8, OneTimerKeeps

LEMMA CancelKeepsInv ==
  ASSUME TimerInv, NEW h \in Handler, Timer!CancelTimer(h) \/ Timer!CancelCopy(h)
  PROVE  TimerInv'
<1> DEFINE f == timer[h].fd
           r == IF Timer!CancelTimer(h)
                THEN [timer[h] EXCEPT !.timerfd = 0, !.cancelled = TRUE]
                ELSE [timer[h] EXCEPT !.cancelled = TRUE, !.copied = TRUE]
<1>1. timer[h].timerfd # 0
  BY DEF Timer!CancelTimer, Timer!CancelCopy
<1>2. /\ timer' = [timer EXCEPT ![h] = r] /\ fds' = [fds EXCEPT ![f] = Timer!Closed]
      /\ batch' = batch /\ blocked' = blocked /\ inTask' = inTask
  BY <1>1, HasDescriptor DEF Timer!CancelTimer, Timer!CancelCopy
<1>3. /\ HandlerOK(r) /\ r.kind = timer[h].kind /\ r.fd = f /\ r.late = timer[h].late
      /\ timer[h].copied => r.copied
      /\ r.cancelled /\ r.ran = timer[h].ran /\ r.heir = timer[h].heir
  BY <1>1, HasDescriptor DEF HandlerOK, HandlerType
<1>4. Timer!Closed \in FdType /\ Timer!Closed.registered = Timer!None
  BY DEF FdType, Timer!Closed
<1>5. blocked \in batch \union {Timer!None}
  BY DEF TimerInv, TimerTypeOK
<1>6. /\ timer[h].kind # Timer!None
      /\ timer[h].cancelled => timer[h].copied
  BY <1>1, HasDescriptor
<1>7. Timer!None # h
  BY TimingAssumption
<1> HIDE DEF r
<1>8. QED
  BY <1>2, <1>3, <1>4, <1>5, <1>6, <1>7, OneTimerKeeps

LEMMA ExpiredKeepsInv ==
  ASSUME TimerInv, NEW h \in batch, Timer!RunTask(h), blocked' = Timer!None
  PROVE  TimerInv'
<1> DEFINE f == timer[h].fd
           late == timer[h].late \/ timer[h].cancelled
           r == [timer[h] EXCEPT !.ran = TRUE, !.late = late]
           d == [fds[f] EXCEPT !.expired = FALSE]
<1>1. /\ h \in Handler /\ timer[h].kind # Timer!None /\ f \in Timer!Fd
      /\ timer[h] \in HandlerType /\ HandlerOK(timer[h])
      /\ fds[f] \in FdType
  BY DEF TimerInv, TimerTypeOK, HandlerOK
<1>2. /\ timer' = [timer EXCEPT ![h] = r] /\ fds' = [fds EXCEPT ![f] = d]
      /\ batch' \subseteq batch
      /\ inTask' = IF timer[h].kind = "one" THEN h ELSE Timer!None
  BY <1>1 DEF Timer!RunTask
<1>3. /\ r.kind = timer[h].kind /\ r.fd = f /\ r.timerfd = timer[h].timerfd
      /\ r.late = (timer[h].late \/ timer[h].cancelled)
      /\ r.copied = timer[h].copied /\ r.cancelled = timer[h].cancelled
      /\ r.reset = timer[h].reset /\ r.heir = timer[h].heir
      /\ r.interval = timer[h].interval /\ r.ran
      /\ r \in HandlerType
  <2>1. late \in BOOLEAN
    BY <1>1 DEF HandlerType
  <2> HIDE DEF late
  <2>2. QED
    BY <1>1, <2>1 DEF HandlerType, late
<1>4. /\ d \in FdType /\ d.open = fds[f].open /\ d.periodic = fds[f].periodic
      /\ d.registered = fds[f].registered
  BY <1>1 DEF FdType
<1> HIDE DEF r, d
<1>5. HandlerOK(r)
  BY <1>1, <1>3 DEF HandlerOK
<1>6. Owns(h, timer[h], fds[f]) => Owns(h, r, d)
  BY <1>1, <1>3, <1>4 DEF Owns, HandlerType
<1>7. d.registered = h => ~ r.cancelled
  BY <1>1, <1>3, <1>4, TimingAssumption DEF TimerInv, Registrations
<1>8. QED
  BY <1>1, <1>2, <1>3, <1>4, <1>5, <1>6, <1>7, OneTimerKeeps

(* The task of h returns: only an heir loses what it holds.                *)
LEMMA EndKeepsInv ==
  ASSUME TimerInv, NEW h \in Handler, Timer!EndTask(h)
  PROVE  TimerInv'
<1> USE DEF TimerInv
<1> DEFINE f == timer[h].fd
           d == [fds[f] EXCEPT !.registered = Timer!None]
<1>1. /\ inTask = h /\ inTask # Timer!None /\ inTask' = Timer!None
      /\ fds' = [fds EXCEPT ![f] = d]
      /\ timer' = timer /\ batch' = batch /\ blocked' = blocked
  BY TimingAssumption DEF Timer!EndTask
<1>2. /\ timer[h].kind = "one" /\ timer[h].ran
      /\ \A g \in Handler : Holds(g) /\ timer[g].fd = f => g = h \/ timer[g].heir
  BY <1>1 DEF RunningOK
<1>3. f \in Timer!Fd /\ fds[f] \in FdType
  BY <1>2 DEF TimerTypeOK, HandlerOK, Timer!None
<1>4. /\ d \in FdType /\ d.open = fds[f].open /\ d.periodic = fds[f].periodic
      /\ d.registered = Timer!None
  BY <1>3 DEF FdType
<1> HIDE DEF d
<1>5. TimerTypeOK'
  BY <1>1, <1>3, <1>4 DEF TimerTypeOK
<1>6. Registrations'
  BY <1>1, <1>3, <1>4, TimingAssumption DEF TimerTypeOK, Registrations
<1>7. ASSUME NEW g \in Handler, Holds(g)
      PROVE  Owns(g, timer[g], fds'[timer[g].fd])
  <2>1. Owns(g, timer[g], fds[timer[g].fd])
    BY <1>7 DEF Owned
  <2>2. CASE timer[g].fd = f
    <3>1. fds'[f] = d
      BY <1>1, <1>3 DEF TimerTypeOK
    <3>2. g = h \/ timer[g].heir
      BY <1>2, <1>7, <2>2
    <3>3. QED
      BY <1>2, <1>4, <2>1, <2>2, <3>1, <3>2 DEF Owns
  <2>3. CASE timer[g].fd # f
    BY <1>1, <1>7, <2>1, <2>3 DEF TimerTypeOK, Holds, HandlerOK
  <2>4. QED
    BY <2>2, <2>3
<1>8. \A g \in Handler : Holds(g)' <=> Holds(g)
  BY <1>1 DEF Holds, Clean
<1>9. Owned'
  BY <1>1, <1>7, <1>8 DEF Owned
<1>10. RunningOK'
  BY <1>1 DEF RunningOK
<1>11. QED
  BY <1>5, <1>6, <1>9, <1>10

(* The kernel and poll() touch neither who holds a number nor the events.  *)
LEMMA QuietKeeps ==
  ASSUME TimerInv, \/ \E f \in Timer!Fd : Timer!Expire(f)
                   \/ Timer!Poll \/ Timer!Destructor
                   \/ \E h \in Handler : Timer!HandleBlocks(h)
                   \/ UNCHANGED Timer!vars
  PROVE  TimerInv'
<1> USE DEF TimerInv
<1>1. ASSUME NEW f \in Timer!Fd, Timer!Expire(f) PROVE TimerInv'
  <2> DEFINE d == [fds[f] EXCEPT !.expired = TRUE, !.armed = fds[f].periodic]
  <2>1. /\ fds' = [fds EXCEPT ![f] = d]
        /\ timer' = timer /\ batch' = batch /\ blocked' = blocked /\ inTask' = inTask
    BY <1>1 DEF Timer!Expire
  <2>2. /\ d \in FdType /\ d.open = fds[f].open /\ d.registered = fds[f].registered
        /\ d.periodic = fds[f].periodic
    BY DEF TimerTypeOK, FdType
  <2> HIDE DEF d
  <2>3. \A g \in Timer!Fd :
          /\ fds'[g].open = fds[g].open /\ fds'[g].registered = fds[g].registered
          /\ fds'[g].periodic = fds[g].periodic
    BY <2>1, <2>2 DEF TimerTypeOK
  <2>4. TimerTypeOK' /\ Registrations'
    BY <2>1, <2>2, <2>3 DEF TimerTypeOK, Registrations
  <2>5. \A h \in Handler : Holds(h)' <=> Holds(h)
    BY <2>1 DEF Holds, Clean
  <2>6. \A h \in Handler : Holds(h) => timer[h].fd \in Timer!Fd
    BY DEF Holds, TimerTypeOK, HandlerOK
  <2>7. Owned'
    BY <2>1, <2>3, <2>5, <2>6 DEF Owned, Owns
  <2>8. RunningOK'
    BY <2>1, <2>5 DEF RunningOK
  <2>9. QED
    BY <2>4, <2>7, <2>8
<1>2. ASSUME UNCHANGED <<fds, timer, inTask>>, TimerTypeOK' PROVE TimerInv'
  BY <1>2 DEF Registrations, Owned, Holds, Clean, RunningOK
<1>3. CASE Timer!Poll
  <2>1. \A f \in Timer!Fd : fds[f].registered \in Handler \union {Timer!None}
    BY DEF TimerTypeOK, FdType
  <2>2. ASSUME NEW h \in batch' PROVE h \in Handler /\ timer[h].kind # Timer!None
    <3>1. PICK f \in Timer!Fd : fds[f].registered = h /\ h # Timer!None
      BY <1>3, <2>2 DEF Timer!Poll, Timer!Ready
    <3>2. h \in Handler /\ timer[h].fd = f
      BY <2>1, <3>1 DEF Registrations
    <3>3. QED
      BY <3>2, FdFacts DEF TimerTypeOK, HandlerOK, Timer!NoTimer
  <2>3. fds' = fds /\ timer' = timer /\ blocked' = Timer!None /\ inTask' = inTask
    BY <1>3 DEF Timer!Poll, Timer!Handling, Timer!Running
  <2>4. TimerTypeOK'
    BY <2>2, <2>3 DEF TimerTypeOK
  <2>5. QED
    BY <1>2, <2>3, <2>4
<1>4. CASE Timer!Destructor
  BY <1>2, <1>4 DEF Timer!Destructor, TimerTypeOK
<1>5. ASSUME NEW h \in Handler, Timer!HandleBlocks(h) PROVE TimerInv'
  BY <1>2, <1>5 DEF Timer!HandleBlocks, TimerTypeOK
<1>6. CASE UNCHANGED Timer!vars
  BY <1>2, <1>6 DEF Timer!vars, TimerTypeOK
<1>7. QED
  BY <1>1, <1>3, <1>4, <1>5, <1>6

LEMMA TimerInvInductive == TimerInv /\ [Timer!Next]_(Timer!vars) => TimerInv'
<1>1. SUFFICES ASSUME TimerInv, [Timer!Next]_(Timer!vars) PROVE TimerInv'
  OBVIOUS
<1>2. ASSUME NEW h \in Handler, Timer!Call(h) PROVE TimerInv'
  <2>1. ASSUME NEW time \in {0, 1}, Timer!AddTimedTask(h, time) PROVE TimerInv'
    BY <1>1, <2>1, AddKeeps DEF Timer!AddTimedTask
  <2>2. ASSUME NEW time \in {0, 1}, Timer!AddOneTask(h, time) PROVE TimerInv'
    <3>1. (time > 0) \in BOOLEAN /\ 0 \in Nat /\ ~ (0 > 0)
      OBVIOUS
    <3>2. QED
      BY <1>1, <2>2, <3>1, AddKeeps DEF Timer!AddOneTask
  <2>3. QED
    BY <1>1, <1>2, <2>1, <2>2, ResetKeepsInv, CancelKeepsInv DEF Timer!Call
<1>3. ASSUME NEW h \in Handler, Timer!HandleExpired(h) PROVE TimerInv'
  BY <1>1, <1>3, ExpiredKeepsInv DEF Timer!HandleExpired, Timer!Handling, Timer!Running
<1>4. ASSUME NEW h \in Handler, Timer!Unblock(h) PROVE TimerInv'
  <2>1. h \in batch
    BY <1>1, <1>4, TimingAssumption DEF Timer!Unblock, TimerInv, TimerTypeOK
  <2>2. QED
    BY <1>1, <1>4, <2>1, ExpiredKeepsInv DEF Timer!Unblock
<1>5. QED
  BY <1>1, <1>2, <1>3, <1>4, EndKeepsInv, QuietKeeps DEF Timer!Next, Timer!LoopStep

(* Whatever runs beside them, the timers behave as Timer says.             *)
LEMMA PartIsTimer == TimingSpec => Timer!Spec
<1>1. TimingInit => Timer!Init
  BY DEF TimingInit
<1>2. [TimingNext]_timingVars => [Timer!Next]_(Timer!vars)
  BY DEF TimingNext, timingVars, timerVars, Timer!vars
<1>3. QED
  BY <1>1, <1>2, PTL DEF TimingSpec, Timer!Spec

LEMMA TimerInvAlways == TimingSpec => []TimerInv
BY PartIsTimer, TimerInvInit, TimerInvInductive, PTL DEF Timer!Spec

(* A timer that its program waits for has a descriptor of its own that is  *)
(* open and carries its event, however often the numbers of others were    *)
(* closed and used again (Timer.cpp:75, 84-86), unless a copy was          *)
(* cancelled, a cancelled timer still ran under its number, or its number  *)
(* was that of the single timer whose task has added it.                   *)
THEOREM DescriptorIsOwn == TimingSpec => []OwnDescriptor
<1>1. ASSUME TimerInv PROVE Timer!OwnDescriptor
  <2>1. SUFFICES ASSUME NEW h \in Handler, Timer!Waiting(h), ~ Timer!Robbed(h)
                 PROVE  /\ fds[timer[h].timerfd].open
                        /\ timer[h].interval > 0 /\ ~ timer[h].reset
                             => fds[timer[h].fd].periodic
                        /\ fds[timer[h].fd].registered = h
    BY DEF Timer!OwnDescriptor
  <2>2. HandlerOK(timer[h]) /\ timer[h].kind # Timer!None /\ ~ timer[h].cancelled
    BY <1>1, <2>1 DEF TimerInv, TimerTypeOK, Timer!Waiting
  <2>3. Holds(h)
    BY <2>1, <2>2 DEF Holds, Clean, HandlerOK, Timer!Robbed
  <2>4. Owns(h, timer[h], fds[timer[h].fd]) /\ timer[h].timerfd = timer[h].fd
    BY <1>1, <2>2, <2>3 DEF TimerInv, Owned, HandlerOK
  <2>5. /\ timer[h].kind \in {"timed", "one"} /\ ~ timer[h].heir
        /\ timer[h].kind = "one" => ~ timer[h].ran
    BY <2>1, <2>2 DEF HandlerOK, HandlerType, Timer!Waiting, Timer!Robbed
  <2>6. QED
    BY <2>4, <2>5 DEF Owns
<1>2. TimerInv => OwnDescriptor
  BY <1>1 DEF OwnDescriptor
<1>3. QED
  BY <1>2, TimerInvAlways, PTL

(* Only poll() puts events in a batch, and the epoller has none of a       *)
(* cancelled timer: cancelTimer removes the event before it closes the     *)
(* descriptor (Timer.cpp:83-86).                                           *)
THEOREM CancelledIsOver == TimingSpec => CancelIsFinal
<1>1. ASSUME TimerInv, [Timer!Next]_(Timer!vars)
      PROVE  [\A h \in Handler :
                timer[h].cancelled /\ h \notin batch => h \notin batch']_(Timer!vars)
  <2>1. CASE UNCHANGED Timer!vars
    BY <2>1
  <2>2. ASSUME Timer!Next, ~ Timer!Poll PROVE batch' \subseteq batch
    BY <2>2
    DEF Timer!Next, Timer!LoopStep, Timer!Call, Timer!AddTimedTask, Timer!AddOneTask,
        Timer!Add, Timer!ResetOneTask, Timer!CancelTimer, Timer!CancelCopy,
        Timer!Destructor, Timer!Expire, Timer!EndTask, Timer!HandleExpired, Timer!HandleBlocks,
        Timer!Unblock, Timer!RunTask
  <2>3. Timer!Next => \A h \in Handler : timer[h].cancelled /\ h \notin batch => h \notin batch'
    <3>1. ASSUME Timer!Poll
          PROVE  \A h \in Handler : timer[h].cancelled /\ h \notin batch => h \notin batch'
      BY <1>1, <3>1, TimingAssumption DEF Timer!Poll, Timer!Ready, TimerInv, Registrations
    <3>2. QED
      BY <2>2, <3>1
  <2>4. QED
    BY <1>1, <2>1, <2>3
<1>2. QED
  BY <1>1, TimerInvAlways, PartIsTimer, PTL DEF CancelIsFinal, Timer!CancelIsFinal, Timer!Spec
=============================================================================
