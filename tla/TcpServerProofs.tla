---------------------------- MODULE TcpServerProofs ----------------------------
(***************************************************************************)
(* What TLAPS proves of TcpServer, for every set of connections, every     *)
(* pool and every bound on the output, of the programs that                *)
(*   - give no established callback, or have no pool, and                  *)
(*   - close no connection from a timed task:                              *)
(* the other programs are refuted by the run TcpServerAccept and by the    *)
(* hazard of EventLoop.h:30.                                               *)
(***************************************************************************)
EXTENDS TcpServer, TLAPS

(* The programs the theorems are about.                                    *)
CarefulProgram ==
  /\ HasEsta => Worker = <<>>
  /\ TimerUses \subseteq {"none", "send"}

-----------------------------------------------------------------------------
(* The inductive invariant, in parts.                                      *)

(* A connection r of loop o, but for the arming of its output.  A close    *)
(* that was postponed was asked for by the thread of o; a connection that  *)
(* was deleted was told to the user once and had nothing to write.         *)
ConnBase(r, o) ==
  /\ r \in ConnType
  /\ r.failed \in {"none", "retrieve"}
  /\ r.data \in {Null, o}
  /\ r.isWillClose => r.data # Null
  /\ r.mem = "none" => r = NoConn
  /\ r.mem = "live" => r.registered /\ r.closeCalls = 0 /\ o \in Loop
  /\ r.mem = "freed" => ~ r.registered /\ r.closeCalls = 1 /\ r.output = 0

Armed(r) ==
  r.mem = "live" /\ r.output > 0 => "out" \in r.interest /\ r.writeCallback

ConnsOK == \A c \in Conn : ConnBase(conn[c], owner[c]) /\ Armed(conn[c])

(* A batch only holds live connections of its own loop.                    *)
BatchesOK ==
  \A l \in Loop : \A c \in batch[l] \ {Listen} :
    conn[c].mem = "live" /\ owner[c] = l

(* A connection waits in the backlog once, and before it is accepted; one  *)
(* that accept(2) took without success has no TcpConnection.               *)
BacklogOK ==
  /\ \A i \in DOMAIN backlog :
       conn[backlog[i]].mem = "none" /\ sock[backlog[i]].stage = "open"
  /\ \A i, j \in DOMAIN backlog : backlog[i] = backlog[j] => i = j
  /\ \A c \in Conn : sock[c].stage # "open" => conn[c].mem = "none"

(* Until it is made readable no thread but the main one reaches the new    *)
(* connection; without a pool none does until acceptCallback returns.      *)
AcceptOK ==
  /\ accepting = "arm" =>
       /\ newConn \in Conn
       /\ conn[newConn].mem = "live"
       /\ conn[newConn].interest = {}
       /\ conn[newConn].revents \subseteq {"err"}
  /\ accepting = "established" =>
       /\ newConn \in Conn
       /\ Worker = <<>>
       /\ conn[newConn].mem = "live"

IInv == TypeOK /\ ConnsOK /\ BatchesOK /\ BacklogOK /\ AcceptOK /\ ~ misused

-----------------------------------------------------------------------------
(* What the methods of a live connection r of loop o make of it.           *)

LEMMA LoopFacts ==
  /\ Main \in Loop
  /\ Null \notin Loop
  /\ Worker = <<>> => Loop = {Main}
BY TcpServerAssumption DEF Loop, Main, Null

(* send() keeps what ConnBase says and arms the output.                    *)
LEMMA SendKeeps ==
  ASSUME NEW r, NEW o, NEW isLast \in BOOLEAN,
         ConnBase(r, o), r.mem = "live", r.output > 0, isLast => r.data # Null
  PROVE  /\ ConnBase(Send(r, isLast), o)
         /\ Armed(Send(r, isLast))
         /\ Send(r, isLast).mem = "live"
<1>1. /\ r \in ConnType
      /\ r.failed \in {"none", "retrieve"}
      /\ r.data \in {Null, o}
      /\ r.registered /\ r.closeCalls = 0 /\ o \in Loop
  BY DEF ConnBase
<1> DEFINE sent == [r EXCEPT !.isWillClose = isLast,
                             !.interest = @ \union {"out"},
                             !.writeCallback = TRUE]
<1>2. Send(r, isLast) = sent
  BY <1>1 DEF Send, ConnType
<1>3. sent \in ConnType
  BY <1>1 DEF ConnType
<1>4. /\ "out" \in sent.interest /\ sent.writeCallback /\ sent.isWillClose = isLast
      /\ sent.mem = r.mem /\ sent.registered = r.registered /\ sent.data = r.data
      /\ sent.closeCalls = r.closeCalls /\ sent.failed = r.failed
  <2>1. "out" \in sent.interest /\ sent.writeCallback /\ sent.isWillClose = isLast
    BY <1>1 DEF ConnType
  <2>2. sent.mem = r.mem /\ sent.registered = r.registered /\ sent.data = r.data
    BY <1>1 DEF ConnType
  <2>3. sent.closeCalls = r.closeCalls /\ sent.failed = r.failed
    BY <1>1 DEF ConnType
  <2>4. QED
    BY <2>1, <2>2, <2>3
<1> HIDE DEF sent
<1>5. sent.mem = "live" /\ sent.failed \in {"none", "retrieve"} /\ sent.data \in {Null, o}
  BY <1>1, <1>4
<1>6. (sent.isWillClose => sent.data # Null) /\ sent.registered /\ sent.closeCalls = 0
  BY <1>1, <1>4
<1>7. ConnBase(sent, o)
  BY <1>1, <1>3, <1>5, <1>6 DEF ConnBase
<1>8. Armed(sent)
  BY <1>4 DEF Armed
<1>9. QED
  BY Zenon, <1>2, <1>5, <1>7, <1>8

(* One more byte of output, and its send().                                *)
LEMMA SendBytesKeeps ==
  ASSUME NEW r, NEW o, ConnBase(r, o), r.mem = "live", r.output < MaxOut
  PROVE  /\ ConnBase(SendBytes(r), o)
         /\ Armed(SendBytes(r))
         /\ SendBytes(r).mem = "live"
         /\ SendBytes(r).data = r.data
<1> DEFINE more == [r EXCEPT !.output = @ + 1]
<1>1. ConnBase(more, o) /\ more.mem = "live" /\ more.output > 0 /\ more.data = r.data
  BY TcpServerAssumption DEF ConnBase, ConnType, NoConn
<1>2. SendBytes(r) = Send(more, FALSE)
  BY DEF SendBytes
<1>3. Send(more, FALSE).data = more.data
  BY <1>1 DEF Send, ConnBase, ConnType
<1> HIDE DEF more
<1>4. QED
  BY <1>1, <1>2, <1>3, SendKeeps

(* A connection without output is destroyed.                               *)
LEMMA DestroyKeeps ==
  ASSUME NEW r, NEW o, ConnBase(r, o), r.mem = "live", r.output = 0
  PROVE  ConnBase(Destroy(r), o) /\ Armed(Destroy(r))
<1>1. /\ r \in ConnType
      /\ r.failed \in {"none", "retrieve"}
      /\ r.data \in {Null, o}
      /\ r.isWillClose => r.data # Null
      /\ r.closeCalls = 0
  BY DEF ConnBase
<1> DEFINE told == [r EXCEPT !.closeCalls = 1]
           gone == [told EXCEPT !.registered = FALSE, !.mem = "freed"]
<1>2. Destroy(r) = gone /\ gone \in ConnType
  <2>1. Destroy(r) = gone
    BY <1>1 DEF Destroy
  <2>2. told \in ConnType
    BY <1>1 DEF ConnType
  <2>3. gone \in ConnType
    <3> HIDE DEF told
    <3>1. QED
      BY <2>2 DEF ConnType
  <2>4. QED
    BY <2>1, <2>3
<1>3. /\ Destroy(r).mem = "freed"
      /\ Destroy(r).registered = FALSE
      /\ Destroy(r).closeCalls = 1
      /\ Destroy(r).data = r.data
      /\ Destroy(r).output = r.output
      /\ Destroy(r).isWillClose = r.isWillClose
      /\ Destroy(r).failed = r.failed
  BY <1>1, <1>2 DEF ConnType
<1>4. QED
  BY <1>1, <1>2, <1>3 DEF ConnBase, Armed

(* closeConnection on the thread of the owner.                             *)
LEMMA CloseKeeps ==
  ASSUME NEW r, NEW o, NEW l \in Loop,
         ConnBase(r, o), Armed(r), r.mem = "live", r.data = l
  PROVE  /\ ConnBase(CloseConnection(r, l), o)
         /\ Armed(CloseConnection(r, l))
<1> DEFINE deaf == [r EXCEPT !.interest = @ \ {"in"}]
<1>1. CASE r.output > 0
  <2>1. ConnBase(deaf, o) /\ deaf.mem = "live" /\ deaf.output > 0 /\ deaf.data = l
    BY <1>1 DEF ConnBase, ConnType, NoConn
  <2>2. CloseConnection(r, l) = Send(deaf, TRUE)
    BY <1>1 DEF CloseConnection
  <2> HIDE DEF deaf
  <2>3. QED
    BY <2>1, <2>2, SendKeeps, LoopFacts
<1>2. CASE ~ (r.output > 0)
  <2>1. CloseConnection(r, l) = Destroy(r)
    BY <1>2 DEF CloseConnection
  <2>2. r.output = 0
    BY <1>2, TcpServerAssumption DEF ConnBase, ConnType
  <2>3. QED
    BY <2>1, <2>2, DestroyKeeps
<1>3. QED
  BY <1>1, <1>2

(* preConnMsgCallback records the thread it runs on.                       *)
LEMMA ServeKeeps ==
  ASSUME NEW r, NEW l \in Loop, ConnBase(r, l), Armed(r), r.mem = "live"
  PROVE  /\ ConnBase(Serve(r, l), l)
         /\ Armed(Serve(r, l))
         /\ Serve(r, l).mem = "live"
         /\ Serve(r, l).data = l
         /\ Serve(r, l).output = r.output
BY LoopFacts DEF ConnBase, Armed, Serve, ConnType, NoConn

(* A callback of the user on the thread of the owner.                      *)
LEMMA UserCallbackKeeps ==
  ASSUME NEW r, NEW o, NEW l \in Loop, NEW use \in Use,
         ConnBase(r, o), Armed(r), r.mem = "live", r.data = l,
         use \in {"send", "reply"} => r.output < MaxOut
  PROVE  /\ ConnBase(UserCallback(r, l, use), o)
         /\ Armed(UserCallback(r, l, use))
<1>1. CASE use = "none"
  BY <1>1 DEF UserCallback
<1>2. CASE use = "send"
  BY <1>2, SendBytesKeeps DEF UserCallback
<1>3. CASE use = "close"
  BY <1>3, CloseKeeps DEF UserCallback
<1>4. CASE use = "reply"
  BY <1>4, SendBytesKeeps, CloseKeeps DEF UserCallback
<1>5. QED
  BY <1>1, <1>2, <1>3, <1>4 DEF Use

(* sendNonblock on the thread of the owner.                                *)
LEMMA SendNonblockKeeps ==
  ASSUME NEW r, NEW l \in Loop, NEW n \in 1 .. r.output \union {-1},
         ConnBase(r, l), Armed(r), r.mem = "live"
  PROVE  /\ ConnBase(SendNonblock(r, l, n), l)
         /\ Armed(SendNonblock(r, l, n))
<1> DEFINE rest  == [r EXCEPT !.output = @ - n]
           quiet == [rest EXCEPT !.interest = @ \ {"out"}]
<1>1. CASE n = -1
  BY <1>1 DEF SendNonblock, ConnBase, Armed, ConnType, NoConn
<1>2. CASE n # -1
  <2>1. n \in 1 .. r.output /\ r.output \in 0 .. MaxOut
    BY <1>2 DEF ConnBase, ConnType
  <2>2. /\ ConnBase(rest, l)
        /\ Armed(rest)
        /\ rest.mem = "live"
        /\ rest.output \in Nat
    BY <2>1, TcpServerAssumption DEF ConnBase, Armed, ConnType, NoConn
  <2> HIDE DEF rest
  <2>3. CASE rest.output > 0
    <3>1. SendNonblock(r, l, n) = rest
      BY <1>2, <2>3 DEF SendNonblock, rest
    <3>2. QED
      BY <2>2, <3>1
  <2>4. CASE rest.output = 0
    <3>1. /\ ConnBase(quiet, l)
          /\ Armed(quiet)
          /\ quiet.mem = "live"
          /\ quiet.isWillClose => quiet.data = l
      BY <2>2, <2>4, LoopFacts DEF ConnBase, Armed, ConnType, NoConn
    <3>2. SendNonblock(r, l, n) =
            IF quiet.isWillClose THEN CloseConnection(quiet, l) ELSE quiet
      BY <1>2, <2>4 DEF SendNonblock, rest
    <3> HIDE DEF quiet
    <3>3. QED
      BY <3>1, <3>2, CloseKeeps
  <2>5. QED
    BY <2>2, <2>3, <2>4
<1>3. QED
  BY <1>1, <1>2

-----------------------------------------------------------------------------
(* The invariant holds at first and is kept by every step.                 *)

LEMMA InvInitially == Init => IInv
<1> SUFFICES ASSUME Init PROVE IInv
  OBVIOUS
<1>1. NoSock \in SockType /\ NoConn \in ConnType
  BY TcpServerAssumption DEF NoSock, SockType, NoConn, ConnType
<1>2. TypeOK
  <2>1. sock \in [Conn -> SockType] /\ conn \in [Conn -> ConnType]
    BY <1>1 DEF Init
  <2>2. backlog \in Seq(Conn) /\ nextIndex \in Nat
    BY DEF Init
  <2>m. misused \in BOOLEAN
    BY Zenon DEF Init
  <2>3. /\ owner \in [Conn -> Loop \union {Null}]
        /\ batch \in [Loop -> SUBSET (Conn \union {Listen})]
        /\ accepting \in {"no", "accept", "arm", "established"}
        /\ newConn \in Conn \union {Null}
    BY DEF Init
  <2>4. QED
    BY <2>1, <2>2, <2>m, <2>3 DEF TypeOK
<1>3. ConnsOK
  BY <1>1 DEF Init, ConnsOK, ConnBase, Armed, NoConn
<1>4. BatchesOK /\ BacklogOK /\ AcceptOK /\ ~ misused
  BY DEF Init, BatchesOK, BacklogOK, AcceptOK, NoConn
<1>5. QED
  BY <1>2, <1>3, <1>4 DEF IInv

(* What peers do to a socket concerns no part but the types.               *)
LEMMA PeerStep ==
  ASSUME IInv, NEW c \in Conn, NEW s \in SockType, s.stage = "open", Peer(c, s)
  PROVE  IInv'
<1> USE DEF Peer
<1>1. TypeOK'
  BY DEF IInv, TypeOK
<1>2. ConnsOK' /\ BatchesOK' /\ AcceptOK' /\ ~ misused'
  BY DEF IInv, ConnsOK, BatchesOK, AcceptOK
<1>3. \A d \in Conn : sock'[d].stage = sock[d].stage
  BY DEF IInv, TypeOK
<1>4. BacklogOK'
  BY <1>3 DEF IInv, TypeOK, BacklogOK
<1>5. QED
  BY <1>1, <1>2, <1>4 DEF IInv

(* Loop l takes c from its batch and leaves r of it: what the four ways to *)
(* handle an event have in common.                                         *)
LEMMA TakesKeeps ==
  ASSUME IInv, NEW l \in Loop, NEW c \in Conn, Takes(l, c), NEW r,
         conn' = [conn EXCEPT ![c] = r],
         ConnBase(r, l), Armed(r), r.mem # "none",
         accepting = "arm" /\ newConn = c => r = conn[c],
         sock' \in [Conn -> SockType],
         \A d \in Conn : sock'[d].stage = sock[d].stage
  PROVE  IInv'
<1>1. conn[c].mem = "live" /\ owner[c] = l /\ accepting # "established"
  BY TcpServerAssumption, LoopFacts DEF IInv, BatchesOK, AcceptOK, Takes
<1>m. ~ misused' /\ misused' \in BOOLEAN
  <2>1. misused' = (misused \/ conn[c].mem = "freed")
    BY DEF Takes
  <2>2. ~ misused /\ conn[c].mem # "freed"
    BY <1>1 DEF IInv
  <2>3. QED
    BY <2>1, <2>2, Zenon
<1>2. /\ batch' = [batch EXCEPT ![l] = @ \ {c}]
      /\ UNCHANGED <<backlog, owner, nextIndex, accepting, newConn>>
  BY DEF Takes
<1>3. \A d \in Conn : conn'[d] = IF d = c THEN r ELSE conn[d]
  BY DEF IInv, TypeOK
<1>4. TypeOK'
  <2>1. conn' \in [Conn -> ConnType]
    BY DEF IInv, TypeOK, ConnBase
  <2>2. batch' \in [Loop -> SUBSET (Conn \union {Listen})]
    BY <1>2 DEF IInv, TypeOK
  <2>3. QED
    BY <1>m, <1>2, <2>1, <2>2 DEF IInv, TypeOK
<1>5. ConnsOK'
  BY <1>1, <1>2, <1>3 DEF IInv, ConnsOK
<1>6. BatchesOK'
  <2> SUFFICES ASSUME NEW k \in Loop, NEW d \in batch'[k] \ {Listen}
               PROVE  conn'[d].mem = "live" /\ owner'[d] = k
    BY DEF BatchesOK
  <2>1. d \in batch[k] /\ d \in Conn
    BY <1>2 DEF IInv, TypeOK
  <2>2. conn[d].mem = "live" /\ owner[d] = k
    BY <2>1 DEF IInv, BatchesOK
  <2>3. d # c
    BY <1>1, <1>2, <2>2 DEF IInv, TypeOK
  <2>4. QED
    BY <1>2, <1>3, <2>1, <2>2, <2>3
<1>7. BacklogOK'
  BY <1>1, <1>2, <1>3 DEF IInv, TypeOK, BacklogOK
<1>8. AcceptOK'
  BY <1>1, <1>2, <1>3 DEF IInv, AcceptOK
<1>9. QED
  BY <1>m, <1>4, <1>5, <1>6, <1>7, <1>8 DEF IInv

(* The connection that loop l takes is live, its own, and unless it is     *)
(* still being accepted free to be changed.                                *)
LEMMA Taken ==
  ASSUME IInv, NEW l \in Loop, NEW c \in Conn, Takes(l, c)
  PROVE  /\ ConnBase(conn[c], l)
         /\ Armed(conn[c])
         /\ conn[c].mem = "live"
         /\ accepting = "arm" /\ newConn = c => conn[c].revents \subseteq {"err"}
         /\ sock \in [Conn -> SockType]
         /\ conn \in [Conn -> ConnType]
BY TcpServerAssumption DEF IInv, TypeOK, ConnsOK, BatchesOK, AcceptOK, Takes

(* No method of a connection turns it into one that was never made.        *)
LEMMA NeverNone ==
  ASSUME NEW r, NEW o, ConnBase(r, o), NEW l \in Loop, r.mem = "live"
  PROVE  /\ CloseConnection(r, l).mem # "none"
         /\ \A use \in Use : UserCallback(r, l, use).mem # "none"
         /\ \A n \in Int : SendNonblock(r, l, n).mem # "none"
BY DEF CloseConnection, UserCallback, SendNonblock, SendBytes, Send, Destroy, Use,
       ConnBase, ConnType

LEMMA HandleCloseStep ==
  ASSUME IInv, NEW l \in Loop, NEW c \in Conn, HandleClose(l, c)
  PROVE  IInv'
<1> DEFINE r == CloseConnection(Serve(conn[c], l), l)
<1>1. Takes(l, c) /\ conn' = [conn EXCEPT ![c] = r] /\ UNCHANGED sock
      /\ "in" \in conn[c].revents
  BY DEF HandleClose
<1>2. /\ ConnBase(Serve(conn[c], l), l)
      /\ Armed(Serve(conn[c], l))
      /\ Serve(conn[c], l).mem = "live"
      /\ Serve(conn[c], l).data = l
  BY <1>1, Taken, ServeKeeps
<1>3. ConnBase(r, l) /\ Armed(r) /\ r.mem # "none"
  BY <1>2, CloseKeeps, NeverNone
<1>4. ~ (accepting = "arm" /\ newConn = c)
  BY <1>1, Taken
<1> HIDE DEF r
<1>5. QED
  BY <1>1, <1>3, <1>4, Taken, TakesKeeps

LEMMA HandleMessageStep ==
  ASSUME IInv, NEW l \in Loop, NEW c \in Conn, HandleMessage(l, c)
  PROVE  IInv'
<1>1. PICK use \in MsgUses \union {"none"} :
        /\ use \in {"send", "reply"} => conn[c].output < MaxOut
        /\ conn' = [conn EXCEPT ![c] = UserCallback(Serve(conn[c], l), l, use)]
  BY DEF HandleMessage
<1>2. Takes(l, c) /\ sock' = [sock EXCEPT ![c].inbox = 0] /\ "in" \in conn[c].revents
  BY DEF HandleMessage
<1> DEFINE r == UserCallback(Serve(conn[c], l), l, use)
<1>3. use \in Use
  BY TcpServerAssumption DEF Use
<1>4. /\ ConnBase(Serve(conn[c], l), l)
      /\ Armed(Serve(conn[c], l))
      /\ Serve(conn[c], l).mem = "live"
      /\ Serve(conn[c], l).data = l
      /\ Serve(conn[c], l).output = conn[c].output
  BY <1>2, Taken, ServeKeeps
<1>5. ConnBase(r, l) /\ Armed(r) /\ r.mem # "none"
  BY <1>1, <1>3, <1>4, UserCallbackKeeps, NeverNone
<1>6. ~ (accepting = "arm" /\ newConn = c)
  BY <1>2, Taken
<1>7. /\ sock' \in [Conn -> SockType]
      /\ \A d \in Conn : sock'[d].stage = sock[d].stage
  BY <1>2, Taken DEF SockType
<1> HIDE DEF r
<1>8. conn' = [conn EXCEPT ![c] = r]
  BY <1>1 DEF r
<1>9. QED
  BY <1>2, <1>5, <1>6, <1>7, <1>8, TakesKeeps

LEMMA HandleWriteStep ==
  ASSUME IInv, NEW l \in Loop, NEW c \in Conn, HandleWrite(l, c)
  PROVE  IInv'
<1>1. Takes(l, c) /\ "out" \in conn[c].revents
  BY DEF HandleWrite
<1>2. PICK n \in 1 .. conn[c].output \union {-1} :
        conn' = [conn EXCEPT ![c] = SendNonblock(conn[c], l, n)]
  BY DEF HandleWrite
<1> DEFINE r == SendNonblock(conn[c], l, n)
<1>3. n \in Int
  BY <1>1, Taken DEF ConnBase, ConnType
<1>4. ConnBase(r, l) /\ Armed(r) /\ r.mem # "none"
  BY <1>1, <1>3, Taken, SendNonblockKeeps, NeverNone
<1>5. ~ (accepting = "arm" /\ newConn = c)
  BY <1>1, Taken
<1>6. /\ sock' \in [Conn -> SockType]
      /\ \A d \in Conn : sock'[d].stage = sock[d].stage
  <2>1. sock' = sock \/ \E space \in BOOLEAN : sock' = [sock EXCEPT ![c].space = space]
    BY DEF HandleWrite
  <2>2. QED
    BY <1>1, <2>1, Taken DEF SockType
<1> HIDE DEF r
<1>7. conn' = [conn EXCEPT ![c] = r]
  BY <1>2 DEF r
<1>8. QED
  BY <1>1, <1>4, <1>5, <1>6, <1>7, TakesKeeps

LEMMA HandleNothingStep ==
  ASSUME IInv, NEW l \in Loop, NEW c \in Conn, HandleNothing(l, c)
  PROVE  IInv'
<1>1. Takes(l, c) /\ UNCHANGED <<sock, conn>>
  BY DEF HandleNothing
<1>2. conn' = [conn EXCEPT ![c] = conn[c]]
  BY <1>1, Taken
<1>3. QED
  BY <1>1, <1>2, Taken, TakesKeeps

(* A connected socket changes its stage.                                   *)
LEMMA StageKeepsType ==
  ASSUME sock \in [Conn -> SockType], NEW c \in Conn,
         NEW stage \in {"open", "dropped", "zero"}
  PROVE  [sock EXCEPT ![c].stage = stage] \in [Conn -> SockType]
<1> DEFINE s == [sock[c] EXCEPT !.stage = stage]
<1>1. s \in SockType
  BY DEF SockType
<1>2. [sock EXCEPT ![c].stage = stage] = [sock EXCEPT ![c] = s]
  OBVIOUS
<1> HIDE DEF s
<1>3. QED
  BY <1>1, <1>2

LEMMA PeerConnectsStep ==
  ASSUME IInv, NEW c \in Conn, PeerConnects(c)
  PROVE  IInv'
<1>1. /\ sock' = [sock EXCEPT ![c].stage = "open"]
      /\ backlog' = Append(backlog, c)
      /\ sock[c].stage = "none"
      /\ UNCHANGED <<conn, owner, nextIndex, batch, accepting, newConn, misused>>
  BY DEF PeerConnects
<1>2. sock' \in [Conn -> SockType] /\ backlog' \in Seq(Conn)
  <2>1. sock' \in [Conn -> SockType]
    BY <1>1, StageKeepsType DEF IInv, TypeOK
  <2>2. QED
    BY <1>1, <2>1 DEF IInv, TypeOK
<1>3. TypeOK'
  BY <1>1, <1>2 DEF IInv, TypeOK
<1>4. ConnsOK' /\ BatchesOK' /\ AcceptOK'
  BY <1>1 DEF IInv, ConnsOK, BatchesOK, AcceptOK
<1>m. ~ misused'
  BY <1>1 DEF IInv
<1>5. \A d \in Conn : sock'[d].stage = IF d = c THEN "open" ELSE sock[d].stage
  BY <1>1 DEF IInv, TypeOK, SockType
<1>6. BacklogOK'
  <2>1. conn[c].mem = "none" /\ \A i \in DOMAIN backlog : backlog[i] # c
    BY <1>1 DEF IInv, TypeOK, BacklogOK
  <2>2. \A i \in DOMAIN backlog' :
          backlog'[i] = c \/ (i \in DOMAIN backlog /\ backlog'[i] = backlog[i])
    BY <1>1 DEF IInv, TypeOK
  <2>3. \A i, j \in DOMAIN backlog' : backlog'[i] = backlog'[j] => i = j
    BY <1>1, <2>1 DEF IInv, TypeOK, BacklogOK
  <2>4. \A i \in DOMAIN backlog' :
          conn'[backlog'[i]].mem = "none" /\ sock'[backlog'[i]].stage = "open"
    <3> SUFFICES ASSUME NEW i \in DOMAIN backlog'
                 PROVE  conn'[backlog'[i]].mem = "none" /\ sock'[backlog'[i]].stage = "open"
      OBVIOUS
    <3>1. CASE backlog'[i] = c
      BY <1>1, <1>5, <2>1, <3>1
    <3>2. CASE i \in DOMAIN backlog /\ backlog'[i] = backlog[i]
      BY <1>1, <1>5, <3>2 DEF IInv, TypeOK, BacklogOK
    <3>3. QED
      BY <2>2, <3>1, <3>2
  <2>5. QED
    BY <1>1, <1>5, <2>1, <2>3, <2>4 DEF IInv, BacklogOK
<1>7. QED
  BY <1>3, <1>4, <1>m, <1>6 DEF IInv

(* Whatever a peer does leaves its socket one that is connected.           *)
LEMMA PeerChanges ==
  ASSUME NEW c \in Conn, sock[c] \in SockType,
         PeerSends(c) \/ PeerCloses(c) \/ PeerReads(c) \/ PeerAborts(c)
  PROVE  \E s : Peer(c, s) /\ s \in SockType /\ s.stage = sock[c].stage
<1>1. CASE PeerSends(c)
  BY <1>1 DEF PeerSends, SockType
<1>2. CASE PeerCloses(c)
  <2> DEFINE t == [sock[c] EXCEPT !.eof = TRUE]
  <2>1. t \in SockType /\ t.stage = sock[c].stage
    BY DEF SockType
  <2>2. Peer(c, t)
    BY <1>2 DEF PeerCloses
  <2>3. QED
    BY <2>1, <2>2
<1>3. CASE PeerReads(c)
  <2> DEFINE t == [sock[c] EXCEPT !.space = TRUE]
  <2>1. t \in SockType /\ t.stage = sock[c].stage
    BY DEF SockType
  <2>2. Peer(c, t)
    BY <1>3 DEF PeerReads
  <2>3. QED
    BY <2>1, <2>2
<1>4. CASE PeerAborts(c)
  <2>1. PICK left \in {0, sock[c].inbox} :
          Peer(c, [sock[c] EXCEPT !.reset = TRUE, !.inbox = left])
    BY <1>4 DEF PeerAborts
  <2> DEFINE t == [sock[c] EXCEPT !.reset = TRUE, !.inbox = left]
  <2>2. t \in SockType /\ t.stage = sock[c].stage
    <3>1. left \in 0 .. 1
      BY DEF SockType
    <3> DEFINE cut == [sock[c] EXCEPT !.reset = TRUE]
    <3>2. cut \in SockType /\ cut.stage = sock[c].stage
      BY DEF SockType
    <3>3. t = [cut EXCEPT !.inbox = left]
      BY DEF SockType
    <3> HIDE DEF cut
    <3>4. QED
      BY <3>1, <3>2, <3>3 DEF SockType
  <2>3. QED
    BY <2>1, <2>2
<1>5. QED
  BY <1>1, <1>2, <1>3, <1>4

LEMMA PeersStep ==
  ASSUME IInv, NEW c \in Conn,
         PeerSends(c) \/ PeerCloses(c) \/ PeerReads(c) \/ PeerAborts(c)
  PROVE  IInv'
<1>1. sock[c] \in SockType
  BY DEF IInv, TypeOK
<1>2. PICK s : Peer(c, s) /\ s \in SockType /\ s.stage = sock[c].stage
  BY <1>1, PeerChanges
<1>3. s.stage = "open"
  BY <1>2 DEF Peer
<1>4. QED
  BY <1>2, <1>3, PeerStep

(* getNextPool returns a loop.                                             *)
LEMMA NextPoolIsLoop ==
  ASSUME nextIndex \in Nat
  PROVE  NextPool \in Loop
<1>1. CASE Worker = <<>>
  BY <1>1, LoopFacts DEF NextPool
<1>2. CASE Worker # <<>>
  <2>1. Len(Worker) \in Nat \ {0} /\ DOMAIN Worker = 1 .. Len(Worker)
    BY <1>2, TcpServerAssumption
  <2>2. nextIndex % Len(Worker) \in 0 .. Len(Worker) - 1
    BY <2>1
  <2>3. (nextIndex % Len(Worker)) + 1 \in DOMAIN Worker
    BY <2>1, <2>2
  <2>4. QED
    BY <1>2, <2>3 DEF NextPool, Loop
<1>3. QED
  BY <1>1, <1>2

LEMMA AcceptStep ==
  ASSUME IInv, Accept
  PROVE  IInv'
<1> DEFINE c == Head(backlog)
           r == [NoConn EXCEPT !.mem = "live", !.registered = TRUE]
<1>1. /\ newConn' = c
      /\ backlog # <<>> /\ backlog' = Tail(backlog)
      /\ owner' = [owner EXCEPT ![c] = NextPool]
      /\ conn' = [conn EXCEPT ![c].mem = "live", ![c].registered = TRUE]
      /\ accepting' = "arm"
      /\ UNCHANGED <<sock, batch, misused>>
  BY DEF Accept
<1>2. /\ c \in Conn /\ c = backlog[1] /\ 1 \in DOMAIN backlog
      /\ backlog' \in Seq(Conn)
      /\ Len(backlog') = Len(backlog) - 1
      /\ DOMAIN backlog' = 1 .. Len(backlog')
      /\ \A i \in DOMAIN backlog' :
           i + 1 \in DOMAIN backlog /\ backlog'[i] = backlog[i + 1]
  BY <1>1 DEF IInv, TypeOK
<1>3. conn[c].mem = "none" /\ sock[c].stage = "open"
  BY <1>2 DEF IInv, BacklogOK
<1>4. conn[c] = NoConn
  BY <1>2, <1>3 DEF IInv, ConnsOK, ConnBase
<1>5. NextPool \in Loop
  BY NextPoolIsLoop DEF IInv, TypeOK
<1>6. /\ ConnBase(r, NextPool) /\ Armed(r)
      /\ r.mem = "live" /\ r.interest = {} /\ r.revents = {}
  <2>1. r \in ConnType
    <3>1. NoConn \in ConnType
      BY TcpServerAssumption DEF NoConn, ConnType
    <3>2. QED
      BY <3>1 DEF ConnType
  <2>2. /\ r.mem = "live" /\ r.interest = {} /\ r.revents = {}
        /\ r.registered /\ r.closeCalls = 0 /\ r.failed = "none"
        /\ r.data = Null /\ ~ r.isWillClose /\ r.output = 0
    BY DEF NoConn
  <2> HIDE DEF r
  <2>3. QED
    BY <1>5, <2>1, <2>2 DEF ConnBase, Armed
<1>7. conn' = [conn EXCEPT ![c] = r]
  BY <1>1, <1>2, <1>4 DEF IInv, TypeOK
<1> HIDE DEF c, r
<1>8. TypeOK'
  <2>1. conn' \in [Conn -> ConnType]
    BY <1>2, <1>6, <1>7 DEF IInv, TypeOK, ConnBase
  <2>2. owner' \in [Conn -> Loop \union {Null}] /\ newConn' \in Conn \union {Null}
    BY <1>1, <1>2, <1>5 DEF IInv, TypeOK
  <2>3. nextIndex' \in Nat
    BY DEF IInv, TypeOK, Accept
  <2>4. QED
    BY <1>1, <1>2, <2>1, <2>2, <2>3 DEF IInv, TypeOK
<1>9. /\ \A d \in Conn : conn'[d] = IF d = c THEN r ELSE conn[d]
      /\ \A d \in Conn : owner'[d] = IF d = c THEN NextPool ELSE owner[d]
  BY <1>1, <1>7 DEF IInv, TypeOK
<1>10. ConnsOK'
  BY <1>6, <1>9 DEF IInv, ConnsOK
<1>11. BatchesOK'
  <2> SUFFICES ASSUME NEW k \in Loop, NEW d \in batch'[k] \ {Listen}
               PROVE  conn'[d].mem = "live" /\ owner'[d] = k
    BY DEF BatchesOK
  <2>1. d \in Conn /\ conn[d].mem = "live" /\ owner[d] = k
    BY <1>1 DEF IInv, TypeOK, BatchesOK
  <2>2. QED
    BY <1>3, <1>9, <2>1
<1>12. BacklogOK'
  <2>1. ASSUME NEW i \in DOMAIN backlog'
        PROVE  backlog'[i] \in Conn /\ backlog'[i] # c
    <3>1. i \in Nat \ {0} /\ i + 1 # 1
      BY <1>2
    <3>2. QED
      BY <1>2, <3>1 DEF IInv, TypeOK, BacklogOK
  <2>2. \A i \in DOMAIN backlog' :
          conn'[backlog'[i]].mem = "none" /\ sock'[backlog'[i]].stage = "open"
    <3> SUFFICES ASSUME NEW i \in DOMAIN backlog'
                 PROVE  conn'[backlog'[i]].mem = "none" /\ sock'[backlog'[i]].stage = "open"
      OBVIOUS
    <3>1. conn[backlog'[i]].mem = "none" /\ sock[backlog'[i]].stage = "open"
      BY <1>2 DEF IInv, BacklogOK
    <3>2. QED
      BY <1>1, <1>9, <2>1, <3>1
  <2>3. \A i, j \in DOMAIN backlog' : backlog'[i] = backlog'[j] => i = j
    <3> SUFFICES ASSUME NEW i \in DOMAIN backlog', NEW j \in DOMAIN backlog',
                        backlog'[i] = backlog'[j]
                 PROVE  i = j
      OBVIOUS
    <3>1. i + 1 = j + 1
      BY <1>2 DEF IInv, BacklogOK
    <3>2. QED
      BY <1>2, <3>1
  <2>4. \A d \in Conn : sock'[d].stage # "open" => conn'[d].mem = "none"
    BY <1>1, <1>3, <1>9 DEF IInv, BacklogOK
  <2>5. QED
    BY <2>2, <2>3, <2>4 DEF BacklogOK
<1>13. AcceptOK'
  BY <1>1, <1>2, <1>6, <1>9 DEF AcceptOK
<1>14. ~ misused'
  BY <1>1 DEF IInv
<1>15. QED
  BY <1>8, <1>10, <1>11, <1>12, <1>13, <1>14 DEF IInv

LEMMA SetReadableStep ==
  ASSUME IInv, CarefulProgram, SetReadable
  PROVE  IInv'
<1> DEFINE c == newConn
           r == [conn[c] EXCEPT !.interest = @ \union {"in"}]
<1>1. /\ accepting = "arm"
      /\ conn' = [conn EXCEPT ![c] = r]
      /\ accepting' = (IF HasEsta THEN "established" ELSE "accept")
      /\ UNCHANGED <<sock, backlog, owner, nextIndex, batch, newConn, misused>>
  BY DEF SetReadable
<1>2. c \in Conn /\ conn[c].mem = "live"
  BY <1>1 DEF IInv, AcceptOK
<1>3. ConnBase(conn[c], owner[c]) /\ Armed(conn[c]) /\ conn \in [Conn -> ConnType]
  BY <1>2 DEF IInv, TypeOK, ConnsOK
<1>4. /\ r \in ConnType
      /\ r.mem = conn[c].mem /\ r.registered = conn[c].registered
      /\ r.data = conn[c].data /\ r.isWillClose = conn[c].isWillClose
      /\ r.output = conn[c].output /\ r.writeCallback = conn[c].writeCallback
      /\ r.closeCalls = conn[c].closeCalls /\ r.failed = conn[c].failed
      /\ r.interest = conn[c].interest \union {"in"}
  BY <1>2, <1>3 DEF ConnType
<1> HIDE DEF c, r
<1>5. ConnBase(r, owner[c]) /\ Armed(r) /\ r.mem = "live"
  BY <1>2, <1>3, <1>4 DEF ConnBase, Armed
<1>6. \A d \in Conn : conn'[d] = IF d = c THEN r ELSE conn[d]
  BY <1>1, <1>3
<1>7. TypeOK'
  <2>1. conn' \in [Conn -> ConnType]
    BY <1>1, <1>2, <1>3, <1>4
  <2>2. accepting' \in {"no", "accept", "arm", "established"}
    BY <1>1
  <2>3. QED
    BY <1>1, <2>1, <2>2 DEF IInv, TypeOK
<1>8. ConnsOK'
  BY <1>1, <1>5, <1>6 DEF IInv, ConnsOK
<1>9. BatchesOK'
  <2> SUFFICES ASSUME NEW k \in Loop, NEW d \in batch'[k] \ {Listen}
               PROVE  conn'[d].mem = "live" /\ owner'[d] = k
    BY DEF BatchesOK
  <2>1. d \in Conn /\ conn[d].mem = "live" /\ owner[d] = k
    BY <1>1 DEF IInv, TypeOK, BatchesOK
  <2>2. QED
    BY <1>1, <1>5, <1>6, <2>1
<1>10. BacklogOK'
  <2>1. \A d \in Conn : conn'[d].mem = conn[d].mem
    BY <1>2, <1>5, <1>6
  <2>2. \A i \in DOMAIN backlog : backlog[i] \in Conn
    BY DEF IInv, TypeOK
  <2>3. QED
    BY <1>1, <2>1, <2>2 DEF IInv, BacklogOK
<1>11. AcceptOK'
  BY <1>1, <1>2, <1>5, <1>6 DEF AcceptOK, CarefulProgram, c
<1>12. ~ misused'
  BY <1>1 DEF IInv
<1>13. QED
  BY <1>7, <1>8, <1>9, <1>10, <1>11, <1>12 DEF IInv

LEMMA EstablishedStep ==
  ASSUME IInv, Established
  PROVE  IInv'
<1>1. /\ accepting = "established" /\ accepting' = "accept"
      /\ UNCHANGED <<sock, backlog, conn, owner, nextIndex, batch, newConn>>
  BY DEF Established
<1>2. misused' = (misused \/ conn[newConn].mem = "freed")
  BY DEF Established
<1>3. ~ misused /\ conn[newConn].mem # "freed"
  BY <1>1 DEF IInv, AcceptOK
<1>4. ~ misused' /\ misused' \in BOOLEAN
  BY <1>2, <1>3, Zenon
<1>5. ConnsOK' /\ BatchesOK' /\ BacklogOK' /\ AcceptOK'
  BY <1>1 DEF IInv, ConnsOK, BatchesOK, BacklogOK, AcceptOK
<1>6. TypeOK'
  BY <1>1, <1>4 DEF IInv, TypeOK
<1>7. QED
  BY <1>4, <1>5, <1>6 DEF IInv

(* acceptCallback begins and returns.                                      *)
LEMMA ListenStep ==
  ASSUME IInv, HandleListen \/ AcceptFails
  PROVE  IInv'
<1>1. /\ accepting' \in {"accept", "no"}
      /\ UNCHANGED <<sock, backlog, conn, owner, nextIndex, newConn, misused>>
  BY DEF HandleListen, AcceptFails
<1>2. /\ batch' \in [Loop -> SUBSET (Conn \union {Listen})]
      /\ \A l \in Loop : batch'[l] \subseteq batch[l]
  BY DEF IInv, TypeOK, HandleListen, AcceptFails
<1>3. TypeOK'
  BY <1>1, <1>2 DEF IInv, TypeOK
<1>4. ConnsOK' /\ BacklogOK' /\ AcceptOK'
  BY <1>1 DEF IInv, ConnsOK, BacklogOK, AcceptOK
<1>5. BatchesOK'
  BY <1>1, <1>2 DEF IInv, BatchesOK
<1>6. ~ misused'
  BY <1>1 DEF IInv
<1>7. QED
  BY <1>3, <1>4, <1>5, <1>6 DEF IInv

(* What accept(2) does to the first connection of the backlog when it does *)
(* not become a TcpConnection.                                             *)
LEMMA Lost ==
  ASSUME IInv, AcceptZero \/ AcceptAborted
  PROVE  \E stage \in {"zero", "dropped"} :
           /\ backlog # <<>> /\ backlog' = Tail(backlog)
           /\ sock' = [sock EXCEPT ![Head(backlog)].stage = stage]
           /\ accepting' = "no"
           /\ UNCHANGED <<conn, owner, nextIndex, batch, newConn, misused>>
           /\ stage = "dropped" => sock[Head(backlog)].reset
           /\ stage = "zero" => ZeroFree /\ \A c \in Conn : sock[c].stage # "zero"
<1>1. CASE AcceptZero
  BY <1>1 DEF AcceptZero, AcceptLoses
<1>2. CASE AcceptAborted
  BY <1>2 DEF AcceptAborted, AcceptLoses
<1>3. QED
  BY <1>1, <1>2

(* It changes the stage of one connection that nothing else refers to.     *)
LEMMA LoseStep ==
  ASSUME IInv, AcceptZero \/ AcceptAborted
  PROVE  IInv'
<1> DEFINE c == Head(backlog)
<1>1. PICK stage \in {"zero", "dropped"} :
        /\ backlog # <<>> /\ backlog' = Tail(backlog)
        /\ sock' = [sock EXCEPT ![c].stage = stage]
        /\ accepting' = "no"
        /\ UNCHANGED <<conn, owner, nextIndex, batch, newConn, misused>>
  BY Lost
<1>2. /\ c \in Conn /\ c = backlog[1] /\ 1 \in DOMAIN backlog
      /\ backlog' \in Seq(Conn)
      /\ Len(backlog') = Len(backlog) - 1
      /\ DOMAIN backlog' = 1 .. Len(backlog')
      /\ \A i \in DOMAIN backlog' :
           i + 1 \in DOMAIN backlog /\ backlog'[i] = backlog[i + 1]
  BY <1>1 DEF IInv, TypeOK
<1>3. conn[c].mem = "none"
  BY <1>2 DEF IInv, BacklogOK
<1> HIDE DEF c
<1>4. /\ sock' \in [Conn -> SockType]
      /\ \A d \in Conn : d # c => sock'[d] = sock[d]
  <2>1. sock' \in [Conn -> SockType]
    BY <1>1, <1>2, StageKeepsType DEF IInv, TypeOK
  <2>2. QED
    BY <1>1, <2>1 DEF IInv, TypeOK
<1>5. TypeOK'
  BY <1>1, <1>2, <1>4 DEF IInv, TypeOK
<1>6. ConnsOK' /\ BatchesOK' /\ AcceptOK'
  BY <1>1 DEF IInv, ConnsOK, BatchesOK, AcceptOK
<1>7. BacklogOK'
  <2>1. ASSUME NEW i \in DOMAIN backlog'
        PROVE  backlog'[i] \in Conn /\ backlog'[i] # c
    <3>1. i \in Nat \ {0} /\ i + 1 # 1
      BY <1>2
    <3>2. QED
      BY <1>2, <3>1 DEF IInv, TypeOK, BacklogOK
  <2>2. ASSUME NEW i \in DOMAIN backlog'
        PROVE  conn'[backlog'[i]].mem = "none" /\ sock'[backlog'[i]].stage = "open"
    <3>1. conn[backlog'[i]].mem = "none" /\ sock[backlog'[i]].stage = "open"
      BY <1>2 DEF IInv, BacklogOK
    <3>2. QED
      BY <1>1, <1>4, <2>1, <3>1
  <2>3. \A i, j \in DOMAIN backlog' : backlog'[i] = backlog'[j] => i = j
    <3> SUFFICES ASSUME NEW i \in DOMAIN backlog', NEW j \in DOMAIN backlog',
                        backlog'[i] = backlog'[j]
                 PROVE  i = j
      OBVIOUS
    <3>1. i + 1 = j + 1
      BY <1>2 DEF IInv, BacklogOK
    <3>2. QED
      BY <1>2, <3>1
  <2>4. \A d \in Conn : sock'[d].stage # "open" => conn'[d].mem = "none"
    BY <1>1, <1>3, <1>4 DEF IInv, BacklogOK
  <2>5. QED
    BY <2>2, <2>3, <2>4 DEF BacklogOK
<1>8. ~ misused'
  BY <1>1 DEF IInv
<1>9. QED
  BY <1>5, <1>6, <1>7, <1>8 DEF IInv

LEMMA PollStep ==
  ASSUME IInv, NEW l \in Loop, Poll(l)
  PROVE  IInv'
<1>1. /\ batch' = [batch EXCEPT ![l] = Ready(l)]
      /\ conn' = [c \in Conn |->
                   IF c \in ReadyConns(l) THEN [conn[c] EXCEPT !.revents = Revents(c)]
                   ELSE conn[c]]
      /\ UNCHANGED <<sock, backlog, owner, nextIndex, accepting, newConn, misused>>
  BY DEF Poll
<1>2. conn \in [Conn -> ConnType]
  BY DEF IInv, TypeOK
<1>3. \A c \in Conn : Revents(c) \subseteq {"in", "out", "err"}
  BY DEF Revents
<1>4. ASSUME NEW c \in Conn
      PROVE  /\ conn'[c] \in ConnType
             /\ conn'[c].mem = conn[c].mem
             /\ conn'[c].registered = conn[c].registered
             /\ conn'[c].data = conn[c].data
             /\ conn'[c].interest = conn[c].interest
             /\ conn'[c].revents = conn[c].revents \/ conn'[c].revents = Revents(c)
             /\ conn'[c].writeCallback = conn[c].writeCallback
             /\ conn'[c].output = conn[c].output
             /\ conn'[c].isWillClose = conn[c].isWillClose
             /\ conn'[c].closeCalls = conn[c].closeCalls
             /\ conn'[c].failed = conn[c].failed
  <2>1. conn[c] \in ConnType
    BY <1>2
  <2> DEFINE r == [conn[c] EXCEPT !.revents = Revents(c)]
  <2>2. /\ r \in ConnType
        /\ r.mem = conn[c].mem /\ r.registered = conn[c].registered
        /\ r.data = conn[c].data /\ r.interest = conn[c].interest
        /\ r.revents = Revents(c) /\ r.writeCallback = conn[c].writeCallback
        /\ r.output = conn[c].output /\ r.isWillClose = conn[c].isWillClose
        /\ r.closeCalls = conn[c].closeCalls /\ r.failed = conn[c].failed
    BY <1>3, <2>1 DEF ConnType
  <2>3. conn'[c] = r \/ conn'[c] = conn[c]
    BY <1>1
  <2> HIDE DEF r
  <2>4. QED
    BY <2>1, <2>2, <2>3
<1>5. \A c \in Conn : conn[c].mem # "live" => conn'[c] = conn[c]
  <2> SUFFICES ASSUME NEW c \in Conn, conn[c].mem # "live"
               PROVE  conn'[c] = conn[c]
    OBVIOUS
  <2>1. ~ conn[c].registered
    BY <1>2 DEF IInv, ConnsOK, ConnBase, ConnType, NoConn
  <2>2. QED
    BY <1>1, <2>1 DEF ReadyConns
<1>6. TypeOK'
  <2>1. conn' \in [Conn -> ConnType]
    BY <1>1, <1>4
  <2>2. Ready(l) \subseteq Conn \union {Listen}
    BY DEF Ready, ReadyConns
  <2>3. batch' \in [Loop -> SUBSET (Conn \union {Listen})]
    BY <1>1, <2>2 DEF IInv, TypeOK
  <2>4. QED
    BY <1>1, <2>1, <2>3 DEF IInv, TypeOK
<1>7. ConnsOK'
  <2> SUFFICES ASSUME NEW c \in Conn
               PROVE  ConnBase(conn'[c], owner[c]) /\ Armed(conn'[c])
    BY <1>1 DEF ConnsOK
  <2>1. ConnBase(conn[c], owner[c]) /\ Armed(conn[c])
    BY DEF IInv, ConnsOK
  <2>2. conn'[c].mem = "none" => conn'[c] = NoConn
    BY <1>4, <1>5, <2>1 DEF ConnBase
  <2>3. QED
    BY <1>4, <2>1, <2>2 DEF ConnBase, Armed
<1>8. BatchesOK'
  <2> SUFFICES ASSUME NEW k \in Loop, NEW d \in batch'[k] \ {Listen}
               PROVE  conn'[d].mem = "live" /\ owner'[d] = k
    BY DEF BatchesOK
  <2>1. d \in Conn /\ conn[d].mem = "live" /\ owner[d] = k
    <3>1. CASE d \in batch[k]
      BY <3>1 DEF IInv, TypeOK, BatchesOK
    <3>2. CASE k = l /\ d \in ReadyConns(l)
      <4>1. d \in Conn /\ owner[d] = k /\ conn[d].registered
        BY <3>2 DEF ReadyConns
      <4>2. conn[d].mem = "live"
        BY <1>2, <4>1 DEF IInv, ConnsOK, ConnBase, ConnType, NoConn
      <4>3. QED
        BY <4>1, <4>2
    <3>3. QED
      BY <1>1, <3>1, <3>2 DEF IInv, TypeOK, Ready
  <2>2. QED
    BY <1>1, <1>4, <2>1
<1>9. BacklogOK'
  <2>1. \A i \in DOMAIN backlog : backlog[i] \in Conn
    BY DEF IInv, TypeOK
  <2>2. QED
    BY <1>1, <1>4, <2>1 DEF IInv, BacklogOK
<1>10. AcceptOK'
  <2>1. conn[newConn].interest = {} => Revents(newConn) \subseteq {"err"}
    BY DEF Revents
  <2>2. QED
    BY <1>1, <1>4, <2>1 DEF IInv, AcceptOK
<1>11. ~ misused'
  BY <1>1 DEF IInv
<1>12. QED
  BY <1>6, <1>7, <1>8, <1>9, <1>10, <1>11 DEF IInv

LEMMA TimedTaskStep ==
  ASSUME IInv, CarefulProgram, NEW c \in Conn, TimedTask(c)
  PROVE  IInv'
<1>1. PICK use \in TimerUses : conn' = [conn EXCEPT ![c] = UserCallback(conn[c], Main, use)]
  BY DEF TimedTask
<1> DEFINE r == UserCallback(conn[c], Main, use)
<1>2. /\ accepting = "no" /\ Worker = <<>>
      /\ conn[c].mem = "live" /\ conn[c].output < MaxOut
      /\ UNCHANGED <<sock, backlog, owner, nextIndex, batch, accepting, newConn, misused>>
  BY DEF TimedTask
<1>3. use \in {"none", "send"}
  BY DEF CarefulProgram
<1>4. ConnBase(conn[c], owner[c]) /\ Armed(conn[c]) /\ conn \in [Conn -> ConnType]
  BY DEF IInv, TypeOK, ConnsOK
<1>5. ConnBase(r, owner[c]) /\ Armed(r) /\ r.mem = "live"
  <2>1. CASE use = "none"
    BY <1>2, <1>4, <2>1 DEF UserCallback
  <2>2. CASE use = "send"
    BY <1>2, <1>4, <2>2, SendBytesKeeps DEF UserCallback
  <2>3. QED
    BY <1>3, <2>1, <2>2
<1> HIDE DEF r
<1>6. conn' = [conn EXCEPT ![c] = r]
  BY <1>1 DEF r
<1>7. \A d \in Conn : conn'[d] = IF d = c THEN r ELSE conn[d]
  BY <1>4, <1>6
<1>8. \A d \in Conn : conn'[d].mem = conn[d].mem
  BY <1>2, <1>5, <1>7
<1>9. TypeOK'
  <2>1. conn' \in [Conn -> ConnType]
    BY <1>4, <1>5, <1>6 DEF ConnBase
  <2>2. QED
    BY <1>2, <2>1 DEF IInv, TypeOK
<1>10. ConnsOK'
  BY <1>2, <1>5, <1>7 DEF IInv, ConnsOK
<1>11. BatchesOK'
  BY <1>2, <1>8 DEF IInv, TypeOK, BatchesOK
<1>12. BacklogOK'
  <2>1. \A i \in DOMAIN backlog : backlog[i] \in Conn
    BY DEF IInv, TypeOK
  <2>2. QED
    BY <1>2, <1>8, <2>1 DEF IInv, BacklogOK
<1>13. AcceptOK' /\ ~ misused'
  BY <1>2 DEF IInv, AcceptOK
<1>14. QED
  BY <1>9, <1>10, <1>11, <1>12, <1>13 DEF IInv

-----------------------------------------------------------------------------
(* IInv is an invariant of careful programs, whatever peers do.            *)
THEOREM InvInductive ==
  ASSUME CarefulProgram, IInv, [Next]_vars
  PROVE  IInv'
<1>1. CASE Next
  <2>1. ASSUME NEW c \in Conn, PeerConnects(c)
        PROVE  IInv'
    BY <2>1, PeerConnectsStep
  <2>2. ASSUME NEW c \in Conn,
               PeerSends(c) \/ PeerCloses(c) \/ PeerReads(c) \/ PeerAborts(c)
        PROVE  IInv'
    BY <2>2, PeersStep
  <2>3. ASSUME NEW c \in Conn, TimedTask(c)
        PROVE  IInv'
    BY <2>3, TimedTaskStep
  <2>4. ASSUME NEW l \in Loop, LoopStep(l)
        PROVE  IInv'
    BY <2>4, PollStep, HandleCloseStep, HandleMessageStep, HandleWriteStep,
       HandleNothingStep DEF LoopStep, Handle
  <2>5. CASE MainStep
    BY <2>5, AcceptStep, LoseStep, SetReadableStep, EstablishedStep, ListenStep
       DEF MainStep, Accepts
  <2>6. QED
    BY <1>1, <2>1, <2>2, <2>3, <2>4, <2>5 DEF Next
<1>2. CASE UNCHANGED vars
  BY <1>2 DEF vars, IInv, TypeOK, ConnsOK, BatchesOK, BacklogOK, AcceptOK
<1>3. QED
  BY <1>1, <1>2

THEOREM InvAlways ==
  ASSUME CarefulProgram
  PROVE  Spec => []IInv
<1>1. Init => IInv
  BY InvInitially
<1>2. IInv /\ [Next]_vars => IInv'
  BY InvInductive
<1>3. QED
  BY <1>1, <1>2, PTL DEF Spec

(* Every field of the server, its pool and its connections keeps the type  *)
(* the code declares; the user hears of the end of a connection once.      *)
THEOREM TypeCorrect ==
  ASSUME CarefulProgram
  PROVE  Spec => []TypeOK
<1>1. IInv => TypeOK
  BY DEF IInv
<1>2. QED
  BY <1>1, InvAlways, PTL

(* No loop of any pool touches or keeps a connection that was deleted: the *)
(* raw pointers of Epoller.h:29 and EventLoop.h:28 are used while they     *)
(* live.                                                                   *)
THEOREM MemoryCorrect ==
  ASSUME CarefulProgram
  PROVE  Spec => []NoUseAfterFree
<1>1. IInv => NoUseAfterFree
  BY DEF IInv, BatchesOK, NoUseAfterFree
<1>2. QED
  BY <1>1, InvAlways, PTL

(* No output of TcpConnection is ever left without the EPOLLOUT interest   *)
(* and the callback that write it.                                         *)
THEOREM OutputCorrect ==
  ASSUME CarefulProgram
  PROVE  Spec => []OutputIsArmed
<1>1. IInv => OutputIsArmed
  BY DEF IInv, ConnsOK, Armed, OutputIsArmed
<1>2. QED
  BY <1>1, InvAlways, PTL

(* closeConnection never drops output and always tells the user.           *)
THEOREM CloseCorrect ==
  ASSUME CarefulProgram
  PROVE  Spec => []DeletedAfterOutput
<1>1. IInv => DeletedAfterOutput
  BY DEF IInv, ConnsOK, ConnBase, DeletedAfterOutput
<1>2. QED
  BY <1>1, InvAlways, PTL

(* The asserts of TcpServer.h:196 and TcpConnection.cpp on the closing     *)
(* thread and on empty output never fail.                                  *)
THEOREM ThreadCorrect ==
  ASSUME CarefulProgram
  PROVE  Spec => []ClosedByItsThread
<1>1. IInv => ClosedByItsThread
  BY DEF IInv, ConnsOK, ConnBase, ClosedByItsThread
<1>2. QED
  BY <1>1, InvAlways, PTL

-----------------------------------------------------------------------------
(* What IsAccepted and EofIsClosed rest on.                                *)

(* A connection that a loop has handled is not one that was never made.    *)
LEMMA HandledIsMade ==
  ASSUME IInv, NEW l \in Loop, NEW c \in Conn, Handle(l, c)
  PROVE  conn'[c].mem # "none"
<1> USE Taken
<1>1. Takes(l, c)
  BY DEF Handle, HandleClose, HandleMessage, HandleWrite, HandleNothing
<1>2. ConnBase(conn[c], l) /\ conn[c].mem = "live" /\ conn \in [Conn -> ConnType]
      /\ Armed(conn[c])
  BY <1>1
<1>3. ConnBase(Serve(conn[c], l), l) /\ Serve(conn[c], l).mem = "live"
  BY <1>2, ServeKeeps
<1>4. CASE HandleClose(l, c)
  BY <1>2, <1>3, <1>4, NeverNone DEF HandleClose
<1>5. CASE HandleMessage(l, c)
  BY <1>2, <1>3, <1>5, NeverNone, TcpServerAssumption DEF HandleMessage, Use
<1>6. CASE HandleWrite(l, c)
  <2>1. PICK n \in 1 .. conn[c].output \union {-1} :
          conn' = [conn EXCEPT ![c] = SendNonblock(conn[c], l, n)]
    BY <1>6 DEF HandleWrite
  <2>2. n \in Int
    BY <1>2, <2>1 DEF ConnType
  <2>3. QED
    BY <1>2, <2>1, <2>2, NeverNone
<1>7. CASE HandleNothing(l, c)
  BY <1>2, <1>7 DEF HandleNothing
<1>8. QED
  BY <1>4, <1>5, <1>6, <1>7 DEF Handle

(* A connection without TcpConnection waits for accept(2), unless it was   *)
(* found reset by its peer, or was given descriptor 0, which happens to    *)
(* one connection at most and only in a program that closed it             *)
(* (TcpServer.h:168-172).                                                  *)
Waits(c) ==
  \/ \E i \in DOMAIN backlog : backlog[i] = c
  \/ sock[c].stage = "dropped" /\ sock[c].reset
  \/ /\ sock[c].stage = "zero" /\ ZeroFree
     /\ \A d \in Conn \ {c} : sock[d].stage # "zero"

InBacklog ==
  \A c \in Conn : sock[c].stage # "none" /\ conn[c].mem = "none" => Waits(c)

(* For any number of peers, and whatever errors accept(2) returns, none is *)
(* lost between connect(2) and its TcpConnection but those.                *)
THEOREM NoneIsForgotten ==
  ASSUME CarefulProgram
  PROVE  Spec => []InBacklog
<1>1. Init => InBacklog
  BY DEF Init, InBacklog, NoSock
<1>2. IInv /\ IInv' /\ InBacklog /\ [Next]_vars => InBacklog'
  <2> SUFFICES ASSUME IInv, IInv', InBacklog, [Next]_vars,
                      NEW d \in Conn, sock'[d].stage # "none", conn'[d].mem = "none"
               PROVE  Waits(d)'
    BY DEF InBacklog
  <2> DEFINE Same == /\ backlog' = backlog
                     /\ \A c \in Conn : sock'[c].stage = sock[c].stage
                     /\ sock[d].stage = "open" \/ sock'[d] = sock[d]
                     /\ conn[d].mem = "none"
  <2>1. /\ sock \in [Conn -> SockType] /\ conn \in [Conn -> ConnType]
        /\ backlog \in Seq(Conn) /\ ConnBase(conn[d], owner[d])
    BY DEF IInv, TypeOK, ConnsOK
  <2>2. ASSUME NEW c \in Conn, PeerConnects(c)
        PROVE  Waits(d)'
    <3>1. /\ backlog' = Append(backlog, c) /\ conn' = conn
          /\ sock' = [sock EXCEPT ![c].stage = "open"]
      BY <2>2 DEF PeerConnects
    <3>2. CASE d = c
      <4>1. Len(backlog) + 1 \in DOMAIN backlog' /\ backlog'[Len(backlog) + 1] = c
        BY <2>1, <3>1
      <4>2. QED
        BY <3>2, <4>1 DEF Waits
    <3>3. CASE d # c
      <4>1. Waits(d) /\ sock'[d] = sock[d]
        BY <2>1, <3>1, <3>3 DEF InBacklog
      <4>2. ASSUME NEW i \in DOMAIN backlog
            PROVE  i \in DOMAIN backlog' /\ backlog'[i] = backlog[i]
        BY <2>1, <3>1
      <4>3. \A e \in Conn : sock[e].stage # "zero" => sock'[e].stage # "zero"
        BY <2>1, <3>1 DEF SockType
      <4>4. QED
        BY <4>1, <4>2, <4>3 DEF Waits
    <3>4. QED
      BY <3>2, <3>3
  (* The backlog loses its first connection: the others move up.           *)
  <2>t. ASSUME backlog # <<>>, backlog' = Tail(backlog), d # Head(backlog),
               NEW i \in DOMAIN backlog, backlog[i] = d
        PROVE  i - 1 \in DOMAIN backlog' /\ backlog'[i - 1] = d
    <3>1. Head(backlog) = backlog[1] /\ i # 1
      BY <2>1, <2>t
    <3>2. QED
      BY <2>1, <2>t, <3>1
  <2>3. CASE Accept
    <3>1. /\ backlog # <<>> /\ backlog' = Tail(backlog) /\ newConn' = Head(backlog)
          /\ conn' = [conn EXCEPT ![newConn'].mem = "live", ![newConn'].registered = TRUE]
          /\ sock' = sock
      BY <2>3 DEF Accept
    <3>2. Head(backlog) \in Conn
      BY <2>1, <3>1
    <3>3. conn'[Head(backlog)].mem = "live"
      BY <2>1, <3>1, <3>2 DEF ConnType
    <3>4. d # Head(backlog)
      BY <3>3
    <3>5. conn[d].mem = "none"
      BY <2>1, <3>1, <3>2, <3>4
    <3>6. Waits(d)
      BY <3>1, <3>5 DEF InBacklog
    <3>7. QED
      BY <2>t, <3>1, <3>4, <3>6 DEF Waits
  <2>z. CASE AcceptZero \/ AcceptAborted
    <3> DEFINE c == Head(backlog)
    <3>1. PICK stage \in {"zero", "dropped"} :
            /\ backlog # <<>> /\ backlog' = Tail(backlog)
            /\ sock' = [sock EXCEPT ![c].stage = stage]
            /\ conn' = conn
            /\ stage = "dropped" => sock[c].reset
            /\ stage = "zero" => ZeroFree /\ \A e \in Conn : sock[e].stage # "zero"
      BY <2>z, Lost
    <3>2. c \in Conn
      BY <2>1, <3>1
    <3> HIDE DEF c
    <3>3. /\ sock'[c].stage = stage /\ sock'[c].reset = sock[c].reset
          /\ \A e \in Conn : e # c => sock'[e] = sock[e]
      BY <2>1, <3>1, <3>2 DEF SockType
    <3>4. CASE d = c
      BY <3>1, <3>3, <3>4 DEF Waits
    <3>5. CASE d # c
      <4>1. Waits(d) /\ sock'[d] = sock[d]
        BY <3>1, <3>3, <3>5 DEF InBacklog
      <4>2. CASE \E i \in DOMAIN backlog : backlog[i] = d
        BY <2>t, <3>1, <3>5, <4>2 DEF Waits, c
      <4>3. CASE sock[d].stage = "dropped" /\ sock[d].reset
        BY <4>1, <4>3 DEF Waits
      <4>4. CASE sock[d].stage = "zero" /\ ZeroFree /\ \A e \in Conn \ {d} : sock[e].stage # "zero"
        <5>1. stage # "zero"
          BY <3>1, <4>4
        <5>2. \A e \in Conn \ {d} : sock'[e].stage # "zero"
          BY <3>3, <4>4, <5>1
        <5>3. QED
          BY <4>1, <4>4, <5>2 DEF Waits
      <4>5. QED
        BY <4>1, <4>2, <4>3, <4>4 DEF Waits
    <3>6. QED
      BY <3>4, <3>5
  <2>4. ASSUME NEW c \in Conn,
               PeerSends(c) \/ PeerCloses(c) \/ PeerReads(c) \/ PeerAborts(c)
        PROVE  Same
    <3>1. sock[c] \in SockType
      BY <2>1
    <3>2. PICK s : Peer(c, s) /\ s.stage = sock[c].stage
      BY <2>4, <3>1, PeerChanges
    <3>3. sock' = [sock EXCEPT ![c] = s] /\ sock[c].stage = "open" /\ UNCHANGED <<backlog, conn>>
      BY <3>2 DEF Peer
    <3>4. QED
      BY <2>1, <3>2, <3>3
  (* A connection that has a state after a step of its own had one before. *)
  <2>5. ASSUME NEW c \in Conn, TimedTask(c)
        PROVE  Same
    <3>1. conn[c].mem = "live" /\ UNCHANGED <<sock, backlog>>
      BY <2>5 DEF TimedTask
    <3>2. PICK use \in TimerUses : conn' = [conn EXCEPT ![c] = UserCallback(conn[c], Main, use)]
      BY <2>5 DEF TimedTask
    <3>3. UserCallback(conn[c], Main, use).mem # "none"
      BY <2>1, <3>1, LoopFacts, NeverNone, TcpServerAssumption DEF IInv, ConnsOK
    <3>4. QED
      BY <2>1, <3>1, <3>2, <3>3
  <2>6. ASSUME NEW l \in Loop, NEW c \in Conn, Handle(l, c)
        PROVE  Same
    <3>1. Takes(l, c) /\ backlog' = backlog
      BY <2>6 DEF Handle, HandleClose, HandleMessage, HandleWrite, HandleNothing, Takes
    <3>2. conn[c].mem = "live"
      BY <3>1, Taken
    <3>3. /\ \A e \in Conn : sock'[e].stage = sock[e].stage
          /\ \A e \in Conn : e # c => sock'[e] = sock[e]
      BY <2>1, <2>6 DEF Handle, HandleClose, HandleMessage, HandleWrite, HandleNothing, SockType
    <3>4. \A e \in Conn : e # c => conn'[e] = conn[e]
      BY <2>1, <2>6 DEF Handle, HandleClose, HandleMessage, HandleWrite, HandleNothing
    <3>5. conn'[c].mem # "none"
      BY <2>6, <3>2, HandledIsMade
    <3>6. QED
      BY <3>1, <3>3, <3>4, <3>5
  <2>7. ASSUME \/ \E l \in Loop : Poll(l)
               \/ SetReadable \/ Established \/ AcceptFails \/ HandleListen
               \/ UNCHANGED vars
        PROVE  Same
    <3>1. UNCHANGED <<backlog, sock>>
      BY <2>7 DEF Poll, SetReadable, Established, AcceptFails, HandleListen, vars
    <3>2. conn[d].mem = conn'[d].mem
      <4>1. CASE \E l \in Loop : Poll(l)
        BY <2>1, <4>1 DEF Poll, ConnType
      <4>2. CASE SetReadable
        BY <2>1, <4>2 DEF SetReadable, ConnType
      <4>3. CASE Established \/ AcceptFails \/ HandleListen \/ UNCHANGED vars
        BY <4>3 DEF Established, AcceptFails, HandleListen, vars
      <4>4. QED
        BY <2>7, <4>1, <4>2, <4>3
    <3>3. QED
      BY <3>1, <3>2
  <2>8. ASSUME Same PROVE Waits(d)'
    <3>1. Waits(d)
      BY <2>8 DEF InBacklog
    <3>2. QED
      BY <2>8, <3>1 DEF Waits
  <2> HIDE DEF Same
  <2>9. QED
    BY <2>2, <2>3, <2>z, <2>4, <2>5, <2>6, <2>7, <2>8 DEF Next, LoopStep, MainStep, Accepts
<1>3. QED
  BY <1>1, <1>2, InvAlways, PTL DEF Spec

(* The end of a connection that lives is never missed: its event is ready  *)
(* for the loop that owns it, or it was closed already and waits for a     *)
(* peer that does not read its output (TcpServer.h:198), or acceptCallback *)
(* is about to make it readable.  A timed send after the close would break *)
(* this, because send() clears isWillClose_ (TcpConnection.cpp:41).        *)
EndIsHeard ==
  \A c \in Conn : conn[c].mem = "live" /\ (sock[c].eof \/ sock[c].reset) =>
    \/ c \in ReadyConns(owner[c])
    \/ conn[c].isWillClose /\ conn[c].output > 0 /\ ~ sock[c].space
    \/ accepting = "arm" /\ newConn = c

(* A live connection listens to its peer or has its close before it.       *)
Attentive(r) ==
  r.mem = "live" => "in" \in r.interest \/ (r.isWillClose /\ r.output > 0)

(* What was reported readable in a batch is still listened to.             *)
EndInv ==
  /\ \A c \in Conn : Attentive(conn[c]) \/ (accepting = "arm" /\ newConn = c)
  /\ \A l \in Loop : \A c \in batch[l] \ {Listen} :
       "in" \in conn[c].revents => "in" \in conn[c].interest

(* closeConnection leaves a connection that will be closed or is.          *)
LEMMA CloseAttends ==
  ASSUME NEW r \in ConnType, NEW l \in Loop, r.data = l
  PROVE  Attentive(CloseConnection(r, l))
<1> DEFINE deaf == [r EXCEPT !.interest = @ \ {"in"}]
<1>1. CASE r.output > 0
  <2>1. deaf \in ConnType /\ deaf.output > 0
    BY <1>1 DEF ConnType
  <2>2. CloseConnection(r, l) = Send(deaf, TRUE)
    BY <1>1 DEF CloseConnection
  <2> HIDE DEF deaf
  <2>3. Send(deaf, TRUE).isWillClose /\ Send(deaf, TRUE).output > 0
    BY <2>1 DEF Send, ConnType
  <2>4. QED
    BY <2>2, <2>3 DEF Attentive
<1>2. CASE ~ (r.output > 0)
  <2>1. CloseConnection(r, l).mem = "freed"
    BY <1>2 DEF CloseConnection, Destroy, ConnType
  <2>2. QED
    BY <2>1 DEF Attentive
<1>3. QED
  BY <1>1, <1>2

(* So does any callback of the user on a connection that was readable.     *)
LEMMA UserCallbackAttends ==
  ASSUME NEW r, NEW l \in Loop, NEW use \in Use,
         ConnBase(r, l), r.mem = "live", r.data = l, "in" \in r.interest,
         use \in {"send", "reply"} => r.output < MaxOut
  PROVE  Attentive(UserCallback(r, l, use))
<1>1. r \in ConnType
  BY DEF ConnBase
<1>2. CASE use = "none"
  BY <1>2 DEF UserCallback, Attentive
<1>3. CASE use = "send"
  <2>1. "in" \in SendBytes(r).interest
    BY <1>1 DEF SendBytes, Send, ConnType
  <2>2. QED
    BY <1>3, <2>1 DEF UserCallback, Attentive
<1>4. CASE use = "close"
  BY <1>1, <1>4, CloseAttends DEF UserCallback
<1>5. CASE use = "reply"
  <2>1. SendBytes(r) \in ConnType /\ SendBytes(r).data = l
    BY <1>5, SendBytesKeeps DEF ConnBase
  <2>2. QED
    BY <1>5, <2>1, CloseAttends DEF UserCallback
<1>6. QED
  BY <1>2, <1>3, <1>4, <1>5 DEF Use

(* sendNonblock closes what was to be closed when the output is written.   *)
LEMMA SendNonblockAttends ==
  ASSUME NEW r, NEW l \in Loop, NEW n \in 1 .. r.output \union {-1},
         ConnBase(r, l), r.mem = "live", Attentive(r)
  PROVE  Attentive(SendNonblock(r, l, n))
<1> DEFINE rest  == [r EXCEPT !.output = @ - n]
           quiet == [rest EXCEPT !.interest = @ \ {"out"}]
<1>1. r \in ConnType /\ r.output \in 0 .. MaxOut /\ (r.isWillClose => r.data = l)
  BY DEF ConnBase, ConnType
<1>2. CASE n = -1
  BY <1>1, <1>2 DEF SendNonblock, Attentive, ConnType
<1>3. CASE n # -1
  <2>1. n \in 1 .. r.output
    BY <1>3
  <2>2. /\ rest \in ConnType /\ rest.mem = "live" /\ rest.data = r.data
        /\ rest.interest = r.interest /\ rest.isWillClose = r.isWillClose
    BY <1>1, <2>1, TcpServerAssumption DEF ConnType
  <2> HIDE DEF rest
  <2>3. CASE rest.output > 0
    <3>1. SendNonblock(r, l, n) = rest
      BY <1>3, <2>3 DEF SendNonblock, rest
    <3>2. QED
      BY <2>2, <2>3, <3>1 DEF Attentive
  <2>4. CASE ~ (rest.output > 0)
    <3>1. /\ quiet \in ConnType /\ quiet.data = rest.data
          /\ quiet.isWillClose = rest.isWillClose
          /\ "in" \in rest.interest => "in" \in quiet.interest
      BY <2>2 DEF ConnType
    <3>2. SendNonblock(r, l, n) =
            IF quiet.isWillClose THEN CloseConnection(quiet, l) ELSE quiet
      BY <1>3, <2>4 DEF SendNonblock, rest
    <3> HIDE DEF quiet
    <3>3. CASE quiet.isWillClose
      BY <1>1, <2>2, <3>1, <3>2, <3>3, CloseAttends
    <3>4. CASE ~ quiet.isWillClose
      BY <2>2, <3>1, <3>2, <3>4 DEF Attentive
    <3>5. QED
      BY <3>3, <3>4
  <2>5. QED
    BY <2>3, <2>4
<1>4. QED
  BY <1>2, <1>3

(* Handling an event leaves an attentive connection behind.                *)
LEMMA HandleAttends ==
  ASSUME IInv, EndInv, NEW l \in Loop, NEW c \in Conn, Handle(l, c)
  PROVE  EndInv'
<1>1. Takes(l, c)
  BY DEF Handle, HandleClose, HandleMessage, HandleWrite, HandleNothing
<1>2. /\ ConnBase(conn[c], l) /\ conn[c].mem = "live" /\ Armed(conn[c])
      /\ accepting = "arm" /\ newConn = c => conn[c].revents \subseteq {"err"}
      /\ conn \in [Conn -> ConnType]
  BY <1>1, Taken
<1>3. /\ batch' = [batch EXCEPT ![l] = @ \ {c}] /\ c \in batch[l]
      /\ UNCHANGED <<accepting, newConn>>
  BY <1>1 DEF Takes
<1>4. c # Listen /\ conn[c] \in ConnType /\ batch \in [Loop -> SUBSET (Conn \union {Listen})]
  BY <1>2, TcpServerAssumption DEF IInv, TypeOK
<1>5. "in" \in conn[c].revents => "in" \in conn[c].interest
  BY <1>3, <1>4 DEF EndInv
<1> DEFINE s == Serve(conn[c], l)
<1>6. ConnBase(s, l) /\ s.mem = "live" /\ s.data = l /\ s.output = conn[c].output
      /\ s.interest = conn[c].interest /\ s \in ConnType
  <2>1. s.interest = conn[c].interest
    BY <1>4 DEF Serve, ConnType
  <2>2. QED
    BY <1>2, <2>1, ServeKeeps DEF ConnBase
<1>7. Attentive(conn[c]) \/ (accepting = "arm" /\ newConn = c)
  BY DEF EndInv
<1> HIDE DEF s
<1>8. Attentive(conn'[c]) \/ (accepting = "arm" /\ newConn = c)
  <2>1. CASE HandleClose(l, c)
    <3>1. conn'[c] = CloseConnection(s, l)
      BY <1>2, <2>1 DEF HandleClose, s
    <3>2. QED
      BY <1>6, <3>1, CloseAttends
  <2>2. CASE HandleMessage(l, c)
    <3>1. PICK use \in MsgUses \union {"none"} :
            /\ use \in {"send", "reply"} => conn[c].output < MaxOut
            /\ conn' = [conn EXCEPT ![c] = UserCallback(s, l, use)]
      BY <2>2 DEF HandleMessage, s
    <3>2. use \in Use /\ "in" \in s.interest
      BY <1>5, <1>6, <2>2, TcpServerAssumption DEF HandleMessage, Use
    <3>3. Attentive(UserCallback(s, l, use))
      BY <1>6, <3>1, <3>2, UserCallbackAttends
    <3>4. QED
      BY <1>2, <3>1, <3>3
  <2>3. CASE HandleWrite(l, c)
    <3>1. PICK n \in 1 .. conn[c].output \union {-1} :
            conn' = [conn EXCEPT ![c] = SendNonblock(conn[c], l, n)]
      BY <2>3 DEF HandleWrite
    <3>2. "out" \in conn[c].revents
      BY <2>3 DEF HandleWrite
    <3>3. Attentive(conn[c])
      BY <1>2, <1>7, <3>2
    <3>4. Attentive(SendNonblock(conn[c], l, n))
      BY <1>2, <3>3, SendNonblockAttends
    <3>5. QED
      BY <1>2, <3>1, <3>4
  <2>4. CASE HandleNothing(l, c)
    BY <1>7, <2>4 DEF HandleNothing
  <2>5. QED
    BY <2>1, <2>2, <2>3, <2>4 DEF Handle
<1>9. \A d \in Conn : d # c => conn'[d] = conn[d]
  BY <1>2 DEF Handle, HandleClose, HandleMessage, HandleWrite, HandleNothing
<1>10. \A d \in Conn : Attentive(conn'[d]) \/ (accepting' = "arm" /\ newConn' = d)
  BY <1>3, <1>8, <1>9 DEF EndInv
<1>11. ASSUME NEW k \in Loop, NEW d \in batch'[k] \ {Listen}, "in" \in conn'[d].revents
       PROVE  "in" \in conn'[d].interest
  <2>1. d \in batch[k] /\ d \in Conn
    BY <1>3, <1>4
  <2>2. owner[c] = l /\ owner[d] = k
    BY <1>3, <1>4, <2>1 DEF IInv, BatchesOK
  <2>3. d # c
    BY <1>3, <1>4, <2>2
  <2>4. QED
    BY <1>9, <1>11, <2>1, <2>3 DEF EndInv
<1>12. QED
  BY <1>10, <1>11 DEF EndInv

LEMMA PollAttends ==
  ASSUME IInv, EndInv, NEW l \in Loop, Poll(l)
  PROVE  EndInv'
<1>1. /\ batch' = [batch EXCEPT ![l] = Ready(l)]
      /\ conn' = [c \in Conn |->
                   IF c \in ReadyConns(l) THEN [conn[c] EXCEPT !.revents = Revents(c)]
                   ELSE conn[c]]
      /\ UNCHANGED <<accepting, newConn>>
  BY DEF Poll
<1>2. conn \in [Conn -> ConnType] /\ batch \in [Loop -> SUBSET (Conn \union {Listen})]
  BY DEF IInv, TypeOK
<1>3. ASSUME NEW c \in Conn
      PROVE  /\ Attentive(conn'[c]) <=> Attentive(conn[c])
             /\ conn'[c].interest = conn[c].interest
             /\ c \in ReadyConns(l) => conn'[c].revents = Revents(c)
             /\ c \notin ReadyConns(l) => conn'[c] = conn[c]
  <2> DEFINE r == [conn[c] EXCEPT !.revents = Revents(c)]
  <2>1. conn[c] \in ConnType
    BY <1>2
  <2>2. /\ r.mem = conn[c].mem /\ r.interest = conn[c].interest
        /\ r.isWillClose = conn[c].isWillClose /\ r.output = conn[c].output
        /\ r.revents = Revents(c)
    BY <2>1 DEF ConnType
  <2>3. conn'[c] = IF c \in ReadyConns(l) THEN r ELSE conn[c]
    BY <1>1
  <2> HIDE DEF r
  <2>4. QED
    BY <2>2, <2>3 DEF Attentive
<1>4. \A c \in Conn : Attentive(conn'[c]) \/ (accepting' = "arm" /\ newConn' = c)
  BY <1>1, <1>3 DEF EndInv
<1>5. ASSUME NEW k \in Loop, NEW d \in batch'[k] \ {Listen}, "in" \in conn'[d].revents
      PROVE  "in" \in conn'[d].interest
  <2>1. CASE k = l
    <3>1. d \in ReadyConns(l) /\ d \in Conn
      BY <1>1, <1>2, <2>1 DEF Ready, ReadyConns
    <3>2. "in" \in Revents(d)
      BY <1>3, <1>5, <3>1
    <3>3. "in" \in conn[d].interest
      BY <3>2 DEF Revents
    <3>4. QED
      BY <1>3, <3>1, <3>3
  <2>2. CASE k # l
    <3>1. d \in batch[k] \ {Listen} /\ d \in Conn
      BY <1>1, <1>2, <2>2
    <3>2. owner[d] = k
      BY <3>1 DEF IInv, BatchesOK
    <3>3. d \notin ReadyConns(l)
      BY <2>2, <3>2 DEF ReadyConns
    <3>4. QED
      BY <1>3, <1>5, <3>1, <3>3 DEF EndInv
  <2>3. QED
    BY <2>1, <2>2
<1>6. QED
  BY <1>4, <1>5 DEF EndInv

(* acceptCallback: a new connection is exempt until it is readable.        *)
LEMMA AcceptAttends ==
  ASSUME IInv, EndInv, MainStep
  PROVE  EndInv'
<1>1. conn \in [Conn -> ConnType] /\ batch \in [Loop -> SUBSET (Conn \union {Listen})]
      /\ backlog \in Seq(Conn)
  BY DEF IInv, TypeOK
<1>2. CASE Accept
  <2> DEFINE c == Head(backlog)
  <2>1. /\ accepting = "accept" /\ accepting' = "arm" /\ newConn' = c /\ batch' = batch
        /\ conn' = [conn EXCEPT ![c].mem = "live", ![c].registered = TRUE]
        /\ backlog # <<>>
    BY <1>2 DEF Accept
  <2>2. c \in Conn
    BY <1>1, <2>1
  <2> HIDE DEF c
  <2>3. \A d \in Conn : d # c => conn'[d] = conn[d]
    BY <1>1, <2>1
  <2>4. conn'[c].revents = conn[c].revents /\ conn'[c].interest = conn[c].interest
    BY <1>1, <2>1, <2>2 DEF ConnType
  <2>5. \A d \in Conn : Attentive(conn'[d]) \/ (accepting' = "arm" /\ newConn' = d)
    BY <2>1, <2>3 DEF EndInv
  <2>6. ASSUME NEW k \in Loop, NEW d \in batch[k] \ {Listen}
        PROVE  "in" \in conn'[d].revents => "in" \in conn'[d].interest
    <3>1. d \in Conn
      BY <1>1
    <3>2. QED
      BY <2>3, <2>4, <2>6, <3>1 DEF EndInv
  <2>7. QED
    BY <2>1, <2>5, <2>6 DEF EndInv
<1>3. CASE SetReadable
  <2> DEFINE r == [conn[newConn] EXCEPT !.interest = @ \union {"in"}]
  <2>1. /\ accepting = "arm" /\ conn' = [conn EXCEPT ![newConn] = r]
        /\ UNCHANGED <<batch, newConn>>
    BY <1>3 DEF SetReadable
  <2>2. newConn \in Conn /\ conn[newConn] \in ConnType
    BY <1>1, <2>1 DEF IInv, AcceptOK
  <2>3. "in" \in r.interest
    BY <2>2 DEF ConnType
  <2>4. \A d \in Conn : conn'[d] = IF d = newConn THEN r ELSE conn[d]
    BY <1>1, <2>1
  <2> HIDE DEF r
  <2>5. \A d \in Conn : Attentive(conn'[d])
    BY <2>3, <2>4 DEF EndInv, Attentive
  <2>6. ASSUME NEW k \in Loop, NEW d \in batch[k] \ {Listen}
        PROVE  "in" \in conn'[d].revents => "in" \in conn'[d].interest
    <3>1. d \in Conn
      BY <1>1
    <3>2. QED
      BY <2>3, <2>4, <2>6, <3>1 DEF EndInv
  <2>7. QED
    BY <2>1, <2>5, <2>6 DEF EndInv
<1>4. CASE Established \/ AcceptFails \/ HandleListen
  <2>1. /\ UNCHANGED <<conn, newConn>> /\ accepting # "arm"
        /\ \A k \in Loop : batch'[k] \subseteq batch[k]
    BY <1>1, <1>4 DEF Established, AcceptFails, HandleListen
  <2>2. QED
    BY <2>1 DEF EndInv
<1>5. CASE AcceptZero \/ AcceptAborted
  <2>1. UNCHANGED <<conn, batch, newConn>> /\ accepting = "accept"
    BY <1>5 DEF AcceptZero, AcceptAborted, AcceptLoses
  <2>2. QED
    BY <2>1 DEF EndInv
<1>6. QED
  BY <1>2, <1>3, <1>4, <1>5 DEF MainStep, Accepts

(* For every pool and any number of peers no end of a connection is        *)
(* missed, if timed tasks leave the connections alone.                     *)
THEOREM EndCorrect ==
  ASSUME CarefulProgram, TimerUses \subseteq {"none"}
  PROVE  Spec => []EndIsHeard
<1>1. Init => EndInv
  BY DEF Init, EndInv, Attentive, NoConn
<1>2. IInv /\ EndInv /\ [Next]_vars => EndInv'
  <2> SUFFICES ASSUME IInv, EndInv, [Next]_vars
               PROVE  EndInv'
    OBVIOUS
  <2>1. CASE UNCHANGED <<conn, batch, accepting, newConn>>
    BY <2>1 DEF EndInv
  <2>2. ASSUME NEW c \in Conn,
               \/ PeerConnects(c) \/ PeerSends(c) \/ PeerCloses(c)
               \/ PeerReads(c) \/ PeerAborts(c)
        PROVE  EndInv'
    BY <2>1, <2>2 DEF PeerConnects, PeerSends, PeerCloses, PeerReads, PeerAborts, Peer
  <2>3. ASSUME NEW c \in Conn, TimedTask(c)
        PROVE  EndInv'
    <3>1. conn \in [Conn -> ConnType]
      BY DEF IInv, TypeOK
    <3>2. conn' = [conn EXCEPT ![c] = UserCallback(conn[c], Main, "none")]
      BY <2>3 DEF TimedTask
    <3>3. conn' = conn
      BY <3>1, <3>2 DEF UserCallback
    <3>4. QED
      BY <2>1, <2>3, <3>3 DEF TimedTask
  <2>4. ASSUME NEW l \in Loop, LoopStep(l)
        PROVE  EndInv'
    BY <2>4, PollAttends, HandleAttends DEF LoopStep
  <2>5. QED
    BY <2>1, <2>2, <2>3, <2>4, AcceptAttends DEF Next, vars
<1>3. ASSUME IInv, EndInv PROVE EndIsHeard
  <2> SUFFICES ASSUME NEW c \in Conn, conn[c].mem = "live", sock[c].eof \/ sock[c].reset,
                      c \notin ReadyConns(owner[c]), ~ (accepting = "arm" /\ newConn = c)
               PROVE  conn[c].isWillClose /\ conn[c].output > 0 /\ ~ sock[c].space
    BY DEF EndIsHeard
  <2>1. conn[c].registered /\ Armed(conn[c]) /\ Attentive(conn[c])
    BY <1>3 DEF IInv, ConnsOK, ConnBase, EndInv
  <2>2. Revents(c) = {}
    BY <2>1 DEF ReadyConns
  <2>3. "in" \notin conn[c].interest
    BY <2>2 DEF Revents
  <2>4. conn[c].isWillClose /\ conn[c].output > 0
    BY <2>1, <2>3 DEF Attentive
  <2>5. "out" \in conn[c].interest
    BY <2>1, <2>4 DEF Armed
  <2>6. ~ sock[c].space
    BY <2>2, <2>5 DEF Revents
  <2>7. QED
    BY <2>4, <2>6
<1>4. QED
  BY <1>1, <1>2, <1>3, InvAlways, PTL DEF Spec
=============================================================================
