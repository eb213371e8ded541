------------------------ MODULE FreeServerClientProofs ------------------------
(***************************************************************************)
(* What TLAPS proves of FreeServerClient, for every set of connections:    *)
(* whom it tells of the end of a connection, and what has to happen before *)
(* an assert of it fails or a deleted connection is used.                  *)
(***************************************************************************)
EXTENDS FreeServerClient, TLAPS

-----------------------------------------------------------------------------
(* The inductive invariant, in parts.                                      *)

(* A peer makes a connection, or the program does.                         *)
Apart == Served \intersect Asked = {}

ConnType ==
  [mem : {"none", "live", "freed"}, interest : SUBSET {"in", "out"},
   revents : SUBSET {"in", "out"}, output : Nat, isWillClose : BOOLEAN,
   told : Nat, active : BOOLEAN, closer : {"none", "established", "task"},
   failed : BOOLEAN, dangling : BOOLEAN]

SockType ==
  [stage : {"none", "pending", "connected", "failed"}, inbox : Nat,
   eof : BOOLEAN, down : BOOLEAN, error : BOOLEAN, space : BOOLEAN]

PortType == [open : BOOLEAN, given : SUBSET {"message", "error"}]

(* The end of r: nothing left to send, no event to come, and its user told *)
(* unless activeClose() ended one of createClientConn.                     *)
ConnOK(c, r) ==
  /\ r \in ConnType
  /\ r.mem = "none" =>
       r.interest = {} /\ r.output = 0 /\ ~ r.isWillClose /\ ~ r.failed /\ ~ r.dangling
  /\ r.mem # "freed" => r.told = 0
  /\ r.mem = "freed" =>
       /\ r.interest = {} /\ r.output = 0
       /\ r.told = IF c \in Asked /\ r.active THEN 0 ELSE 1

(* What excuses a failure of r, with the socket s and the port p: Careless *)
(* or a lost connection.                                                   *)
Excused(c, s, r, p) ==
  \/ s.down
  \/ c \in Served /\ p.open /\ "message" \notin p.given
  \/ c \in Asked /\ r.closer = "established"
  \/ r.closer = "task"

(* An r whose event is still to be handled.                                *)
InBatch(r) == r.mem = "live" \/ (r.mem = "freed" /\ r.closer = "task")

(* A socket s that is behind r: an error is a reset that was not read yet. *)
SockOK(c, s, r, p) ==
  /\ s \in SockType
  /\ s.stage \in {"none", "pending"} <=> r.mem = "none"
  /\ s.stage = "none" => ~ s.error
  /\ s.stage = "pending" => c \in Served
  /\ s.error => s.down
  /\ c \in Served /\ s.stage # "none" => p.open
  /\ r.failed \/ r.dangling => Excused(c, s, r, p)

IInv ==
  /\ conn \in [Conn -> ConnType] /\ sock \in [Conn -> SockType]
  /\ batch \subseteq Conn /\ port \in PortType
  /\ \A c \in Conn : ConnOK(c, conn[c]) /\ SockOK(c, sock[c], conn[c], port)
  /\ \A c \in batch : InBatch(conn[c])

-----------------------------------------------------------------------------
(* What the methods of a live connection r make of it.                     *)

(* What they all keep.                                                     *)
Kept(c, r, new) ==
  /\ ConnOK(c, new)
  /\ new.mem # "none"
  /\ new.failed <=> r.failed
  /\ new.dangling <=> r.dangling
  /\ new.closer = r.closer

LEMMA InterestKeeps ==
  ASSUME NEW c, NEW r, ConnOK(c, r), r.mem = "live", NEW on \in BOOLEAN
  PROVE  /\ Kept(c, r, SetReadable(r, on)) /\ Kept(c, r, SetWritable(r, on))
         /\ SetReadable(r, on).mem = "live" /\ SetWritable(r, on).mem = "live"
         /\ SetReadable(r, on).output = r.output
         /\ SetWritable(r, on).output = r.output
  BY DEF ConnOK, ConnType, Kept, SetReadable, SetWritable

(* send(): its assert holds while there is output.                         *)
LEMMA SendKeeps ==
  ASSUME NEW c, NEW r, ConnOK(c, r), r.mem = "live", r.output > 0,
         NEW isLast \in BOOLEAN
  PROVE  Kept(c, r, Send(r, isLast)) /\ Send(r, isLast).mem = "live"
<1> DEFINE said == [r EXCEPT !.isWillClose = isLast]
<1>1. Kept(c, r, said) /\ said.mem = "live"
  BY DEF ConnOK, ConnType, Kept
<1>2. [r EXCEPT !.isWillClose = isLast, !.failed = @ \/ r.output = 0] = said
  <2>1. (r.failed \/ r.output = 0) = r.failed /\ r \in ConnType
    BY DEF ConnOK, ConnType
  <2>2. [r EXCEPT !.isWillClose = isLast, !.failed = r.failed] = said
    BY <2>1 DEF ConnType
  <2>3. QED
    BY <2>1, <2>2
<1>3. Send(r, isLast) = SetWritable(said, TRUE)
  BY <1>2 DEF Send
<1> HIDE DEF said
<1>4. Kept(c, said, SetWritable(said, TRUE)) /\ SetWritable(said, TRUE).mem = "live"
  BY <1>1, InterestKeeps DEF Kept
<1>5. QED
  BY Zenon, <1>1, <1>3, <1>4 DEF Kept

LEMMA SendBytesKeeps ==
  ASSUME NEW c, NEW r, ConnOK(c, r), r.mem = "live"
  PROVE  Kept(c, r, SendBytes(r)) /\ SendBytes(r).mem = "live"
<1> DEFINE more == [r EXCEPT !.output = @ + 1]
<1>1. Kept(c, r, more) /\ more.mem = "live" /\ more.output > 0
  BY DEF ConnOK, ConnType, Kept
<1>2. SendBytes(r) = Send(more, FALSE)
  BY DEF SendBytes
<1> HIDE DEF more
<1>3. Kept(c, more, Send(more, FALSE)) /\ Send(more, FALSE).mem = "live"
  BY <1>1, SendKeeps DEF Kept
<1>4. QED
  BY Zenon, <1>1, <1>2, <1>3 DEF Kept

(* closeConnection: who is told is not told by a second call.              *)
LEMMA CloseKeeps ==
  ASSUME NEW c, NEW r, ConnOK(c, r), r.mem = "live", NEW told \in BOOLEAN,
         told <=> ~ (c \in Asked /\ r.active)
  PROVE  Kept(c, r, CloseConnection(r, told))
<1> DEFINE deaf == SetReadable(r, FALSE)
           gone == [r EXCEPT !.told = IF told THEN @ + 1 ELSE @,
                             !.mem = "freed", !.interest = {}]
<1>1. CASE r.output > 0
  <2>1. Kept(c, r, deaf) /\ deaf.mem = "live" /\ deaf.output > 0
    BY <1>1, InterestKeeps
  <2>2. CloseConnection(r, told) = Send(deaf, TRUE)
    BY <1>1 DEF CloseConnection
  <2> HIDE DEF deaf
  <2>3. Kept(c, deaf, Send(deaf, TRUE))
    BY <2>1, SendKeeps DEF Kept
  <2>4. QED
    BY <2>1, <2>2, <2>3 DEF Kept
<1>2. CASE ~ (r.output > 0)
  <2>1. r.output = 0 /\ r.told = 0
    BY <1>2 DEF ConnOK, ConnType
  <2>2. CloseConnection(r, told) = gone
    BY <1>2 DEF CloseConnection
  <2>3. /\ gone.mem = "freed" /\ gone.interest = {} /\ gone.output = 0
        /\ gone.told = IF told THEN 1 ELSE 0
        /\ gone.active = r.active /\ gone.failed = r.failed
        /\ gone.dangling = r.dangling /\ gone.closer = r.closer
    BY <2>1 DEF ConnOK, ConnType
  <2>4. gone \in ConnType
    <3> DEFINE calls == IF told THEN r.told + 1 ELSE r.told
    <3>1. calls \in Nat /\ r \in ConnType
      BY <2>1 DEF ConnOK
    <3>2. gone = [r EXCEPT !.told = calls, !.mem = "freed", !.interest = {}]
      OBVIOUS
    <3> HIDE DEF calls, gone
    <3>3. QED
      BY <3>1, <3>2 DEF ConnType
  <2> HIDE DEF gone
  <2>5. gone.told = IF c \in Asked /\ gone.active THEN 0 ELSE 1
    BY <2>3
  <2>6. Kept(c, r, gone)
    BY <2>3, <2>4, <2>5 DEF ConnOK, Kept
  <2>7. QED
    BY <2>2, <2>6
<1>3. QED
  BY <1>1, <1>2

LEMMA ActiveCloseKeeps ==
  ASSUME Apart, NEW c \in Conn, NEW r, ConnOK(c, r), r.mem = "live"
  PROVE  Kept(c, r, ActiveClose(c, r))
<1> DEFINE marked == [r EXCEPT !.active = TRUE]
<1>1. Kept(c, r, marked) /\ marked.mem = "live" /\ marked.active
  BY DEF ConnOK, ConnType, Kept
<1>2. ActiveClose(c, r) = CloseConnection(marked, c \in Served)
  BY DEF ActiveClose
<1>3. c \in Served <=> ~ (c \in Asked /\ marked.active)
  BY <1>1 DEF Apart, Conn
<1> HIDE DEF marked
<1>4. Kept(c, marked, CloseConnection(marked, c \in Served))
  <2>1. (c \in Served) \in BOOLEAN
    OBVIOUS
  <2>2. QED
    BY <1>1, <1>3, <2>1, CloseKeeps DEF Kept
<1>5. QED
  BY Zenon, <1>1, <1>2, <1>4 DEF Kept

LEMMA UserCallbackKeeps ==
  ASSUME Apart, NEW c \in Conn, NEW r, ConnOK(c, r), r.mem = "live",
         NEW use \in Uses
  PROVE  /\ Kept(c, r, UserCallback(c, r, use))
         /\ use \in {"none", "send"} => UserCallback(c, r, use).mem = "live"
<1> DEFINE said == SendBytes(r)
<1>1. Kept(c, r, said) /\ said.mem = "live"
  BY SendBytesKeeps
<1>2. Kept(c, r, r)
  BY DEF Kept
<1>3. Kept(c, r, ActiveClose(c, r))
  BY ActiveCloseKeeps
<1>4. Kept(c, r, ActiveClose(c, said))
  <2> HIDE DEF said
  <2>1. Kept(c, said, ActiveClose(c, said))
    BY <1>1, ActiveCloseKeeps DEF Kept
  <2>2. QED
    BY <1>1, <2>1 DEF Kept
<1>5. CASE use = "none"
  BY <1>2, <1>5 DEF UserCallback
<1>6. CASE use = "send"
  BY <1>1, <1>6 DEF UserCallback
<1>7. CASE use = "close"
  BY <1>3, <1>7 DEF UserCallback
<1>8. CASE use = "reply"
  BY <1>4, <1>8 DEF UserCallback
<1>9. QED
  BY <1>5, <1>6, <1>7, <1>8 DEF Uses

(* What is noted of a callback that may have ended its connection.         *)
LEMMA LeftKeeps ==
  ASSUME NEW c, NEW r, ConnOK(c, r), r.mem # "none", NEW kind \in {"established", "task"}
  PROVE  LET left == LeftBy(kind, r)
         IN  /\ ConnOK(c, left) /\ left.mem = r.mem
             /\ left.failed = r.failed /\ left.dangling = r.dangling
             /\ left.closer = IF r.mem = "freed" THEN kind ELSE r.closer
             /\ left.output = r.output /\ left.interest = r.interest
             /\ left.isWillClose = r.isWillClose
  BY DEF LeftBy, ConnOK, ConnType

(* A message on r, or not yet a whole one; or its callback was not given.  *)
LEMMA MessageKeeps ==
  ASSUME Apart, NEW c \in Conn, NEW r, ConnOK(c, r), r.mem = "live",
         NEW new \in MessageOutcomes(c, r)
  PROVE  \/ Kept(c, r, new)
         \/ /\ ConnOK(c, new) /\ new = [r EXCEPT !.failed = TRUE]
            /\ c \in Served /\ "message" \notin port.given
<1>1. Kept(c, r, r)
  BY DEF Kept
<1>2. ConnOK(c, [r EXCEPT !.failed = TRUE])
  BY DEF ConnOK, ConnType
<1>3. ASSUME NEW use \in Uses PROVE Kept(c, r, UserCallback(c, r, use))
  BY UserCallbackKeeps
<1>4. QED
  BY <1>1, <1>2, <1>3 DEF MessageOutcomes

(* A write that took n bytes.                                              *)
LEMMA SendNonblockKeeps ==
  ASSUME Apart, NEW c \in Conn, NEW r, ConnOK(c, r), r.mem = "live",
         NEW n \in 1 .. r.output
  PROVE  Kept(c, r, SendNonblock(c, r, n))
<1> DEFINE rest  == [r EXCEPT !.output = @ - n]
           quiet == SetWritable(rest, FALSE)
<1>1. Kept(c, r, rest) /\ rest.mem = "live"
  BY DEF ConnOK, ConnType, Kept
<1>2. Kept(c, r, quiet) /\ quiet.mem = "live"
  <2> HIDE DEF rest
  <2>1. Kept(c, rest, quiet) /\ quiet.mem = "live"
    BY <1>1, InterestKeeps DEF Kept
  <2>2. QED
    BY <1>1, <2>1 DEF Kept
<1>3. SendNonblock(c, r, n) \in {rest, quiet, ActiveClose(c, quiet)}
  <2>1. n # -1
    BY DEF ConnOK, ConnType
  <2>2. QED
    BY <2>1 DEF SendNonblock
<1> HIDE DEF quiet, rest
<1>4. Kept(c, r, ActiveClose(c, quiet))
  BY <1>2, ActiveCloseKeeps DEF Kept
<1>5. QED
  BY <1>1, <1>2, <1>3, <1>4

-----------------------------------------------------------------------------
(* The steps.                                                              *)

LEMMA InvInitially == Init => IInv
<1>1. SUFFICES ASSUME Init PROVE IInv
  OBVIOUS
<1>2. NoSock \in SockType
  BY DEF NoSock, SockType
<1>3. NoConn \in ConnType
  BY DEF NoConn, ConnType
<1>4. /\ conn \in [Conn -> ConnType] /\ sock \in [Conn -> SockType]
      /\ \A c \in Conn : conn[c] = NoConn /\ sock[c] = NoSock
      /\ batch = {} /\ port \in PortType
  BY <1>1, <1>2, <1>3 DEF Init, PortType
<1>5. ASSUME NEW c \in Conn PROVE ConnOK(c, NoConn) /\ SockOK(c, NoSock, NoConn, port)
  BY <1>2, <1>3 DEF ConnOK, SockOK, NoConn, NoSock
<1>6. QED
  BY <1>4, <1>5 DEF IInv

(* A step that gives one connection the object r and the socket s.         *)
LEMMA OneKeeps ==
  ASSUME IInv, NEW c \in Conn, NEW r, NEW s, ConnOK(c, r), SockOK(c, s, r, port),
         conn' = [conn EXCEPT ![c] = r], sock' = [sock EXCEPT ![c] = s],
         batch' \subseteq batch, c \in batch' => InBatch(r), port' = port
  PROVE  IInv'
<1>1. /\ conn' \in [Conn -> ConnType] /\ sock' \in [Conn -> SockType]
      /\ conn'[c] = r /\ sock'[c] = s
      /\ \A d \in Conn \ {c} : conn'[d] = conn[d] /\ sock'[d] = sock[d]
  BY DEF IInv, ConnOK, SockOK
<1>2. QED
  BY <1>1 DEF IInv

(* The same with the socket, or the object, left alone.                    *)
LEMMA OneUnchanged ==
  ASSUME IInv, NEW c \in Conn
  PROVE  /\ sock' = sock => sock' = [sock EXCEPT ![c] = sock[c]]
         /\ conn' = conn => conn' = [conn EXCEPT ![c] = conn[c]]
         /\ ConnOK(c, conn[c]) /\ SockOK(c, sock[c], conn[c], port)
         /\ conn[c] \in ConnType /\ sock[c] \in SockType
  BY DEF IInv

(* What the methods keep, the socket keeps.                                *)
LEMMA SockKeeps ==
  ASSUME NEW c, NEW s, NEW r, NEW new, NEW p, SockOK(c, s, r, p), Kept(c, r, new),
         r.mem # "none"
  PROVE  SockOK(c, s, new, p)
  BY DEF SockOK, Kept, Excused

LEMMA OutsideKeeps ==
  ASSUME IInv, NEW c \in Conn,
         PeerConnects(c) \/ PeerSends(c) \/ PeerCloses(c) \/ PeerReads(c)
           \/ PeerAborts(c)
  PROVE  IInv'
<1>1. UNCHANGED <<conn, batch, port>>
  BY DEF PeerConnects, PeerSends, PeerCloses, PeerReads, PeerAborts, Outside
<1>2. /\ ConnOK(c, conn[c]) /\ SockOK(c, sock[c], conn[c], port) /\ sock[c] \in SockType
      /\ conn' = [conn EXCEPT ![c] = conn[c]]
      /\ batch' \subseteq batch /\ port' = port
      /\ c \in batch' => InBatch(conn[c])
  BY <1>1, OneUnchanged DEF IInv
<1>3. ASSUME NEW s, SockOK(c, s, conn[c], port), sock' = [sock EXCEPT ![c] = s]
      PROVE  IInv'
  BY <1>2, <1>3, OneKeeps
<1>4. CASE PeerConnects(c)
  BY <1>2, <1>3, <1>4 DEF PeerConnects, Outside, SockOK, SockType, Excused
<1>5. CASE PeerSends(c)
  BY <1>2, <1>3, <1>5 DEF PeerSends, Outside, SockOK, SockType, Excused
<1>6. CASE PeerCloses(c)
  BY <1>2, <1>3, <1>6 DEF PeerCloses, Outside, SockOK, SockType, Excused
<1>7. CASE PeerReads(c)
  BY <1>2, <1>3, <1>7 DEF PeerReads, Outside, SockOK, SockType, Excused
<1>8. CASE PeerAborts(c)
  <2>1. PICK left \in {0, sock[c].inbox} :
          sock' = [sock EXCEPT ![c] =
                     [sock[c] EXCEPT !.down = TRUE, !.error = TRUE, !.inbox = left]]
    BY <1>8 DEF PeerAborts, Outside
  <2>2. left \in Nat /\ sock[c].stage \in {"pending", "connected"}
    BY <1>2, <1>8 DEF SockType, PeerAborts, Up
  <2>3. SockOK(c, [sock[c] EXCEPT !.down = TRUE, !.error = TRUE, !.inbox = left], conn[c],
                 port)
    BY <1>2, <2>2 DEF SockOK, SockType, Excused
  <2>4. QED
    BY <1>3, <2>1, <2>3
<1>9. QED
  BY <1>4, <1>5, <1>6, <1>7, <1>8

(* A connection is made, by its program or by the port.                    *)
LEMMA NewKeeps ==
  ASSUME IInv, Apart, NEW c \in Conn,
         HandleAccept(c) \/ \E connected \in BOOLEAN : CreateClientConn(c, connected)
  PROVE  IInv'
<1>1. /\ ConnOK(c, conn[c]) /\ SockOK(c, sock[c], conn[c], port)
      /\ conn[c] \in ConnType /\ sock[c] \in SockType
      /\ batch' = batch /\ port' = port /\ port \in PortType
  BY OneUnchanged DEF HandleAccept, CreateClientConn, IInv
<1> DEFINE made == [conn[c] EXCEPT !.mem = "live"]
<1>2. conn[c].mem = "none" /\ c \notin batch /\ c \notin batch'
  <2>1. conn[c].mem = "none"
    BY <1>1 DEF HandleAccept, CreateClientConn, SockOK
  <2>2. QED
    BY <1>1, <2>1 DEF IInv, InBatch
<1>3. /\ ConnOK(c, made) /\ made.mem = "live"
      /\ ~ made.failed /\ ~ made.dangling
  BY <1>1, <1>2 DEF ConnOK, ConnType
<1> HIDE DEF made
<1>4. ASSUME NEW s, NEW r, ConnOK(c, r), r.mem # "none",
             r.failed \/ r.dangling => c \in Asked /\ r.closer = "established",
             s \in SockType, s.stage \notin {"none", "pending"}, s.error => s.down,
             c \in Served => port.open,
             conn' = [conn EXCEPT ![c] = r], sock' = [sock EXCEPT ![c] = s]
      PROVE  IInv'
  <2>1. SockOK(c, s, r, port)
    BY <1>4 DEF SockOK, Excused
  <2>2. QED
    BY <1>1, <1>2, <1>4, <2>1, OneKeeps
<1>5. CASE HandleAccept(c)
  <2>1. PICK use \in Uses :
          conn' = [conn EXCEPT ![c] = UserCallback(c, SetReadable(made, TRUE), use)]
    BY <1>5 DEF HandleAccept, made
  <2> DEFINE open == SetReadable(made, TRUE)
             r == UserCallback(c, open, use)
             s == [sock[c] EXCEPT !.stage = "connected"]
  <2>2. Kept(c, made, open) /\ open.mem = "live"
    BY <1>3, InterestKeeps
  <2> HIDE DEF open
  <2>3. Kept(c, open, r)
    BY <2>2, UserCallbackKeeps DEF Kept
  <2>4. ConnOK(c, r) /\ r.mem # "none" /\ ~ r.failed /\ ~ r.dangling
    BY Zenon, <1>3, <2>2, <2>3 DEF Kept
  <2>5. /\ s \in SockType /\ s.stage \notin {"none", "pending"}
        /\ s.error => s.down
    BY <1>1 DEF SockOK, SockType
  <2>6. sock' = [sock EXCEPT ![c] = s]
    BY <1>5 DEF HandleAccept
  <2>7. conn' = [conn EXCEPT ![c] = r]
    BY <2>1 DEF open
  <2> HIDE DEF r, s
  <2>8. c \in Served => port.open
    BY <1>1, <1>5 DEF SockOK, HandleAccept
  <2>9. QED
    BY <1>4, <2>4, <2>5, <2>6, <2>7, <2>8
<1>6. ASSUME NEW connected \in BOOLEAN, CreateClientConn(c, connected)
      PROVE  IInv'
  <2>1. PICK use \in Uses :
          LET r == LeftBy("established", UserCallback(c, made, use))
          IN  conn' = [conn EXCEPT ![c] = IF r.mem = "freed" THEN [r EXCEPT !.dangling = TRUE]
                                          ELSE SetReadable(r, TRUE)]
    BY <1>6 DEF CreateClientConn, made
  <2> DEFINE told == UserCallback(c, made, use)
             left == LeftBy("established", told)
             used == [left EXCEPT !.dangling = TRUE]
             s == [sock[c] EXCEPT !.stage = IF connected THEN "connected" ELSE "failed",
                                  !.down = ~ connected]
  <2>2. Kept(c, made, told)
    BY <1>3, UserCallbackKeeps
  <2>3. told.mem # "none" /\ ~ told.failed /\ ~ told.dangling /\ ConnOK(c, told)
    BY Zenon, <1>3, <2>2 DEF Kept
  <2> HIDE DEF told
  <2>4. /\ ConnOK(c, left) /\ left.mem = told.mem /\ ~ left.failed /\ ~ left.dangling
        /\ left.closer = IF told.mem = "freed" THEN "established" ELSE told.closer
    BY <2>3, LeftKeeps
  <2>5. ~ sock[c].error
    BY <1>1, <1>2, <1>6 DEF SockOK, SockType, CreateClientConn, Apart
  <2>6. /\ s \in SockType /\ s.stage \notin {"none", "pending"}
        /\ s.error => s.down
    BY <1>1, <2>5 DEF SockType
  <2>7. sock' = [sock EXCEPT ![c] = s]
    BY <1>6 DEF CreateClientConn
  <2>8. conn' = [conn EXCEPT ![c] = IF left.mem = "freed" THEN used ELSE SetReadable(left, TRUE)]
    BY <2>1 DEF told
  <2> HIDE DEF left, s
  <2>12. c \in Asked /\ c \notin Served
    BY <1>6 DEF CreateClientConn, Apart
  <2>9. CASE left.mem = "freed"
    <3>1. /\ ConnOK(c, used) /\ used.mem = "freed" /\ used.closer = left.closer
      BY <2>4, <2>9 DEF ConnOK, ConnType
    <3>2. conn' = [conn EXCEPT ![c] = used] /\ c \in Asked
      BY <1>6, <2>8, <2>9 DEF CreateClientConn
    <3> HIDE DEF used
    <3>3. QED
      BY <1>4, <2>4, <2>6, <2>7, <2>9, <2>12, <3>1, <3>2
  <2>10. CASE left.mem # "freed"
    <3> DEFINE r == SetReadable(left, TRUE)
    <3>1. left.mem = "live"
      BY <2>3, <2>4, <2>10 DEF ConnOK, ConnType
    <3>2. Kept(c, left, r)
      BY <2>4, <3>1, InterestKeeps
    <3>3. conn' = [conn EXCEPT ![c] = r]
      BY <2>8, <2>10
    <3> HIDE DEF r
    <3>4. ConnOK(c, r) /\ r.mem # "none" /\ ~ r.failed /\ ~ r.dangling
      BY Zenon, <2>4, <3>2 DEF Kept
    <3>5. QED
      BY <1>4, <2>6, <2>7, <2>12, <3>3, <3>4
  <2>11. QED
    BY <2>9, <2>10
<1>7. QED
  BY <1>5, <1>6

LEMMA PollKeeps ==
  ASSUME IInv, Poll
  PROVE  IInv'
<1>1. /\ conn' = [c \in Conn |-> [conn[c] EXCEPT !.revents = Revents(c)]]
      /\ batch' = Ready /\ sock' = sock /\ port' = port
  BY DEF Poll
<1>2. ASSUME NEW c \in Conn
      PROVE  /\ ConnOK(c, conn'[c]) /\ conn'[c] \in ConnType
             /\ SockOK(c, sock[c], conn'[c], port)
             /\ conn'[c].mem = conn[c].mem
  <2>1. /\ ConnOK(c, conn[c]) /\ SockOK(c, sock[c], conn[c], port) /\ conn[c] \in ConnType
    BY DEF IInv
  <2>2. Revents(c) \subseteq {"in", "out"}
    BY DEF Revents
  <2>3. conn'[c] = [conn[c] EXCEPT !.revents = Revents(c)]
    BY <1>1
  <2>4. conn'[c] \in ConnType
    BY <2>1, <2>2, <2>3 DEF ConnType
  <2>5. /\ conn'[c].mem = conn[c].mem /\ conn'[c].interest = conn[c].interest
        /\ conn'[c].output = conn[c].output /\ conn'[c].told = conn[c].told
        /\ conn'[c].active = conn[c].active /\ conn'[c].failed = conn[c].failed
        /\ conn'[c].dangling = conn[c].dangling /\ conn'[c].closer = conn[c].closer
        /\ conn'[c].isWillClose = conn[c].isWillClose
    BY <2>1, <2>3 DEF ConnType
  <2>6. QED
    BY <2>1, <2>4, <2>5 DEF ConnOK, SockOK, Excused
<1>3. ASSUME NEW c \in Ready PROVE c \in Conn /\ conn[c].mem = "live"
  <2>1. c \in Conn /\ conn[c].interest # {}
    BY <1>3 DEF Ready, Revents
  <2>2. QED
    BY <2>1 DEF IInv, ConnOK, ConnType
<1>4. conn' \in [Conn -> ConnType]
  BY <1>1, <1>2
<1>5. ASSUME NEW c \in Ready PROVE c \in Conn /\ InBatch(conn'[c])
  BY <1>2, <1>3 DEF InBatch
<1>6. QED
  BY <1>1, <1>2, <1>4, <1>5 DEF IInv

(* The loop handles one event.                                             *)
LEMMA HandleKeeps ==
  ASSUME IInv, Apart, NEW c \in Conn,
         HandleClose(c) \/ HandleMessage(c) \/ HandleWrite(c)
           \/ HandleErrorAsked(c) \/ HandleErrorServed(c)
  PROVE  IInv'
<1>1. /\ c \in batch /\ batch' = batch \ {c} /\ port' = port
      /\ conn[c].mem = "live"
      /\ ConnOK(c, conn[c]) /\ SockOK(c, sock[c], conn[c], port)
      /\ conn[c] \in ConnType /\ sock[c] \in SockType
  BY OneUnchanged
     DEF HandleClose, HandleMessage, HandleWrite, HandleErrorAsked, HandleErrorServed,
         Takes, Drops, IInv
<1>2. ASSUME NEW r, NEW s, ConnOK(c, r), SockOK(c, s, r, port),
             conn' = [conn EXCEPT ![c] = r], sock' = [sock EXCEPT ![c] = s]
      PROVE  IInv'
  BY <1>1, <1>2, OneKeeps
(* What a method makes of it, with what is read from the socket.           *)
<1>3. ASSUME NEW r, NEW s, Kept(c, conn[c], r),
             s \in SockType, s.stage = sock[c].stage, s.down = sock[c].down,
             s.error => sock[c].error,
             conn' = [conn EXCEPT ![c] = r], sock' = [sock EXCEPT ![c] = s]
      PROVE  IInv'
  <2>1. SockOK(c, s, r, port)
    BY <1>1, <1>3 DEF SockOK, Kept, Excused
  <2>2. QED
    BY <1>2, <1>3, <2>1 DEF Kept
<1>4. CASE HandleClose(c)
  <2> DEFINE marked == [conn[c] EXCEPT !.active = FALSE]
  <2>1. Kept(c, conn[c], marked) /\ marked.mem = "live" /\ ~ marked.active
    BY <1>1 DEF ConnOK, ConnType, Kept
  <2>2. /\ conn' = [conn EXCEPT ![c] = CloseConnection(marked, TRUE)]
        /\ sock' = [sock EXCEPT ![c] = sock[c]]
    BY <1>4, OneUnchanged DEF HandleClose
  <2> HIDE DEF marked
  <2>3. Kept(c, marked, CloseConnection(marked, TRUE))
    BY <2>1, CloseKeeps DEF Kept
  <2>4. Kept(c, conn[c], CloseConnection(marked, TRUE))
    BY Zenon, <2>1, <2>3 DEF Kept
  <2>5. QED
    BY <1>1, <1>3, <2>2, <2>4
<1>5. CASE HandleMessage(c)
  <2>1. PICK r \in MessageOutcomes(c, conn[c]) : conn' = [conn EXCEPT ![c] = r]
    BY <1>5 DEF HandleMessage
  <2> DEFINE s == [sock[c] EXCEPT !.inbox = 0]
  <2>2. /\ s \in SockType /\ s.stage = sock[c].stage /\ s.down = sock[c].down
        /\ s.error = sock[c].error
    BY <1>1 DEF SockType
  <2>3. sock' = [sock EXCEPT ![c] = s]
    BY <1>5 DEF HandleMessage
  <2> HIDE DEF s
  <2>4. CASE Kept(c, conn[c], r)
    BY <1>3, <2>1, <2>2, <2>3, <2>4
  <2>5. CASE /\ ConnOK(c, r) /\ r = [conn[c] EXCEPT !.failed = TRUE]
             /\ c \in Served /\ "message" \notin port.given
    <3>1. r.mem = "live"
      BY <1>1, <2>5 DEF ConnType
    <3>2. port.open
      BY <1>1, <2>5 DEF SockOK
    <3>3. SockOK(c, s, r, port)
      BY <1>1, <2>2, <2>5, <3>1, <3>2 DEF SockOK, Excused
    <3>4. QED
      BY <1>2, <2>1, <2>3, <2>5, <3>3
  <2>6. QED
    BY <1>1, <2>4, <2>5, MessageKeeps
<1>6. CASE HandleWrite(c)
  <2>1. CASE sock[c].down
    <3> DEFINE r == [conn[c] EXCEPT !.failed = TRUE]
    <3>1. /\ conn' = [conn EXCEPT ![c] = r] /\ sock' = [sock EXCEPT ![c] = sock[c]]
      BY <1>6, <2>1, OneUnchanged DEF HandleWrite, SendNonblock
    <3>2. ConnOK(c, r) /\ SockOK(c, sock[c], r, port)
      BY <1>1, <2>1 DEF ConnOK, SockOK, ConnType, Excused
    <3> HIDE DEF r
    <3>3. QED
      BY <1>2, <3>1, <3>2
  <2>2. CASE ~ sock[c].down
    <3>1. PICK n \in 1 .. conn[c].output, space \in BOOLEAN :
            /\ conn' = [conn EXCEPT ![c] = SendNonblock(c, conn[c], n)]
            /\ sock' = [sock EXCEPT ![c].space = space]
      BY <1>6, <2>2 DEF HandleWrite
    <3>2. Kept(c, conn[c], SendNonblock(c, conn[c], n))
      BY <1>1, SendNonblockKeeps
    <3> DEFINE s == [sock[c] EXCEPT !.space = space]
    <3>3. /\ s \in SockType /\ s.stage = sock[c].stage /\ s.down = sock[c].down
          /\ s.error = sock[c].error
      BY <1>1 DEF SockType
    <3>4. sock' = [sock EXCEPT ![c] = s]
      BY <3>1
    <3> HIDE DEF s
    <3>5. QED
      BY <1>3, <3>1, <3>2, <3>3, <3>4
  <2>3. QED
    BY <2>1, <2>2
(* A read error is taken off the socket, which is still down.              *)
<1> DEFINE quiet == [sock[c] EXCEPT !.error = FALSE]
<1>7. /\ quiet \in SockType /\ quiet.stage = sock[c].stage /\ quiet.down = sock[c].down
      /\ ~ quiet.error
  BY <1>1 DEF SockType
<1>8. ASSUME HandleErrorAsked(c) \/ HandleErrorServed(c)
      PROVE  sock' = [sock EXCEPT ![c] = quiet] /\ quiet.down
  BY <1>1, <1>7, <1>8 DEF HandleErrorAsked, HandleErrorServed, SockOK
<1> HIDE DEF quiet
<1>9. CASE HandleErrorAsked(c)
  <2>1. PICK use \in Uses : conn' = [conn EXCEPT ![c] = UserCallback(c, conn[c], use)]
    BY <1>9 DEF HandleErrorAsked
  <2>2. Kept(c, conn[c], UserCallback(c, conn[c], use))
    BY <1>1, UserCallbackKeeps
  <2>3. QED
    BY <1>3, <1>7, <1>8, <1>9, <2>1, <2>2
<1>10. CASE HandleErrorServed(c)
  <2>1. ASSUME NEW r, ConnOK(c, r), r.mem # "none", conn' = [conn EXCEPT ![c] = r]
        PROVE  IInv'
    <3>1. SockOK(c, quiet, r, port)
      BY <1>1, <1>7, <1>8, <1>10, <2>1 DEF SockOK, Excused
    <3>2. QED
      BY <1>2, <1>8, <1>10, <2>1, <3>1
  <2>2. CASE "error" \notin port.given
    <3> DEFINE r == [conn[c] EXCEPT !.failed = TRUE]
    <3>1. ConnOK(c, r) /\ r.mem # "none"
      BY <1>1 DEF ConnOK, ConnType
    <3>2. conn' = [conn EXCEPT ![c] = r]
      BY <1>10, <2>2 DEF HandleErrorServed
    <3> HIDE DEF r
    <3>3. QED
      BY <2>1, <3>1, <3>2
  <2>3. CASE "error" \in port.given
    <3>1. PICK use \in Uses :
            LET told == UserCallback(c, conn[c], use) IN
            IF told.mem = "freed"
            THEN conn' = [conn EXCEPT ![c] = [told EXCEPT !.dangling = TRUE]]
            ELSE \E r \in MessageOutcomes(c, told) : conn' = [conn EXCEPT ![c] = r]
      BY <1>10, <2>3 DEF HandleErrorServed
    <3> DEFINE told == UserCallback(c, conn[c], use)
    <3>2. Kept(c, conn[c], told)
      BY <1>1, UserCallbackKeeps
    <3>3. CASE told.mem = "freed"
      <4> DEFINE r == [told EXCEPT !.dangling = TRUE]
      <4>1. conn' = [conn EXCEPT ![c] = r]
        BY <3>1, <3>3
      <4> HIDE DEF told
      <4>2. ConnOK(c, r) /\ r.mem # "none"
        BY <3>2, <3>3 DEF ConnOK, ConnType, Kept
      <4> HIDE DEF r
      <4>3. QED
        BY <2>1, <4>1, <4>2
    <3>4. CASE told.mem # "freed"
      <4>1. PICK r \in MessageOutcomes(c, told) : conn' = [conn EXCEPT ![c] = r]
        BY <3>1, <3>4
      <4> HIDE DEF told
      <4>2. ConnOK(c, told) /\ told.mem = "live" /\ told \in ConnType
        BY <3>2, <3>4 DEF ConnOK, ConnType, Kept
      <4>3. ConnOK(c, r) /\ r.mem # "none"
        BY <4>2, MessageKeeps DEF Kept, ConnType
      <4>4. QED
        BY <2>1, <4>1, <4>3
    <3>5. QED
      BY <3>3, <3>4
  <2>4. QED
    BY <2>2, <2>3
<1>11. QED
  BY <1>4, <1>5, <1>6, <1>9, <1>10

(* The event of one that a timed task has ended.                           *)
LEMMA DeletedKeeps ==
  ASSUME IInv, NEW c \in Conn, HandleDeleted(c)
  PROVE  IInv'
<1> DEFINE r == [conn[c] EXCEPT !.dangling = TRUE]
<1>1. /\ c \in batch /\ conn[c].mem = "freed"
      /\ batch' = batch \ {c} /\ port' = port
      /\ conn' = [conn EXCEPT ![c] = r] /\ sock' = [sock EXCEPT ![c] = sock[c]]
      /\ ConnOK(c, conn[c]) /\ SockOK(c, sock[c], conn[c], port)
  BY OneUnchanged DEF HandleDeleted, Drops
<1>2. conn[c].closer = "task"
  BY <1>1 DEF IInv, InBatch
<1>3. /\ ConnOK(c, r) /\ r.mem = "freed" /\ r.closer = "task"
  BY <1>1, <1>2 DEF ConnOK, ConnType
<1> HIDE DEF r
<1>4. SockOK(c, sock[c], r, port)
  BY <1>1, <1>3 DEF SockOK, Excused
<1>5. QED
  BY <1>1, <1>3, <1>4, OneKeeps

LEMMA TimedTaskKeeps ==
  ASSUME IInv, Apart, NEW c \in Conn, TimedTask(c)
  PROVE  IInv'
<1>1. /\ conn[c].mem = "live"
      /\ ConnOK(c, conn[c]) /\ SockOK(c, sock[c], conn[c], port)
      /\ batch' = batch /\ port' = port
      /\ sock' = [sock EXCEPT ![c] = sock[c]]
  BY OneUnchanged DEF TimedTask
<1>2. PICK use \in Uses :
        conn' = [conn EXCEPT ![c] = LeftBy("task", UserCallback(c, conn[c], use))]
  BY DEF TimedTask
<1> DEFINE told == UserCallback(c, conn[c], use)
           r == LeftBy("task", told)
<1>3. Kept(c, conn[c], told)
  BY <1>1, UserCallbackKeeps
<1> HIDE DEF told
<1>4. ConnOK(c, told) /\ told.mem \in {"live", "freed"} /\ SockOK(c, sock[c], told, port)
  BY <1>1, <1>3, SockKeeps DEF Kept, ConnOK, ConnType
<1>5. /\ ConnOK(c, r) /\ r.mem = told.mem
      /\ r.failed = told.failed /\ r.dangling = told.dangling
      /\ r.closer = IF told.mem = "freed" THEN "task" ELSE told.closer
  BY <1>4, LeftKeeps
<1>6. conn' = [conn EXCEPT ![c] = r]
  BY <1>2 DEF told
<1> HIDE DEF r
<1>7. InBatch(r)
  BY <1>4, <1>5 DEF InBatch
<1>9. Excused(c, sock[c], told, port) => Excused(c, sock[c], r, port)
  BY <1>5 DEF Excused
<1>10. SockOK(c, sock[c], r, port)
  BY <1>4, <1>5, <1>9 DEF SockOK
<1>8. QED
  BY <1>1, <1>5, <1>6, <1>7, <1>10, OneKeeps

(* The port is opened before any connection is made to it.                 *)
LEMMA PortKeeps ==
  ASSUME IInv, CreateServerPort
  PROVE  IInv'
<1>1. /\ ~ port.open /\ port' \in PortType /\ port'.open
      /\ UNCHANGED <<sock, conn, batch>>
  BY DEF CreateServerPort, PortType
<1>2. ASSUME NEW c \in Conn PROVE SockOK(c, sock[c], conn[c], port')
  <2>1. SockOK(c, sock[c], conn[c], port)
    BY DEF IInv
  <2>2. QED
    BY <1>1, <2>1 DEF SockOK, Excused
<1>3. QED
  BY <1>1, <1>2 DEF IInv

LEMMA InvInductive ==
  ASSUME Apart
  PROVE  IInv /\ [Next]_vars => IInv'
<1>1. SUFFICES ASSUME IInv, [Next]_vars PROVE IInv'
  OBVIOUS
<1>2. ASSUME NEW c \in Conn, \/ HandleClose(c) \/ HandleMessage(c) \/ HandleWrite(c)
                             \/ HandleErrorAsked(c) \/ HandleErrorServed(c)
      PROVE  IInv'
  BY <1>1, <1>2, HandleKeeps
<1>3. ASSUME NEW c \in Conn,
             HandleAccept(c) \/ \E connected \in BOOLEAN : CreateClientConn(c, connected)
      PROVE  IInv'
  BY <1>1, <1>3, NewKeeps
<1>4. ASSUME NEW c \in Conn, \/ PeerConnects(c) \/ PeerSends(c) \/ PeerCloses(c)
                             \/ PeerReads(c) \/ PeerAborts(c)
      PROVE  IInv'
  BY <1>1, <1>4, OutsideKeeps
<1>5. ASSUME NEW c \in Conn, TimedTask(c) PROVE IInv'
  BY <1>1, <1>5, TimedTaskKeeps
<1>6. CASE CreateServerPort
  BY <1>1, <1>6, PortKeeps
<1>9. ASSUME NEW c \in Conn, HandleDeleted(c) PROVE IInv'
  BY <1>1, <1>9, DeletedKeeps
<1>7. CASE UNCHANGED vars
  BY <1>1, <1>7 DEF vars, IInv
<1>8. QED
  BY <1>1, <1>2, <1>3, <1>4, <1>5, <1>6, <1>7, <1>9, PollKeeps DEF Next, LoopStep

-----------------------------------------------------------------------------
(* The theorems.                                                           *)

LEMMA InvAlways ==
  ASSUME Apart
  PROVE  Spec => []IInv
  BY InvInitially, InvInductive, PTL DEF Spec

(* Once a connection is deleted its user has heard of the end exactly      *)
(* once, but never for one of createClientConn that activeClose() ended,   *)
(* which has no destroy callback (TcpConnection.cpp:49).                   *)
THEOREM ToldCorrect ==
  ASSUME Apart
  PROVE  Spec => []ToldOfEnd
<1>1. IInv => ToldOfEnd
  BY DEF IInv, ConnOK, ToldOfEnd, InBatch
<1>2. QED
  BY <1>1, InvAlways, PTL

(* No assert fails on a connection, and it is not used once deleted, as    *)
(* long as its socket is up and the program is not Careless with it: it    *)
(* gives a message callback, and ends connections neither in the callback  *)
(* of createClientConn nor in a timed task (FreeServerClient.h:57, 64,     *)
(* 173, 180).                                                              *)
THEOREM FailsCorrect ==
  ASSUME Apart
  PROVE  Spec => []FailsOnlyWhenDown
<1>1. IInv => FailsOnlyWhenDown
  BY DEF IInv, SockOK, Excused, Careless, FailsOnlyWhenDown
<1>2. QED
  BY <1>1, InvAlways, PTL

-----------------------------------------------------------------------------
(* What EndIsClosed rests on.                                              *)

(* The end of a connection that lives is never missed: its event is ready, *)
(* or it was closed already and waits for a peer that does not read - or a *)
(* timed task has made it forget the close (TcpConnection.cpp:41).         *)
EndIsHeard ==
  \A c \in Conn :
    conn[c].mem = "live" /\ sock[c].stage = "connected" /\ (sock[c].eof \/ sock[c].down) =>
      \/ c \in Ready
      \/ conn[c].isWillClose /\ conn[c].output > 0 /\ ~ sock[c].space
      \/ CloseForgotten(c)

(* A live connection that is not read any more has output left, or has     *)
(* forgotten its close; its output is armed.                               *)
Attentive(r) ==
  r.mem = "live" =>
    /\ "in" \in r.interest \/ ~ r.isWillClose \/ r.output > 0
    /\ r.output > 0 => "out" \in r.interest

AllAttend == \A c \in Conn : Attentive(conn[c])

LEMMA SendAttends ==
  ASSUME NEW r \in ConnType, NEW isLast \in BOOLEAN, r.output > 0
  PROVE  Attentive(Send(r, isLast))
<1> DEFINE said == [r EXCEPT !.isWillClose = isLast, !.failed = @ \/ r.output = 0]
<1>1. said \in ConnType /\ said.output > 0
  BY DEF ConnType
<1>2. Send(r, isLast) = SetWritable(said, TRUE)
  BY DEF Send
<1> HIDE DEF said
<1>3. "out" \in SetWritable(said, TRUE).interest /\ SetWritable(said, TRUE).output > 0
  BY <1>1 DEF SetWritable, ConnType
<1>4. QED
  BY <1>2, <1>3 DEF Attentive

LEMMA SendBytesAttends ==
  ASSUME NEW r \in ConnType
  PROVE  Attentive(SendBytes(r))
<1> DEFINE more == [r EXCEPT !.output = @ + 1]
<1>1. more \in ConnType /\ more.output > 0
  BY DEF ConnType
<1>2. SendBytes(r) = Send(more, FALSE)
  BY DEF SendBytes
<1> HIDE DEF more
<1>3. QED
  BY <1>1, <1>2, SendAttends

(* closeConnection leaves a connection that will be closed or is.          *)
LEMMA CloseAttends ==
  ASSUME NEW r \in ConnType, NEW told
  PROVE  Attentive(CloseConnection(r, told))
<1> DEFINE deaf == SetReadable(r, FALSE)
<1>1. CASE r.output > 0
  <2>1. deaf \in ConnType /\ deaf.output > 0
    BY <1>1 DEF ConnType, SetReadable
  <2>2. CloseConnection(r, told) = Send(deaf, TRUE)
    BY <1>1 DEF CloseConnection
  <2> HIDE DEF deaf
  <2>3. QED
    BY <2>1, <2>2, SendAttends
<1>2. CASE ~ (r.output > 0)
  <2>1. CloseConnection(r, told).mem = "freed"
    BY <1>2 DEF CloseConnection, ConnType
  <2>2. QED
    BY <2>1 DEF Attentive
<1>3. QED
  BY <1>1, <1>2

LEMMA ActiveCloseAttends ==
  ASSUME NEW c, NEW r \in ConnType
  PROVE  Attentive(ActiveClose(c, r))
<1> DEFINE asked == [r EXCEPT !.active = TRUE]
<1>1. asked \in ConnType
  BY DEF ConnType
<1>2. ActiveClose(c, r) = CloseConnection(asked, c \in Served)
  BY DEF ActiveClose
<1> HIDE DEF asked
<1>3. QED
  BY Zenon, <1>1, <1>2, CloseAttends

LEMMA UserCallbackAttends ==
  ASSUME NEW c, NEW r \in ConnType, NEW use \in Uses,
         ConnOK(c, r), r.mem = "live", Attentive(r)
  PROVE  Attentive(UserCallback(c, r, use))
<1>1. CASE use = "none"
  BY <1>1 DEF UserCallback
<1>2. CASE use = "send"
  BY <1>2, SendBytesAttends DEF UserCallback
<1>3. CASE use = "close"
  BY <1>3, ActiveCloseAttends DEF UserCallback
<1>4. CASE use = "reply"
  <2>1. SendBytes(r) \in ConnType
    BY SendBytesKeeps DEF Kept, ConnOK
  <2>2. QED
    BY <1>4, <2>1, ActiveCloseAttends DEF UserCallback
<1>5. QED
  BY <1>1, <1>2, <1>3, <1>4 DEF Uses

LEMMA MessageAttends ==
  ASSUME NEW c, NEW r \in ConnType, NEW new \in MessageOutcomes(c, r),
         ConnOK(c, r), r.mem = "live", Attentive(r)
  PROVE  Attentive(new)
<1>1. Attentive([r EXCEPT !.failed = TRUE])
  BY DEF Attentive, ConnType
<1>2. QED
  BY <1>1, UserCallbackAttends DEF MessageOutcomes

LEMMA SendNonblockAttends ==
  ASSUME NEW c, NEW r \in ConnType, NEW n \in 1 .. r.output \union {-1}, Attentive(r),
         r.mem = "live"
  PROVE  Attentive(SendNonblock(c, r, n))
<1> DEFINE rest  == [r EXCEPT !.output = @ - n]
           quiet == SetWritable(rest, FALSE)
<1>1. CASE n = -1
  BY <1>1 DEF SendNonblock, Attentive, ConnType
<1>2. CASE n # -1
  <2>1. /\ rest \in ConnType /\ rest.interest = r.interest
        /\ rest.isWillClose = r.isWillClose /\ r.output > 0
    BY <1>2 DEF ConnType
  <2>2. SendNonblock(c, r, n) =
          IF rest.output > 0 THEN rest
          ELSE IF quiet.isWillClose THEN ActiveClose(c, quiet) ELSE quiet
    BY <1>2 DEF SendNonblock, SetWritable
  <2> HIDE DEF rest
  <2>3. /\ quiet \in ConnType /\ quiet.isWillClose = rest.isWillClose
        /\ quiet.output = rest.output
    BY <2>1 DEF ConnType, SetWritable
  <2> HIDE DEF quiet
  <2>4. CASE rest.output > 0
    BY <2>1, <2>2, <2>4 DEF Attentive
  <2>5. CASE ~ (rest.output > 0) /\ quiet.isWillClose
    BY <2>2, <2>3, <2>5, ActiveCloseAttends
  <2>6. CASE ~ (rest.output > 0) /\ ~ quiet.isWillClose
    BY <2>2, <2>3, <2>6 DEF Attentive
  <2>7. QED
    BY <2>4, <2>5, <2>6
<1>3. QED
  BY <1>1, <1>2

(* The handlers.                                                           *)
LEMMA HandleAttends ==
  ASSUME IInv, Apart, AllAttend, NEW c \in Conn,
         HandleClose(c) \/ HandleMessage(c) \/ HandleWrite(c)
           \/ HandleErrorAsked(c) \/ HandleErrorServed(c)
  PROVE  AllAttend'
<1> DEFINE r == conn[c]
<1>1. /\ r \in ConnType /\ ConnOK(c, r) /\ r.mem = "live" /\ Attentive(r)
  BY DEF IInv, AllAttend, HandleClose, HandleMessage, HandleWrite, HandleErrorAsked,
     HandleErrorServed, Takes, Drops
<1> HIDE DEF r
<1>2. ASSUME NEW new, conn' = [conn EXCEPT ![c] = new], Attentive(new)
      PROVE  AllAttend'
  BY <1>2 DEF IInv, AllAttend
<1>3. CASE HandleClose(c)
  <2> DEFINE marked == [r EXCEPT !.active = FALSE]
  <2>1. marked \in ConnType /\ conn' = [conn EXCEPT ![c] = CloseConnection(marked, TRUE)]
    BY <1>1, <1>3 DEF HandleClose, ConnType, r
  <2> HIDE DEF marked
  <2>2. QED
    BY <1>2, <2>1, CloseAttends
<1>4. CASE HandleMessage(c)
  <2>1. PICK new \in MessageOutcomes(c, r) : conn' = [conn EXCEPT ![c] = new]
    BY <1>4 DEF HandleMessage, r
  <2>2. QED
    BY <1>1, <1>2, <2>1, MessageAttends
<1>8. CASE HandleErrorAsked(c)
  <2>1. PICK use \in Uses : conn' = [conn EXCEPT ![c] = UserCallback(c, r, use)]
    BY <1>8 DEF HandleErrorAsked, r
  <2>2. QED
    BY <1>1, <1>2, <2>1, UserCallbackAttends
<1>5. CASE HandleErrorServed(c)
  <2>1. CASE "error" \notin port.given
    <3>1. conn' = [conn EXCEPT ![c] = [r EXCEPT !.failed = TRUE]]
      BY <1>5, <2>1 DEF HandleErrorServed, r
    <3>2. Attentive([r EXCEPT !.failed = TRUE])
      BY <1>1 DEF Attentive, ConnType
    <3>3. QED
      BY <1>2, <3>1, <3>2
  <2>2. CASE "error" \in port.given
    <3>1. PICK use \in Uses :
            LET told == UserCallback(c, r, use) IN
            IF told.mem = "freed"
            THEN conn' = [conn EXCEPT ![c] = [told EXCEPT !.dangling = TRUE]]
            ELSE \E new \in MessageOutcomes(c, told) : conn' = [conn EXCEPT ![c] = new]
      BY <1>5, <2>2 DEF HandleErrorServed, r
    <3> DEFINE told == UserCallback(c, r, use)
    <3>2. /\ told \in ConnType /\ ConnOK(c, told) /\ told.mem # "none" /\ Attentive(told)
      BY <1>1, UserCallbackKeeps, UserCallbackAttends DEF Kept, ConnOK
    <3>3. CASE told.mem = "freed"
      <4>1. conn' = [conn EXCEPT ![c] = [told EXCEPT !.dangling = TRUE]]
        BY <3>1, <3>3
      <4> HIDE DEF told
      <4>2. Attentive([told EXCEPT !.dangling = TRUE])
        BY <3>2, <3>3 DEF Attentive, ConnType
      <4>3. QED
        BY <1>2, <4>1, <4>2
    <3>4. CASE told.mem # "freed"
      <4>1. PICK new \in MessageOutcomes(c, told) : conn' = [conn EXCEPT ![c] = new]
        BY <3>1, <3>4
      <4> HIDE DEF told
      <4>2. told.mem = "live"
        BY <3>2, <3>4 DEF ConnType
      <4>3. QED
        BY <1>2, <3>2, <4>1, <4>2, MessageAttends
    <3>5. QED
      BY <3>3, <3>4
  <2>3. QED
    BY <2>1, <2>2
<1>6. CASE HandleWrite(c)
  <2>1. PICK n \in 1 .. r.output \union {-1} :
          conn' = [conn EXCEPT ![c] = SendNonblock(c, r, n)]
    BY <1>6 DEF HandleWrite, r
  <2>2. QED
    BY <1>1, <1>2, <2>1, SendNonblockAttends
<1>7. QED
  BY <1>3, <1>4, <1>5, <1>6, <1>8

(* A new connection is readable before or after its first callback.        *)
LEMMA NewAttends ==
  ASSUME IInv, Apart, AllAttend, NEW c \in Conn,
         HandleAccept(c) \/ \E connected \in BOOLEAN : CreateClientConn(c, connected)
  PROVE  AllAttend'
<1> DEFINE made == [conn[c] EXCEPT !.mem = "live"]
<1>1. made \in ConnType /\ ConnOK(c, made) /\ made.output = 0 /\ made.mem = "live"
      /\ ~ made.isWillClose
  <2>1. conn[c] \in ConnType /\ ConnOK(c, conn[c]) /\ SockOK(c, sock[c], conn[c], port)
    BY DEF IInv
  <2>2. conn[c].mem = "none"
    BY <2>1 DEF SockOK, HandleAccept, CreateClientConn
  <2>3. QED
    BY <2>1, <2>2 DEF ConnOK, ConnType
<1>2. \/ \E use \in Uses :
           LET r == LeftBy("established", UserCallback(c, made, use))
           IN  conn' = [conn EXCEPT ![c] = IF r.mem = "freed" THEN [r EXCEPT !.dangling = TRUE]
                                           ELSE SetReadable(r, TRUE)]
      \/ \E use \in Uses :
           conn' = [conn EXCEPT ![c] = UserCallback(c, SetReadable(made, TRUE), use)]
  BY DEF HandleAccept, CreateClientConn
<1> HIDE DEF made
<1>3. ASSUME NEW new, conn' = [conn EXCEPT ![c] = new], Attentive(new)
      PROVE  AllAttend'
  BY <1>3 DEF IInv, AllAttend
<1>4. ASSUME NEW r \in ConnType, ConnOK(c, r), r.mem = "live", Attentive(r)
      PROVE  Attentive(SetReadable(r, TRUE))
  <2> DEFINE open == SetReadable(r, TRUE)
  <2>1. /\ open.interest = r.interest \union {"in"} /\ open.output = r.output
        /\ open.mem = r.mem /\ open.isWillClose = r.isWillClose
    BY DEF SetReadable, ConnType
  <2> HIDE DEF open
  <2>2. "in" \in open.interest /\ (open.output > 0 => "out" \in open.interest)
    BY <1>4, <2>1 DEF Attentive
  <2>3. Attentive(open)
    BY <2>2 DEF Attentive
  <2>4. QED
    BY <2>3 DEF open
<1>5. Attentive(made)
  BY <1>1 DEF Attentive
<1>6. ASSUME NEW use \in Uses,
             conn' = [conn EXCEPT ![c] = UserCallback(c, SetReadable(made, TRUE), use)]
      PROVE  AllAttend'
  <2> DEFINE open == SetReadable(made, TRUE)
  <2>1. open \in ConnType /\ ConnOK(c, open) /\ open.mem = "live"
    BY <1>1, InterestKeeps DEF Kept, ConnOK
  <2>2. Attentive(open)
    BY <1>1, <1>4, <1>5
  <2> HIDE DEF open
  <2>3. Attentive(UserCallback(c, open, use))
    BY <2>1, <2>2, UserCallbackAttends
  <2>4. QED
    BY <1>3, <1>6, <2>3 DEF open
<1>7. ASSUME NEW use \in Uses,
             LET r == LeftBy("established", UserCallback(c, made, use))
             IN  conn' = [conn EXCEPT ![c] = IF r.mem = "freed" THEN [r EXCEPT !.dangling = TRUE]
                                             ELSE SetReadable(r, TRUE)]
      PROVE  AllAttend'
  <2> DEFINE told == UserCallback(c, made, use)
             r == LeftBy("established", told)
  <2>1. /\ told \in ConnType /\ ConnOK(c, told) /\ told.mem # "none" /\ Attentive(told)
    BY <1>1, <1>5, UserCallbackKeeps, UserCallbackAttends DEF Kept, ConnOK
  <2> HIDE DEF told
  <2>2. /\ ConnOK(c, r) /\ r \in ConnType /\ r.mem = told.mem /\ Attentive(r)
    <3>1. /\ ConnOK(c, r) /\ r.mem = told.mem /\ r.output = told.output
          /\ r.interest = told.interest /\ r.isWillClose = told.isWillClose
      BY <2>1, LeftKeeps
    <3> HIDE DEF r
    <3>2. QED
      BY <2>1, <3>1 DEF Attentive, ConnOK
  <2>3. conn' = [conn EXCEPT ![c] = IF r.mem = "freed" THEN [r EXCEPT !.dangling = TRUE]
                                    ELSE SetReadable(r, TRUE)]
    BY <1>7 DEF told
  <2> HIDE DEF r
  <2>4. CASE r.mem = "freed"
    <3>1. Attentive([r EXCEPT !.dangling = TRUE])
      BY <2>2, <2>4 DEF Attentive, ConnType
    <3>2. QED
      BY <1>3, <2>3, <2>4, <3>1
  <2>5. CASE r.mem # "freed"
    <3>1. r.mem = "live"
      BY <2>1, <2>2, <2>5 DEF ConnType
    <3>2. Attentive(SetReadable(r, TRUE))
      BY <1>4, <2>2, <3>1
    <3>3. QED
      BY <1>3, <2>3, <2>5, <3>2
  <2>6. QED
    BY <2>4, <2>5
<1>8. QED
  BY <1>2, <1>6, <1>7

(* For any number of connections no end of one is missed.                  *)
THEOREM EndCorrect ==
  ASSUME Apart
  PROVE  Spec => []EndIsHeard
<1>1. Init => AllAttend
  BY DEF Init, AllAttend, Attentive, NoConn
<1>2. IInv /\ AllAttend /\ [Next]_vars => AllAttend'
  <2> SUFFICES ASSUME IInv, AllAttend, [Next]_vars PROVE AllAttend'
    OBVIOUS
  <2>1. ASSUME NEW c \in Conn, TimedTask(c) PROVE AllAttend'
    <3>1. PICK use \in Uses :
            conn' = [conn EXCEPT ![c] = LeftBy("task", UserCallback(c, conn[c], use))]
      BY <2>1 DEF TimedTask
    <3> DEFINE told == UserCallback(c, conn[c], use)
               r == LeftBy("task", told)
    <3>2. conn[c] \in ConnType /\ ConnOK(c, conn[c]) /\ conn[c].mem = "live"
          /\ Attentive(conn[c])
      BY <2>1 DEF IInv, TimedTask, AllAttend
    <3>3. /\ ConnOK(c, told) /\ told.mem # "none" /\ Attentive(told)
      BY <3>2, UserCallbackKeeps, UserCallbackAttends DEF Kept
    <3> HIDE DEF told
    <3>4. /\ r.mem = told.mem /\ r.output = told.output
          /\ r.interest = told.interest /\ r.isWillClose = told.isWillClose
      BY <3>3, LeftKeeps
    <3>5. conn' = [conn EXCEPT ![c] = r]
      BY <3>1 DEF told
    <3> HIDE DEF r
    <3>6. Attentive(r)
      BY <3>3, <3>4 DEF Attentive
    <3>7. QED
      BY <3>5, <3>6 DEF IInv, AllAttend
  <2>5. ASSUME NEW c \in Conn, HandleDeleted(c) PROVE AllAttend'
    <3>1. conn' = [conn EXCEPT ![c] = [conn[c] EXCEPT !.dangling = TRUE]]
      BY <2>5 DEF HandleDeleted
    <3>2. Attentive([conn[c] EXCEPT !.dangling = TRUE])
      BY <2>5 DEF HandleDeleted, Attentive, IInv, ConnType
    <3>3. QED
      BY <3>1, <3>2 DEF IInv, AllAttend
  <2>2. ASSUME Poll PROVE AllAttend'
    <3>1. ASSUME NEW c \in Conn PROVE Attentive(conn'[c])
      <4> DEFINE r == [conn[c] EXCEPT !.revents = Revents(c)]
      <4>1. conn'[c] = r /\ conn[c] \in ConnType
        BY <2>2 DEF Poll, IInv
      <4>2. /\ r.mem = conn[c].mem /\ r.interest = conn[c].interest
            /\ r.isWillClose = conn[c].isWillClose /\ r.output = conn[c].output
        BY <4>1 DEF ConnType
      <4>3. Attentive(conn[c])
        BY DEF AllAttend
      <4> HIDE DEF r
      <4>4. QED
        BY <4>1, <4>2, <4>3 DEF Attentive
    <3>2. QED
      BY <3>1 DEF AllAttend
  <2>3. ASSUME \/ CreateServerPort \/ UNCHANGED vars
               \/ \E c \in Conn : \/ PeerConnects(c) \/ PeerSends(c) \/ PeerCloses(c)
                                  \/ PeerReads(c) \/ PeerAborts(c)
        PROVE  AllAttend'
    <3>1. conn' = conn
      BY <2>3 DEF CreateServerPort, vars, PeerConnects, PeerSends, PeerCloses, PeerReads,
         PeerAborts, Outside
    <3>2. QED
      BY <3>1 DEF AllAttend
  <2>4. QED
    BY <2>1, <2>2, <2>3, <2>5, HandleAttends, NewAttends DEF Next, LoopStep
<1>3. ASSUME IInv, AllAttend PROVE EndIsHeard
  <2> SUFFICES ASSUME NEW c \in Conn, conn[c].mem = "live", sock[c].stage = "connected",
                      sock[c].eof \/ sock[c].down, c \notin Ready, ~ CloseForgotten(c)
               PROVE  conn[c].isWillClose /\ conn[c].output > 0 /\ ~ sock[c].space
    BY DEF EndIsHeard
  <2>1. "in" \notin conn[c].interest
    BY DEF Ready, Revents
  <2>2. conn[c].isWillClose
    BY <2>1 DEF CloseForgotten
  <2>3. Attentive(conn[c])
    BY <1>3 DEF AllAttend
  <2>4. conn[c].output > 0 /\ "out" \in conn[c].interest
    BY <2>1, <2>2, <2>3 DEF Attentive
  <2>5. ~ sock[c].space
    BY <2>4 DEF Ready, Revents
  <2>6. QED
    BY <2>2, <2>4, <2>5
<1>4. QED
  BY <1>1, <1>2, <1>3, InvAlways, PTL DEF Spec
=============================================================================
