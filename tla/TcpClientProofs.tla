---------------------------- MODULE TcpClientProofs ----------------------------
(***************************************************************************)
(* What TLAPS proves of TcpClient, for every set of connections, every     *)
(* message callback, with timed tasks and resets or without, and every     *)
(* bound on the output.                                                    *)
(***************************************************************************)
EXTENDS TcpClient, TLAPS

-----------------------------------------------------------------------------
(* The inductive invariant, in parts.                                      *)

(* A connection r whose socket is up or not.  The write callback is the    *)
(* one of connect() only until the user hears of the connection, or while  *)
(* nothing is to be written.                                               *)
ConnBase(r, up) ==
  /\ r \in ConnType
  /\ r.mem = "none" => r = NoConn
  /\ r.mem = "live" => r.registered /\ r.closeCalls = 0 /\ r.state # "CLOSED"
  /\ r.mem = "freed" => ~ r.registered /\ r.closeCalls = 1 /\ r.output = 0
  /\ r.output > 0 \/ r.estaCalls > 0 => up
  /\ r.state = "ESTABLISHED" => r.estaCalls = 1
  /\ r.writeCallback = "connect" /\ "out" \in r.interest => r.estaCalls = 0

(* The write callback of an established connection that is writable is the *)
(* one of send(), and nobody has sent before.                              *)
HandedOver(r) ==
  /\ r.state = "ESTABLISHED" /\ "out" \in r.interest => r.writeCallback = "send"
  /\ r.state = "BLANK" => r.output = 0

Armed(r) ==
  /\ HandedOver(r)
  /\ r.state = "ESTABLISHED" /\ r.output > 0 => "out" \in r.interest

(* The socket s of r: the error of one that was refused is only taken      *)
(* off it with its connection.                                             *)
SockOK(s, r) ==
  /\ s \in SockType
  /\ r.mem = "none" => s = NoSock
  /\ s.stage = "none" => r.mem = "none"
  /\ s.inbox > 0 => s.stage = "connected"
  /\ s.stage = "refused" => s.error \/ r.mem = "freed"

Up(s) == s.stage \in {"connected", "failed"}

ConnsOK ==
  \A c \in Conn :
    /\ ConnBase(conn[c], Up(sock[c]))
    /\ AskState => Armed(conn[c])
    /\ SockOK(sock[c], conn[c])

(* What a batch holds was asked for and is still there: only the handler   *)
(* of an event takes interest away.                                        *)
Batched(s, r) ==
  /\ r.mem = "live"
  /\ s.stage \in {"connected", "refused", "failed"}
  /\ r.revents \intersect {"in", "out"} \subseteq r.interest

BatchOK == \A c \in batch : Batched(sock[c], conn[c])

IInv == TypeOK /\ ConnsOK /\ BatchOK

-----------------------------------------------------------------------------
(* What the methods of a live connection r, of a socket that is up or not, *)
(* make of it.                                                             *)

(* send(): the output is armed, if the write callback was handed over.     *)
LEMMA SendKeeps ==
  ASSUME NEW r, NEW up, NEW isLast \in BOOLEAN,
         ConnBase(r, up), r.mem = "live", r.output > 0
  PROVE  /\ ConnBase(Send(r, isLast), up)
         /\ HandedOver(r) => Armed(Send(r, isLast))
         /\ Send(r, isLast).mem = "live"
<1>1. r \in ConnType
  BY DEF ConnBase
<1> DEFINE last == [r EXCEPT !.isWillClose = isLast]
           set  == [last EXCEPT !.writeCallback = "send"]
           sent == [set EXCEPT !.interest = @ \union {"out"}]
<1>last. last \in ConnType
  BY <1>1 DEF ConnType
<1>set. set \in ConnType
  BY <1>1 DEF ConnType
<1>sent. sent \in ConnType
  <2> HIDE DEF set
  <2>1. QED
    BY <1>set DEF ConnType
<1>2. CASE "out" \in r.interest
  <2>1. Send(r, isLast) = last
    BY <1>2 DEF Send
  <2>2. /\ ConnBase(last, up)
        /\ HandedOver(r) => Armed(last)
        /\ last.mem = "live"
    BY <1>1, <1>2, <1>last DEF ConnBase, HandedOver, Armed, ConnType
  <2>3. QED
    BY <2>1, <2>2
<1>3. CASE "out" \notin r.interest
  <2>1. Send(r, isLast) = sent
    BY <1>1, <1>3 DEF Send, SetWritable, ConnType
  <2>2. /\ ConnBase(sent, up)
        /\ HandedOver(r) => Armed(sent)
        /\ sent.mem = "live"
    BY <1>1, <1>3, <1>sent DEF ConnBase, HandedOver, Armed, ConnType
  <2>3. QED
    BY <2>1, <2>2
<1>4. QED
  BY <1>2, <1>3

(* One more byte of output on a socket that is up, and its send().         *)
LEMMA SendBytesKeeps ==
  ASSUME NEW r, NEW up, ConnBase(r, up), up, r.mem = "live", r.output < MaxOut
  PROVE  /\ ConnBase(SendBytes(r), up)
         /\ Armed(r) /\ r.state = "ESTABLISHED" => Armed(SendBytes(r))
         /\ SendBytes(r).mem = "live"
<1> DEFINE more == [r EXCEPT !.output = @ + 1]
<1>1. /\ ConnBase(more, up)
      /\ more.mem = "live" /\ more.output > 0
      /\ Armed(r) /\ r.state = "ESTABLISHED" => HandedOver(more)
  BY TcpClientAssumption DEF ConnBase, ConnType, NoConn, HandedOver, Armed
<1>2. SendBytes(r) = Send(more, FALSE)
  BY DEF SendBytes
<1> HIDE DEF more
<1>3. QED
  BY <1>1, <1>2, SendKeeps

(* A connection without output is destroyed.                               *)
LEMMA DestroyKeeps ==
  ASSUME NEW r, NEW up, ConnBase(r, up), r.mem = "live", r.output = 0
  PROVE  /\ ConnBase(Destroy(r), up)
         /\ Armed(Destroy(r))
         /\ Destroy(r).mem = "freed"
<1>1. r \in ConnType /\ r.closeCalls = 0
  BY DEF ConnBase
<1> DEFINE told == [r EXCEPT !.closeCalls = 1]
           shut == [told EXCEPT !.state = "CLOSED"]
           lost == [shut EXCEPT !.registered = FALSE]
           gone == [lost EXCEPT !.mem = "freed"]
<1>2. Destroy(r) = gone
  BY <1>1 DEF Destroy, ConnType
<1>3. told \in ConnType
  BY <1>1 DEF ConnType
<1>shut. shut \in ConnType
  <2> HIDE DEF told
  <2>1. QED
    BY <1>3 DEF ConnType
<1>lost. lost \in ConnType
  <2> HIDE DEF shut
  <2>1. QED
    BY <1>shut DEF ConnType
<1>4. gone \in ConnType
  <2> HIDE DEF lost
  <2>1. QED
    BY <1>lost DEF ConnType
<1>5. /\ gone.mem = "freed" /\ gone.registered = FALSE
      /\ gone.closeCalls = 1 /\ gone.state = "CLOSED"
      /\ gone.output = r.output /\ gone.estaCalls = r.estaCalls
      /\ gone.interest = r.interest /\ gone.writeCallback = r.writeCallback
  BY <1>1 DEF ConnType
<1>6. QED
  BY <1>2, <1>4, <1>5 DEF ConnBase, Armed, HandedOver

(* closeConnection.                                                        *)
LEMMA CloseKeeps ==
  ASSUME NEW r, NEW up, ConnBase(r, up), r.mem = "live"
  PROVE  /\ ConnBase(CloseConnection(r), up)
         /\ Armed(r) => Armed(CloseConnection(r))
         /\ CloseConnection(r).mem # "none"
         /\ r.output = 0 => CloseConnection(r).mem = "freed"
<1> DEFINE deaf == SetReadable(r, FALSE)
<1>1. CASE r.output > 0
  <2>1. /\ ConnBase(deaf, up) /\ deaf.mem = "live" /\ deaf.output > 0
        /\ Armed(r) => HandedOver(deaf)
    BY <1>1 DEF ConnBase, ConnType, NoConn, SetReadable, Armed, HandedOver
  <2>2. CloseConnection(r) = Send(deaf, TRUE)
    BY <1>1 DEF CloseConnection
  <2> HIDE DEF deaf
  <2>3. /\ ConnBase(Send(deaf, TRUE), up)
        /\ HandedOver(deaf) => Armed(Send(deaf, TRUE))
        /\ Send(deaf, TRUE).mem = "live"
    BY <2>1, SendKeeps
  <2>4. Armed(r) => Armed(CloseConnection(r))
    BY Zenon, <2>1, <2>2, <2>3
  <2>5. CloseConnection(r).mem = "live" /\ r.output # 0
    <3>1. r.output # 0
      BY <1>1
    <3>2. QED
      BY Zenon, <2>2, <2>3, <3>1
  <2>6. QED
    BY <2>2, <2>3, <2>4, <2>5
<1>2. CASE ~ (r.output > 0)
  <2>1. CloseConnection(r) = Destroy(r)
    BY <1>2 DEF CloseConnection
  <2>2. r.output = 0
    BY <1>2, TcpClientAssumption DEF ConnBase, ConnType
  <2>3. QED
    BY <2>1, <2>2, DestroyKeeps
<1>3. QED
  BY <1>1, <1>2

(* The message callback, which sends on sockets that are up only.          *)
LEMMA UserCallbackKeeps ==
  ASSUME NEW r, NEW up, NEW use \in {"none", "send", "close", "reply"},
         ConnBase(r, up), r.mem = "live",
         use \in {"send", "reply"} => up /\ r.output < MaxOut
  PROVE  /\ ConnBase(UserCallback(r, use), up)
         /\ /\ Armed(r)
            /\ use \in {"send", "reply"} => r.state = "ESTABLISHED"
            => Armed(UserCallback(r, use))
         /\ UserCallback(r, use).mem # "none"
<1> DEFINE said == SendBytes(r)
<1>none. CASE use = "none"
  BY <1>none DEF UserCallback
<1>close. CASE use = "close"
  <2>1. UserCallback(r, use) = CloseConnection(r)
    BY <1>close DEF UserCallback
  <2>2. QED
    BY <2>1, CloseKeeps
<1>said. ASSUME use \in {"send", "reply"}
         PROVE  /\ ConnBase(said, up) /\ said.mem = "live"
                /\ Armed(r) /\ r.state = "ESTABLISHED" => Armed(said)
  BY <1>said, SendBytesKeeps
<1>send. CASE use = "send"
  <2>1. UserCallback(r, use) = said
    BY <1>send DEF UserCallback
  <2> HIDE DEF said
  <2>2. QED
    BY <1>send, <1>said, <2>1
<1>reply. CASE use = "reply"
  <2>1. UserCallback(r, use) = CloseConnection(said)
    BY <1>reply DEF UserCallback
  <2> HIDE DEF said
  <2>2. /\ ConnBase(CloseConnection(said), up)
        /\ Armed(said) => Armed(CloseConnection(said))
        /\ CloseConnection(said).mem # "none"
    BY <1>reply, <1>said, CloseKeeps
  <2>3. QED
    BY <1>reply, <1>said, <2>1, <2>2
<1>1. QED
  BY <1>none, <1>close, <1>send, <1>reply

(* The end of connect(), on a socket that is up.                           *)
LEMMA ConnectedKeeps ==
  ASSUME NEW r, NEW up, ConnBase(r, up), up, r.mem = "live", r.estaCalls = 0
  PROVE  /\ ConnBase(Connected(r), up)
         /\ Armed(r) => Armed(Connected(r))
         /\ Connected(r).mem = "live"
<1>1. r \in ConnType /\ r.state = "BLANK"
  BY DEF ConnBase, ConnType
<1> DEFINE told == [r EXCEPT !.estaCalls = 1]
           up2  == [told EXCEPT !.state = "ESTABLISHED"]
           done == [up2 EXCEPT !.interest = @ \ {"out"}]
<1>2. Connected(r) = done
  BY <1>1 DEF Connected, SetWritable, ConnType
<1>3. told \in ConnType
  BY <1>1 DEF ConnType
<1>4. up2 \in ConnType
  <2> HIDE DEF told
  <2>1. QED
    BY <1>3 DEF ConnType
<1>5. done \in ConnType
  <2> HIDE DEF up2
  <2>1. QED
    BY <1>4 DEF ConnType
<1>6. /\ done.mem = "live" /\ done.state = "ESTABLISHED" /\ done.estaCalls = 1
      /\ done.registered = r.registered /\ done.closeCalls = r.closeCalls
      /\ done.output = r.output /\ "out" \notin done.interest
  BY <1>1 DEF ConnType
<1>7. QED
  BY <1>1, <1>2, <1>5, <1>6 DEF ConnBase, Armed, HandedOver

(* The write of a part of the output, by the write callback of send().     *)
LEMMA SendNonblockKeeps ==
  ASSUME NEW r, NEW up, NEW n \in 1 .. r.output, ConnBase(r, up), r.mem = "live"
  PROVE  /\ ConnBase(SendNonblock(r, n), up)
         /\ Armed(r) => Armed(SendNonblock(r, n))
         /\ SendNonblock(r, n).mem # "none"
<1> DEFINE rest  == [r EXCEPT !.output = @ - n]
           quiet == [rest EXCEPT !.interest = @ \ {"out"}]
<1>1. r \in ConnType /\ r.output > 0
  BY TcpClientAssumption DEF ConnBase, ConnType
<1>2. rest \in ConnType
  BY <1>1, TcpClientAssumption DEF ConnType
<1>3. /\ ConnBase(rest, up) /\ rest.mem = "live"
      /\ Armed(r) => Armed(rest)
  BY <1>1, <1>2 DEF ConnBase, Armed, HandedOver, ConnType
<1>4. quiet \in ConnType
  <2> HIDE DEF rest
  <2>1. QED
    BY <1>2 DEF ConnType
<1>5. /\ ConnBase(quiet, up) /\ quiet.mem = "live"
      /\ rest.output = 0 /\ Armed(r) => Armed(quiet)
  <2> HIDE DEF rest
  <2>1. QED
    BY <1>2, <1>3, <1>4 DEF ConnBase, Armed, HandedOver, ConnType
<1>6. SendNonblock(r, n) =
        IF rest.output > 0 THEN rest
        ELSE IF quiet.isWillClose THEN CloseConnection(quiet) ELSE quiet
  BY DEF SendNonblock, SetWritable
<1>7. /\ ConnBase(CloseConnection(quiet), up)
      /\ Armed(quiet) => Armed(CloseConnection(quiet))
      /\ CloseConnection(quiet).mem # "none"
  <2> HIDE DEF quiet
  <2>1. QED
    BY <1>5, CloseKeeps
<1>8. rest.output > 0 \/ rest.output = 0
  <2> HIDE DEF rest
  <2>1. QED
    BY <1>2, TcpClientAssumption DEF ConnType
<1> HIDE DEF quiet
<1> HIDE DEF rest
<1>9. QED
  BY <1>3, <1>5, <1>6, <1>7, <1>8

-----------------------------------------------------------------------------
(* The steps.                                                              *)

LEMMA InvInitially == Init => IInv
<1>1. SUFFICES ASSUME Init PROVE IInv
  OBVIOUS
<1>2. NoSock \in SockType
  <2>1. 0 \in 0 .. 1
    OBVIOUS
  <2>2. QED
    BY Zenon, <2>1 DEF NoSock, SockType
<1>3. NoConn \in ConnType
  <2>1. 0 \in 0 .. 1 /\ 0 \in 0 .. MaxOut
    BY TcpClientAssumption
  <2>2. {} \subseteq {"in", "out"} /\ {} \subseteq {"in", "out", "err"}
    OBVIOUS
  <2>3. QED
    BY Zenon, <2>1, <2>2 DEF NoConn, ConnType
<1>4. TypeOK
  BY <1>1, <1>2, <1>3 DEF Init, TypeOK
<1>5. /\ ConnBase(NoConn, Up(NoSock)) /\ Armed(NoConn)
      /\ SockOK(NoSock, NoConn)
  BY <1>2, <1>3 DEF ConnBase, Armed, HandedOver, SockOK, Up, NoSock, NoConn
<1>6. ConnsOK /\ BatchOK
  BY <1>1, <1>5 DEF Init, ConnsOK, BatchOK
<1>7. QED
  BY <1>4, <1>6 DEF IInv

(* A step that changes one socket and one connection, and the batch at     *)
(* most by taking its event.                                               *)
LEMMA OneConnection ==
  ASSUME IInv, NEW c \in Conn, NEW s, NEW r,
         sock' = [sock EXCEPT ![c] = s], conn' = [conn EXCEPT ![c] = r],
         ConnBase(r, Up(s)), AskState => Armed(r), SockOK(s, r),
         batch' \subseteq batch, c \in batch' => Batched(s, r)
  PROVE  IInv'
<1>1. TypeOK /\ s \in SockType /\ r \in ConnType
  BY DEF IInv, ConnBase, SockOK
<1>2. /\ sock'[c] = s /\ conn'[c] = r
      /\ \A d \in Conn \ {c} : sock'[d] = sock[d] /\ conn'[d] = conn[d]
  BY <1>1 DEF TypeOK
<1>3. TypeOK'
  BY <1>1 DEF TypeOK
<1>4. ConnsOK'
  BY <1>2 DEF IInv, ConnsOK
<1>5. BatchOK'
  BY <1>1, <1>2 DEF IInv, BatchOK, TypeOK
<1>6. QED
  BY <1>3, <1>4, <1>5 DEF IInv

(* What the invariant says of one connection.                              *)
LEMMA InvOf ==
  ASSUME IInv, NEW c \in Conn
  PROVE  /\ sock[c] \in SockType /\ conn[c] \in ConnType
         /\ ConnBase(conn[c], Up(sock[c]))
         /\ AskState => Armed(conn[c])
         /\ SockOK(sock[c], conn[c])
         /\ c \in batch => Batched(sock[c], conn[c])
  BY DEF IInv, TypeOK, ConnsOK, BatchOK

(* Sockets that differ in one flag.                                        *)
LEMMA SockFlags ==
  ASSUME NEW s \in SockType, NEW b \in BOOLEAN
  PROVE  /\ [s EXCEPT !.eof = b] \in SockType
         /\ [s EXCEPT !.down = b] \in SockType
         /\ [s EXCEPT !.error = b] \in SockType
         /\ [s EXCEPT !.space = b] \in SockType
<1>eof. [s EXCEPT !.eof = b] \in SockType
  BY DEF SockType
<1>down. [s EXCEPT !.down = b] \in SockType
  BY DEF SockType
<1>error. [s EXCEPT !.error = b] \in SockType
  BY DEF SockType
<1>space. [s EXCEPT !.space = b] \in SockType
  BY DEF SockType
<1>1. QED
  BY <1>eof, <1>down, <1>error, <1>space

(* The peer and the kernel.                                                *)
LEMMA PeerKeeps ==
  ASSUME IInv, NEW c \in Conn,
         PeerAccepts(c) \/ PeerRefuses(c) \/ PeerSends(c) \/ PeerCloses(c)
           \/ PeerReads(c) \/ PeerAborts(c)
  PROVE  IInv'
<1>1. PICK s : /\ Outside(c, s) /\ s \in SockType
               /\ s.stage = sock[c].stage \/ sock[c].stage = "connecting"
               /\ s.inbox > 0 => s.stage = "connected"
               /\ s.stage = "refused" => s.error
               /\ s.stage # "none"
  <2> DEFINE old == sock[c]
  <2>1. /\ old \in SockType
        /\ old.inbox > 0 => old.stage = "connected"
    BY InvOf DEF SockOK
  <2>accepts. CASE PeerAccepts(c)
    BY <2>1, <2>accepts DEF PeerAccepts, SockType
  <2>refuses. CASE PeerRefuses(c)
    <3> DEFINE refused == [old EXCEPT !.stage = "refused"]
               told == [refused EXCEPT !.down = TRUE]
               new  == [told EXCEPT !.error = TRUE]
    <3>1. refused \in SockType
      BY <2>1 DEF SockType
    <3>2. told \in SockType
      BY <3>1, SockFlags
    <3>3. new \in SockType
      BY <3>2, SockFlags
    <3>4. Outside(c, new) /\ old.stage = "connecting"
      BY <2>1, <2>refuses DEF PeerRefuses, SockType
    <3>5. new.stage = "refused" /\ new.error /\ new.inbox = old.inbox
      BY <2>1 DEF SockType
    <3>6. QED
      BY <2>1, <3>3, <3>4, <3>5
  <2>sends. CASE PeerSends(c)
    BY <2>1, <2>sends DEF PeerSends, SockType
  <2>closes. CASE PeerCloses(c)
    <3> DEFINE new == [old EXCEPT !.eof = TRUE]
    <3>1. new \in SockType
      BY <2>1, SockFlags
    <3>2. Outside(c, new) /\ new.stage = "connected" /\ old.stage = "connected"
      BY <2>1, <2>closes DEF PeerCloses, SockType
    <3>3. QED
      BY <3>1, <3>2
  <2>reads. CASE PeerReads(c)
    <3> DEFINE new == [old EXCEPT !.space = TRUE]
    <3>1. new \in SockType
      BY <2>1, SockFlags
    <3>2. Outside(c, new) /\ new.stage = "connected" /\ old.stage = "connected"
      BY <2>1, <2>reads DEF PeerReads, SockType
    <3>3. QED
      BY <3>1, <3>2
  <2>aborts. CASE PeerAborts(c)
    <3>1. PICK left \in {0, old.inbox} :
            Outside(c, [old EXCEPT !.down = TRUE, !.error = TRUE, !.inbox = left])
      BY <2>aborts DEF PeerAborts
    <3> DEFINE down == [old EXCEPT !.down = TRUE]
               told == [down EXCEPT !.error = TRUE]
               new  == [told EXCEPT !.inbox = left]
    <3>2. down \in SockType
      BY <2>1, SockFlags
    <3>3. told \in SockType
      BY <3>2, SockFlags
    <3>4. left \in 0 .. 1
      BY <2>1 DEF SockType
    <3>5. new \in SockType
      <4> HIDE DEF told
      <4>1. QED
        BY <3>3, <3>4 DEF SockType
    <3>6. new = [old EXCEPT !.down = TRUE, !.error = TRUE, !.inbox = left]
      BY <2>1 DEF SockType
    <3>7. new.stage = "connected" /\ old.stage = "connected"
      BY <2>1, <2>aborts DEF PeerAborts, SockType
    <3>8. QED
      BY <3>1, <3>5, <3>6, <3>7
  <2>2. QED
    BY <2>accepts, <2>refuses, <2>sends, <2>closes, <2>reads, <2>aborts
<1>2. conn' = [conn EXCEPT ![c] = conn[c]] /\ conn[c].mem = "live"
  BY <1>1 DEF Outside, IInv, TypeOK
<1>3. ConnBase(conn[c], Up(s))
  BY <1>1, InvOf DEF ConnBase, Up
<1>4. SockOK(s, conn[c]) /\ (c \in batch => Batched(s, conn[c]))
  BY <1>1, <1>2, InvOf DEF SockOK, Batched
<1>5. QED
  BY <1>1, <1>2, <1>3, <1>4, InvOf, OneConnection DEF Outside

(* connect(): nothing of the connection exists yet.                        *)
LEMMA ConnectKeeps ==
  ASSUME IInv, NEW c \in Conn, Connect(c)
  PROVE  IInv'
<1>s. PICK stage \in {"connecting", "failed"} : sock' = [sock EXCEPT ![c].stage = stage]
  BY DEF Connect
<1> DEFINE s    == [NoSock EXCEPT !.stage = stage]
           live == [NoConn EXCEPT !.mem = "live"]
           told == [live EXCEPT !.registered = TRUE]
           both == [told EXCEPT !.interest = {"in", "out"}]
           r    == [both EXCEPT !.writeCallback = "connect"]
<1>1. sock[c] = NoSock /\ conn[c] = NoConn /\ c \notin batch
  BY InvOf DEF Connect, ConnBase, SockOK, Batched
<1>2. NoSock \in SockType /\ NoConn \in ConnType
  BY <1>1, InvOf
<1>3. s \in SockType
  BY <1>2 DEF SockType
<1>4. live \in ConnType
  BY <1>2 DEF ConnType
<1>5. told \in ConnType
  <2> HIDE DEF live
  <2>1. QED
    BY <1>4 DEF ConnType
<1>6. both \in ConnType
  <2> HIDE DEF told
  <2>1. QED
    BY <1>5 DEF ConnType
<1>7. r \in ConnType
  <2> HIDE DEF both
  <2>1. QED
    BY <1>6 DEF ConnType
<1>8. /\ r.mem = "live" /\ r.registered /\ r.closeCalls = 0 /\ r.state = "BLANK"
      /\ r.output = 0 /\ r.estaCalls = 0
      /\ s.stage = stage /\ s.inbox = 0
  BY DEF NoConn, NoSock
<1>9. ConnBase(r, Up(s)) /\ Armed(r) /\ SockOK(s, r)
  <2> HIDE DEF r
  <2> HIDE DEF s
  <2>1. QED
    BY <1>3, <1>7, <1>8 DEF ConnBase, Armed, HandedOver, SockOK
<1>10. sock' = [sock EXCEPT ![c] = s]
  BY <1>s, <1>1
<1>11. conn' = [conn EXCEPT ![c] = r]
  BY <1>1 DEF Connect, IInv, TypeOK
<1>12. batch' = batch
  BY DEF Connect
<1> HIDE DEF r
<1> HIDE DEF s
<1>13. QED
  BY <1>1, <1>9, <1>10, <1>11, <1>12, OneConnection

(* Poll: only live connections are registered, with their connect(2) over. *)
LEMMA PollKeeps ==
  ASSUME IInv, Poll
  PROVE  IInv'
<1> DEFINE new(c) == [conn[c] EXCEPT !.revents = Revents(c)]
<1>1. ASSUME NEW c \in Ready
      PROVE  /\ new(c) \in ConnType
             /\ ConnBase(new(c), Up(sock[c]))
             /\ AskState => Armed(new(c))
             /\ SockOK(sock[c], new(c))
             /\ Batched(sock[c], new(c))
  <2> DEFINE old == conn[c]
  <2>1. /\ c \in Conn /\ old.registered
        /\ Revents(c) \intersect {"in", "out"} # {}
    BY DEF Ready
  <2>2. /\ old \in ConnType /\ sock[c] \in SockType
        /\ ConnBase(old, Up(sock[c])) /\ SockOK(sock[c], old)
        /\ AskState => Armed(old)
    BY <2>1, InvOf
  <2>3. old.mem = "live"
    BY <2>1, <2>2 DEF ConnBase, ConnType, NoConn
  <2>4. Revents(c) \in SUBSET {"in", "out", "err"}
    BY <2>2 DEF Revents, ConnType
  <2>5. Revents(c) \intersect {"in", "out"} \subseteq old.interest
    BY DEF Revents
  <2>6. sock[c].stage \in {"connected", "refused", "failed"}
    BY <2>1, <2>2, <2>3 DEF Revents, SockType, SockOK
  <2> HIDE DEF old
  <2>7. [old EXCEPT !.revents = Revents(c)] \in ConnType
    BY <2>2, <2>4 DEF ConnType
  <2>8. new(c) = [old EXCEPT !.revents = Revents(c)]
    BY DEF old
  <2>9. ConnBase(new(c), Up(sock[c])) /\ (AskState => Armed(new(c)))
    BY <2>2, <2>3, <2>7, <2>8 DEF ConnBase, Armed, HandedOver, ConnType
  <2>10. SockOK(sock[c], new(c)) /\ Batched(sock[c], new(c))
    BY <2>2, <2>3, <2>5, <2>6, <2>8 DEF SockOK, Batched, ConnType
  <2>11. QED
    BY <2>7, <2>8, <2>9, <2>10
<1>2. /\ sock' = sock /\ batch' = Ready /\ Ready \subseteq Conn
      /\ conn' = [c \in Conn |-> IF c \in Ready THEN new(c) ELSE conn[c]]
  BY DEF Poll, Ready
<1> HIDE DEF new
<1>3. \A c \in Conn : conn'[c] = IF c \in Ready THEN new(c) ELSE conn[c]
  BY <1>2
<1>4. TypeOK'
  BY <1>1, <1>2 DEF IInv, TypeOK
<1>5. ConnsOK'
  BY <1>1, <1>2, <1>3 DEF IInv, ConnsOK
<1>6. BatchOK'
  BY <1>1, <1>2, <1>3 DEF BatchOK
<1>7. QED
  BY <1>4, <1>5, <1>6 DEF IInv

(* The end of the stream: closeConnection.  A connection that was refused  *)
(* has nothing to write.                                                   *)
LEMMA HandleCloseKeeps ==
  ASSUME IInv, NEW c \in Conn, HandleClose(c)
  PROVE  IInv'
<1> DEFINE s == [sock[c] EXCEPT !.error = FALSE]
           r == CloseConnection(conn[c])
<1>1. /\ conn[c].mem = "live" /\ ConnBase(conn[c], Up(sock[c]))
      /\ SockOK(sock[c], conn[c]) /\ sock[c] \in SockType
      /\ AskState => Armed(conn[c])
      /\ sock[c].inbox = 0
  BY InvOf DEF HandleClose, Takes, Batched
<1>2. /\ s \in SockType /\ s.stage = sock[c].stage /\ s.inbox = 0
  <2>1. s \in SockType
    BY <1>1, SockFlags
  <2>2. s.stage = sock[c].stage /\ s.inbox = sock[c].inbox
    BY <1>1 DEF SockType
  <2>3. QED
    BY <1>1, <2>1, <2>2
<1>3. /\ ConnBase(r, Up(sock[c])) /\ (Armed(conn[c]) => Armed(r))
      /\ r.mem # "none"
      /\ conn[c].output = 0 => r.mem = "freed"
  BY <1>1, CloseKeeps
<1>4. sock[c].stage = "refused" => conn[c].output = 0
  BY <1>1, TcpClientAssumption DEF ConnBase, Up, ConnType
<1>5. sock[c].stage # "none"
  BY <1>1 DEF SockOK
<1>6. /\ sock' = [sock EXCEPT ![c] = s] /\ conn' = [conn EXCEPT ![c] = r]
      /\ batch' = batch \ {c}
  BY DEF HandleClose, Takes
<1> HIDE DEF s
<1> HIDE DEF r
<1>7. SockOK(s, r)
  BY <1>2, <1>3, <1>4, <1>5 DEF SockOK
<1>8. ConnBase(r, Up(s)) /\ (AskState => Armed(r))
  BY <1>1, <1>2, <1>3 DEF Up
<1>9. QED
  BY <1>6, <1>7, <1>8, OneConnection

(* The message callback, on a socket with bytes to read.                   *)
LEMMA HandleMessageKeeps ==
  ASSUME IInv, NEW c \in Conn, HandleMessage(c)
  PROVE  IInv'
<1> DEFINE s == [sock[c] EXCEPT !.inbox = 0]
           old == conn[c]
<1>1. PICK use \in Use \union {"none"} :
        /\ use \in {"send", "reply"} =>
             old.output < MaxOut /\ (AskState => old.state = "ESTABLISHED")
        /\ conn' = [conn EXCEPT ![c] = UserCallback(conn[c], use)]
  BY DEF HandleMessage
<1> DEFINE r == UserCallback(conn[c], use)
<1>2. /\ old.mem = "live" /\ ConnBase(old, Up(sock[c]))
      /\ SockOK(sock[c], old) /\ sock[c] \in SockType
      /\ AskState => Armed(old)
      /\ sock[c].stage = "connected"
  BY InvOf DEF HandleMessage, Takes, Batched, SockOK
<1>3. s \in SockType /\ s.stage = "connected" /\ s.inbox = 0
  BY <1>2 DEF SockType
<1>4. use \in {"none", "send", "close", "reply"}
  BY TcpClientAssumption
<1>5. /\ ConnBase(r, Up(sock[c]))
      /\ /\ Armed(old)
         /\ use \in {"send", "reply"} => old.state = "ESTABLISHED"
         => Armed(r)
      /\ r.mem # "none"
  BY <1>1, <1>2, <1>4, UserCallbackKeeps DEF Up
<1>6. /\ sock' = [sock EXCEPT ![c] = s] /\ conn' = [conn EXCEPT ![c] = r]
      /\ batch' = batch \ {c}
  BY <1>1 DEF HandleMessage, Takes
<1> HIDE DEF s
<1> HIDE DEF r
<1>7. SockOK(s, r)
  BY <1>3, <1>5 DEF SockOK
<1>8. ConnBase(r, Up(s)) /\ (AskState => Armed(r))
  BY <1>1, <1>2, <1>3, <1>5 DEF Up
<1>9. QED
  BY <1>6, <1>7, <1>8, OneConnection

(* The write callback of connect(): without an error the socket is up.     *)
LEMMA HandleConnectKeeps ==
  ASSUME IInv, NEW c \in Conn, HandleConnect(c)
  PROVE  IInv'
<1> DEFINE s == [sock[c] EXCEPT !.error = FALSE]
           old == conn[c]
           r == IF sock[c].error THEN CloseConnection(old) ELSE Connected(old)
<1>1. /\ old.mem = "live" /\ ConnBase(old, Up(sock[c]))
      /\ SockOK(sock[c], old) /\ sock[c] \in SockType
      /\ AskState => Armed(old)
      /\ sock[c].stage \in {"connected", "refused", "failed"}
      /\ "out" \in old.interest
  BY InvOf DEF HandleConnect, Takes, Batched
<1>2. old.estaCalls = 0 /\ old.writeCallback = "connect"
  BY <1>1 DEF HandleConnect, ConnBase
<1>3. s \in SockType
  BY <1>1, SockFlags
<1>4. s.stage = sock[c].stage /\ s.inbox = sock[c].inbox
  BY <1>1 DEF SockType
<1>5. ASSUME sock[c].error
      PROVE  ConnBase(r, Up(s)) /\ (AskState => Armed(r)) /\ SockOK(s, r)
  <2>1. r = CloseConnection(old)
    BY <1>5
  <2>2. /\ ConnBase(r, Up(sock[c])) /\ (Armed(old) => Armed(r))
        /\ r.mem # "none"
        /\ old.output = 0 => r.mem = "freed"
    BY <1>1, <2>1, CloseKeeps
  <2>3. sock[c].stage = "refused" => old.output = 0
    BY <1>1, TcpClientAssumption DEF ConnBase, Up, ConnType
  <2> HIDE DEF s
  <2> HIDE DEF r
  <2>4. QED
    BY <1>1, <1>3, <1>4, <2>2, <2>3 DEF SockOK, Up
<1>6. ASSUME ~ sock[c].error
      PROVE  ConnBase(r, Up(s)) /\ (AskState => Armed(r)) /\ SockOK(s, r)
  <2>1. r = Connected(old)
    BY <1>6
  <2>2. Up(sock[c])
    BY <1>1, <1>6 DEF SockOK, Up
  <2>3. ConnBase(r, Up(sock[c])) /\ (Armed(old) => Armed(r)) /\ r.mem = "live"
    BY <1>1, <1>2, <2>1, <2>2, ConnectedKeeps
  <2> HIDE DEF s
  <2> HIDE DEF r
  <2>4. QED
    BY <1>1, <1>3, <1>4, <2>2, <2>3 DEF SockOK, Up
<1>7. /\ sock' = [sock EXCEPT ![c] = s] /\ conn' = [conn EXCEPT ![c] = r]
      /\ batch' = batch \ {c}
  BY DEF HandleConnect, Takes
<1> HIDE DEF s
<1> HIDE DEF r
<1>8. QED
  BY <1>5, <1>6, <1>7, OneConnection

(* The write callback of send().  On a socket that is down the failed      *)
(* assert is all that changes.                                             *)
LEMMA HandleWriteKeeps ==
  ASSUME IInv, NEW c \in Conn, HandleWrite(c)
  PROVE  IInv'
<1> DEFINE old == conn[c]
<1>1. /\ old.mem = "live" /\ ConnBase(old, Up(sock[c])) /\ old \in ConnType
      /\ SockOK(sock[c], old) /\ sock[c] \in SockType
      /\ AskState => Armed(old)
  BY InvOf DEF HandleWrite, Takes, Batched
<1>2. batch' = batch \ {c}
  BY DEF HandleWrite, Takes
<1>3. CASE Broken(c)
  <2> DEFINE r == [old EXCEPT !.failed = TRUE]
  <2>1. r \in ConnType
    BY <1>1 DEF ConnType
  <2>2. ConnBase(r, Up(sock[c])) /\ (AskState => Armed(r))
    BY <1>1, <2>1 DEF ConnBase, Armed, HandedOver, ConnType
  <2>3. SockOK(sock[c], r)
    BY <1>1 DEF SockOK, ConnType
  <2>4. sock' = [sock EXCEPT ![c] = sock[c]] /\ conn' = [conn EXCEPT ![c] = r]
    BY <1>3 DEF HandleWrite, SendNonblock, IInv, TypeOK
  <2> HIDE DEF r
  <2>5. QED
    BY <1>2, <2>2, <2>3, <2>4, OneConnection
<1>4. CASE ~ Broken(c)
  <2>1. PICK n \in 1 .. old.output, space \in BOOLEAN :
          /\ conn' = [conn EXCEPT ![c] = SendNonblock(conn[c], n)]
          /\ sock' = [sock EXCEPT ![c].space = space]
    BY <1>4 DEF HandleWrite
  <2> DEFINE s == [sock[c] EXCEPT !.space = space]
             r == SendNonblock(old, n)
  <2>2. s \in SockType
    BY <1>1, SockFlags
  <2>3. /\ s.stage = sock[c].stage /\ s.inbox = sock[c].inbox
        /\ s.error = sock[c].error
    BY <1>1 DEF SockType
  <2>4. /\ ConnBase(r, Up(sock[c])) /\ (Armed(old) => Armed(r))
        /\ r.mem # "none"
    BY <1>1, SendNonblockKeeps
  <2>5. old.output > 0
    BY <1>1, TcpClientAssumption DEF ConnType
  <2>6. Up(sock[c])
    BY <1>1, <2>5 DEF ConnBase, Up
  <2>7. /\ sock' = [sock EXCEPT ![c] = s] /\ conn' = [conn EXCEPT ![c] = r]
    BY <2>1
  <2> HIDE DEF s
  <2> HIDE DEF r
  <2>8. SockOK(s, r) /\ ConnBase(r, Up(s)) /\ (AskState => Armed(r))
    BY <1>1, <2>2, <2>3, <2>4, <2>6 DEF SockOK, Up
  <2>9. QED
    BY <1>2, <2>7, <2>8, OneConnection
<1>5. QED
  BY <1>3, <1>4

(* What a task sends; the event may be in the batch, and loses nothing.    *)
LEMMA TimedTaskKeeps ==
  ASSUME IInv, NEW c \in Conn, TimedTask(c)
  PROVE  IInv'
<1> DEFINE old == conn[c]
           r   == SendBytes(old)
<1>1. /\ old.mem = "live" /\ old.state = "ESTABLISHED" /\ old.output < MaxOut
      /\ conn' = [conn EXCEPT ![c] = r]
      /\ sock' = sock /\ batch' = batch
  BY DEF TimedTask
<1>2. /\ old \in ConnType /\ ConnBase(old, Up(sock[c])) /\ SockOK(sock[c], old)
      /\ AskState => Armed(old)
      /\ c \in batch => Batched(sock[c], old)
  BY InvOf
<1>3. Up(sock[c])
  BY <1>1, <1>2 DEF ConnBase
<1>4. /\ ConnBase(r, Up(sock[c])) /\ (Armed(old) => Armed(r))
      /\ r.mem = "live"
  BY <1>1, <1>2, <1>3, SendBytesKeeps
<1>5. r.revents = old.revents /\ old.interest \subseteq r.interest
  BY <1>1, <1>2 DEF SendBytes, Send, SetWritable, ConnType
<1>6. sock' = [sock EXCEPT ![c] = sock[c]]
  BY <1>1 DEF IInv, TypeOK
<1> HIDE DEF r
<1>7. SockOK(sock[c], r) /\ (c \in batch => Batched(sock[c], r))
  BY <1>1, <1>2, <1>4, <1>5 DEF SockOK, Batched
<1>8. QED
  BY <1>1, <1>2, <1>4, <1>6, <1>7, OneConnection

LEMMA InvInductive == IInv /\ [Next]_vars => IInv'
<1>1. SUFFICES ASSUME IInv, [Next]_vars PROVE IInv'
  OBVIOUS
<1>poll. CASE Poll
  BY <1>1, <1>poll, PollKeeps
<1>loop. ASSUME NEW c \in Conn,
                HandleClose(c) \/ HandleMessage(c) \/ HandleConnect(c) \/ HandleWrite(c)
         PROVE  IInv'
  BY <1>1, <1>loop, HandleCloseKeeps, HandleMessageKeeps, HandleConnectKeeps,
     HandleWriteKeeps
<1>program. ASSUME NEW c \in Conn, Connect(c) \/ TimedTask(c)
            PROVE  IInv'
  BY <1>1, <1>program, ConnectKeeps, TimedTaskKeeps
<1>peer. ASSUME NEW c \in Conn,
                PeerAccepts(c) \/ PeerRefuses(c) \/ PeerSends(c) \/ PeerCloses(c)
                  \/ PeerReads(c) \/ PeerAborts(c)
         PROVE  IInv'
  BY <1>1, <1>peer, PeerKeeps
<1>stutter. CASE UNCHANGED vars
  BY <1>1, <1>stutter DEF vars, IInv, TypeOK, ConnsOK, BatchOK
<1>2. QED
  BY <1>1, <1>poll, <1>loop, <1>program, <1>peer, <1>stutter DEF Next, LoopStep

-----------------------------------------------------------------------------
(* The theorems.                                                           *)

LEMMA InvAlways == Spec => []IInv
  BY InvInitially, InvInductive, PTL DEF Spec

(* Every field keeps its type: connEstaCallback_ and connCloseCallback_    *)
(* are each called once at most (TcpClient.h:83, :101).                    *)
THEOREM TypeCorrect == Spec => []TypeOK
<1>1. IInv => TypeOK
  BY DEF IInv
<1>2. QED
  BY <1>1, InvAlways, PTL

(* The user is told of no connect that its peer has refused: the error is  *)
(* still there when the connect callback asks for it (TcpClient.h:84).     *)
THEOREM ToldCorrect == Spec => []RefusalIsHeard
<1>1. IInv => RefusalIsHeard
  <2>1. ASSUME IInv, NEW c \in Conn
        PROVE  /\ conn[c].estaCalls > 0 => sock[c].stage \in {"connected", "failed"}
               /\ conn[c].state = "ESTABLISHED" => conn[c].estaCalls = 1
    BY <2>1, InvOf DEF ConnBase, Up
  <2>2. QED
    BY <2>1 DEF RefusalIsHeard
<1>2. QED
  BY <1>1, InvAlways, PTL

(* A message callback that asks for state() first never leaves output      *)
(* that nobody will write (TcpConnection.cpp:42).                          *)
THEOREM OutputCorrect ==
  ASSUME AskState
  PROVE  Spec => []OutputIsArmed
<1>1. IInv => OutputIsArmed
  <2>1. ASSUME IInv, NEW c \in Conn,
               conn[c].state = "ESTABLISHED", conn[c].output > 0
        PROVE  "out" \in conn[c].interest /\ conn[c].writeCallback = "send"
    BY <2>1, InvOf DEF Armed, HandedOver
  <2>2. QED
    BY <2>1 DEF OutputIsArmed
<1>2. QED
  BY <1>1, InvAlways, PTL

(* A connection is deleted once, with nothing left to write and no event   *)
(* left to handle (TcpClient.h:103).                                       *)
THEOREM CloseCorrect == Spec => []DeletedAfterOutput
<1>1. IInv => DeletedAfterOutput
  <2>1. ASSUME IInv, NEW c \in Conn, conn[c].mem = "freed"
        PROVE  conn[c].output = 0 /\ conn[c].closeCalls = 1 /\ c \notin batch
    BY <2>1, InvOf DEF ConnBase, Batched
  <2>2. QED
    BY <2>1 DEF DeletedAfterOutput
<1>2. QED
  BY <1>1, InvAlways, PTL
-----------------------------------------------------------------------------
(* What IsTold and EofIsClosed rest on.                                    *)

(* The end of a connection that lives is never missed: its event is ready, *)
(* or it was closed already and only its output holds it back, for a peer  *)
(* that does not read if the program asks for state() before it sends - or *)
(* a timed task has made it forget the close (TcpConnection.cpp:41).       *)
EndIsHeard ==
  \A c \in Conn : conn[c].mem = "live" /\ (sock[c].eof \/ sock[c].down) =>
    \/ c \in Ready
    \/ /\ conn[c].isWillClose /\ conn[c].output > 0
       /\ AskState => ~ sock[c].space
    \/ TaskSends /\ CloseForgotten(c)

(* A connect(2) that has come to an end is reported to the write callback  *)
(* of connect() until that has run or the connection was closed: no send() *)
(* takes the callback's place before (TcpClient.h:82).                     *)
ConnectIsHeard ==
  AskState =>
    \A c \in Conn :
      /\ conn[c].mem = "live" /\ conn[c].state = "BLANK"
      /\ sock[c].stage # "connecting"
      => c \in Ready /\ "out" \in Revents(c) /\ conn[c].writeCallback = "connect"

(* A live connection listens to its peer, has its close before it, or has  *)
(* forgotten it.                                                           *)
Attentive(r) ==
  r.mem = "live" =>
    "in" \in r.interest \/ (r.isWillClose /\ r.output > 0) \/ (TaskSends /\ ~ r.isWillClose)

(* Before the user has heard of a connection it is as connect() left it.   *)
Waiting(s, r) ==
  r.mem = "live" /\ r.state = "BLANK" =>
    r.interest = {"in", "out"} /\ r.writeCallback = "connect" /\ s.space

(* Only a connect(2) that has ended can end in its turn.                   *)
Kept(s, r) ==
  /\ Attentive(r)
  /\ s.eof \/ s.down => s.stage \in {"connected", "refused"}
  /\ AskState => Waiting(s, r)

KeptInv == \A c \in Conn : Kept(sock[c], conn[c])

(* closeConnection leaves a connection that will be closed or is.          *)
LEMMA CloseAttends ==
  ASSUME NEW r \in ConnType
  PROVE  /\ Attentive(CloseConnection(r))
         /\ r.output = 0 => CloseConnection(r).mem = "freed"
<1> DEFINE deaf == SetReadable(r, FALSE)
<1>1. CASE r.output > 0
  <2>1. deaf \in ConnType /\ deaf.output > 0
    BY <1>1 DEF ConnType, SetReadable
  <2>2. CloseConnection(r) = Send(deaf, TRUE)
    BY <1>1 DEF CloseConnection
  <2> HIDE DEF deaf
  <2>3. Send(deaf, TRUE).isWillClose /\ Send(deaf, TRUE).output > 0
    BY <2>1 DEF Send, SetWritable, ConnType
  <2>4. Attentive(CloseConnection(r))
    BY <2>2, <2>3 DEF Attentive
  <2>5. r.output # 0
    BY <1>1
  <2>6. QED
    BY <2>4, <2>5
<1>2. CASE ~ (r.output > 0)
  <2>1. CloseConnection(r).mem = "freed"
    BY <1>2 DEF CloseConnection, Destroy, ConnType
  <2>2. QED
    BY <2>1 DEF Attentive
<1>3. QED
  BY <1>1, <1>2

(* send() takes no interest away; it may forget a close.                   *)
LEMMA SendBytesAttends ==
  ASSUME NEW r \in ConnType, r.output < MaxOut
  PROVE  /\ r.interest \subseteq SendBytes(r).interest
         /\ ~ SendBytes(r).isWillClose
         /\ SendBytes(r).state = r.state
<1> DEFINE more == [r EXCEPT !.output = @ + 1]
<1>1. more \in ConnType /\ more.output > 0 /\ more.interest = r.interest
      /\ more.state = r.state
  BY TcpClientAssumption DEF ConnType
<1>2. SendBytes(r) = Send(more, FALSE)
  BY DEF SendBytes
<1> HIDE DEF more
<1>3. /\ more.interest \subseteq Send(more, FALSE).interest
      /\ ~ Send(more, FALSE).isWillClose
      /\ Send(more, FALSE).state = more.state
  BY <1>1 DEF Send, SetWritable, ConnType
<1>4. QED
  BY <1>1, <1>2, <1>3

(* sendNonblock closes what was to be closed when the output is written.   *)
LEMMA SendNonblockAttends ==
  ASSUME NEW r \in ConnType, NEW n \in 1 .. r.output, Attentive(r), r.mem = "live"
  PROVE  Attentive(SendNonblock(r, n))
<1> DEFINE rest  == [r EXCEPT !.output = @ - n]
           quiet == SetWritable(rest, FALSE)
<1>1. /\ rest \in ConnType /\ rest.interest = r.interest
      /\ rest.isWillClose = r.isWillClose
  BY TcpClientAssumption DEF ConnType
<1>2. SendNonblock(r, n) =
        IF rest.output > 0 THEN rest
        ELSE IF quiet.isWillClose THEN CloseConnection(quiet) ELSE quiet
  BY DEF SendNonblock, SetWritable
<1> HIDE DEF rest
<1>3. /\ quiet \in ConnType /\ quiet.isWillClose = rest.isWillClose
      /\ "in" \in rest.interest => "in" \in quiet.interest
  BY <1>1 DEF ConnType, SetWritable
<1> HIDE DEF quiet
<1>4. CASE rest.output > 0
  BY <1>1, <1>2, <1>4 DEF Attentive
<1>5. CASE ~ (rest.output > 0) /\ quiet.isWillClose
  BY <1>2, <1>3, <1>5, CloseAttends
<1>6. CASE ~ (rest.output > 0) /\ ~ quiet.isWillClose
  BY <1>1, <1>2, <1>3, <1>6 DEF Attentive
<1>7. QED
  BY <1>4, <1>5, <1>6

(* Every handler leaves the connection attentive, and one that still waits *)
(* for its connect() as it was.                                            *)
LEMMA HandleKept ==
  ASSUME IInv, KeptInv, NEW c \in Conn,
         HandleClose(c) \/ HandleMessage(c) \/ HandleConnect(c) \/ HandleWrite(c)
  PROVE  Attentive(conn'[c]) /\ (AskState => Waiting(sock'[c], conn'[c]))
<1> DEFINE r == conn[c]
<1>1. /\ r \in ConnType /\ ConnBase(r, Up(sock[c])) /\ (AskState => Armed(r))
      /\ c \in batch => Batched(sock[c], r)
      /\ sock[c] \in SockType
  BY InvOf
<1>2. Attentive(r) /\ (AskState => Waiting(sock[c], r))
  BY DEF KeptInv, Kept
<1>3. r.mem = "live" /\ ("in" \in r.revents => "in" \in r.interest)
  BY <1>1 DEF HandleClose, HandleMessage, HandleConnect, HandleWrite, Takes, Batched
<1>4. conn \in [Conn -> ConnType] /\ sock \in [Conn -> SockType]
  BY DEF IInv, TypeOK
<1>5. AskState /\ r.state = "BLANK" => r.output = 0
  BY <1>1 DEF Armed, HandedOver
<1> HIDE DEF r
(* A close that is postponed is one of an established connection.          *)
<1>6. ASSUME conn'[c] = CloseConnection(r)
      PROVE  Attentive(conn'[c]) /\ (AskState => Waiting(sock'[c], conn'[c]))
  <2>1. r.state # "BLANK" => CloseConnection(r).state # "BLANK"
    BY <1>1 DEF CloseConnection, Send, SetReadable, SetWritable, Destroy, ConnType
  <2>2. QED
    BY <1>1, <1>5, <1>6, <2>1, CloseAttends DEF Waiting
<1>7. CASE HandleClose(c)
  BY <1>4, <1>6, <1>7 DEF HandleClose, r
<1>8. CASE HandleMessage(c)
  <2>1. PICK use \in Use \union {"none"} :
          /\ use \in {"send", "reply"} =>
               r.output < MaxOut /\ (AskState => r.state = "ESTABLISHED")
          /\ conn'[c] = UserCallback(r, use)
    BY <1>4, <1>8 DEF HandleMessage, r
  <2>2. "in" \in r.interest /\ sock'[c].space = sock[c].space
    BY <1>1, <1>3, <1>4, <1>8 DEF HandleMessage, SockType, r
  <2>3. CASE use = "none"
    BY <1>2, <2>1, <2>2, <2>3 DEF UserCallback, Waiting
  <2>4. CASE use = "close"
    BY <1>6, <2>1, <2>4 DEF UserCallback
  <2>5. CASE use = "send"
    <3>1. conn'[c] = SendBytes(r) /\ r.output < MaxOut
          /\ (AskState => r.state = "ESTABLISHED")
      BY <2>1, <2>5 DEF UserCallback
    <3>2. QED
      BY <1>1, <2>2, <3>1, SendBytesAttends DEF Attentive, Waiting
  <2>6. CASE use = "reply"
    <3> DEFINE said == SendBytes(r)
    <3>1. conn'[c] = CloseConnection(said) /\ r.output < MaxOut
          /\ (AskState => r.state = "ESTABLISHED")
      BY <2>1, <2>6 DEF UserCallback
    <3>2. Up(sock[c])
      BY <1>8, InvOf DEF HandleMessage, Up, SockOK
    <3>3. said \in ConnType
      BY <1>1, <1>3, <3>1, <3>2, SendBytesKeeps DEF ConnBase
    <3>4. said.state = r.state
      BY <1>1, <3>1, SendBytesAttends
    <3> HIDE DEF said
    <3>5. said.state # "BLANK" => CloseConnection(said).state # "BLANK"
      BY <3>3 DEF CloseConnection, Send, SetReadable, SetWritable, Destroy, ConnType
    <3>6. QED
      BY <3>1, <3>3, <3>4, <3>5, CloseAttends DEF Waiting
  <2>7. QED
    BY <2>3, <2>4, <2>5, <2>6, TcpClientAssumption
<1>9. CASE HandleConnect(c)
  <2>1. CASE sock[c].error
    BY <1>4, <1>6, <1>9, <2>1 DEF HandleConnect, r
  <2>2. CASE ~ sock[c].error
    <3>1. conn'[c] = Connected(r)
      BY <1>4, <1>9, <2>2 DEF HandleConnect, r
    <3>2. /\ Connected(r).state = "ESTABLISHED"
          /\ Connected(r).interest = r.interest \ {"out"}
          /\ Connected(r).isWillClose = r.isWillClose
          /\ Connected(r).output = r.output
      BY <1>1 DEF Connected, SetWritable, ConnType
    <3>3. QED
      BY <1>2, <1>3, <3>1, <3>2 DEF Attentive, Waiting
  <2>3. QED
    BY <2>1, <2>2
<1>10. CASE HandleWrite(c)
  <2>1. AskState => r.state # "BLANK"
    BY <1>2, <1>3, <1>10 DEF HandleWrite, Waiting, r
  <2>2. CASE Broken(c)
    <3>1. conn'[c] = [r EXCEPT !.failed = TRUE]
      BY <1>4, <1>10, <2>2 DEF HandleWrite, SendNonblock, r
    <3>2. /\ conn'[c].interest = r.interest /\ conn'[c].state = r.state
          /\ conn'[c].isWillClose = r.isWillClose /\ conn'[c].output = r.output
      BY <1>1, <3>1 DEF ConnType
    <3>3. QED
      BY <1>2, <1>3, <2>1, <3>2 DEF Attentive, Waiting
  <2>3. CASE ~ Broken(c)
    <3>1. PICK n \in 1 .. r.output : conn'[c] = SendNonblock(r, n)
      BY <1>4, <1>10, <2>3 DEF HandleWrite, r
    <3>2. Attentive(conn'[c])
      BY <1>1, <1>2, <1>3, <3>1, SendNonblockAttends
    <3>3. r.state # "BLANK" => SendNonblock(r, n).state # "BLANK"
      BY <1>1 DEF SendNonblock, CloseConnection, Send, SetReadable, SetWritable, Destroy,
         ConnType
    <3>4. QED
      BY <2>1, <3>1, <3>2, <3>3 DEF Waiting
  <2>4. QED
    BY <2>2, <2>3
<1>11. QED
  BY <1>7, <1>8, <1>9, <1>10

(* The other steps of a connection and its peer.                           *)
LEMMA OtherKept ==
  ASSUME IInv, KeptInv, NEW c \in Conn,
         \/ Connect(c) \/ TimedTask(c)
         \/ PeerAccepts(c) \/ PeerRefuses(c) \/ PeerSends(c) \/ PeerCloses(c)
         \/ PeerReads(c) \/ PeerAborts(c)
  PROVE  Kept(sock'[c], conn'[c])
<1> DEFINE r == conn[c]
           s == sock[c]
<1>1. r \in ConnType /\ s \in SockType /\ Kept(s, r)
  BY InvOf DEF KeptInv
<1>2. conn \in [Conn -> ConnType] /\ sock \in [Conn -> SockType]
  BY DEF IInv, TypeOK
<1>3. CASE Connect(c)
  <2>1. s = NoSock /\ r = NoConn
    BY <1>3, InvOf DEF Connect, ConnBase, SockOK
  <2>2. PICK stage \in {"connecting", "failed"} : sock'[c] = [s EXCEPT !.stage = stage]
    BY <1>2, <1>3 DEF Connect
  <2>3. ~ sock'[c].eof /\ ~ sock'[c].down /\ sock'[c].space
    BY <2>1, <2>2 DEF NoSock
  <2>4. conn'[c] = [r EXCEPT !.mem = "live", !.registered = TRUE,
                             !.interest = {"in", "out"}, !.writeCallback = "connect"]
    BY <1>2, <1>3 DEF Connect
  <2>5. conn'[c].interest = {"in", "out"} /\ conn'[c].writeCallback = "connect"
    BY <2>1, <2>4 DEF NoConn
  <2>6. QED
    BY <2>3, <2>5 DEF Kept, Attentive, Waiting
<1>4. CASE TimedTask(c)
  <2>1. /\ conn'[c] = SendBytes(r) /\ sock' = sock /\ r.output < MaxOut
        /\ TaskSends /\ r.state = "ESTABLISHED"
    BY <1>2, <1>4 DEF TimedTask
  <2>2. ~ conn'[c].isWillClose /\ conn'[c].state = "ESTABLISHED"
    BY <1>1, <2>1, SendBytesAttends
  <2>3. QED
    BY <1>1, <2>1, <2>2 DEF Kept, Attentive, Waiting
<1>5. CASE \/ PeerAccepts(c) \/ PeerRefuses(c) \/ PeerSends(c) \/ PeerCloses(c)
           \/ PeerReads(c) \/ PeerAborts(c)
  <2>1. conn' = conn
    BY <1>5 DEF PeerAccepts, PeerRefuses, PeerSends, PeerCloses, PeerReads, PeerAborts, Outside
  <2>2. /\ s.space => sock'[c].space
        /\ sock'[c].eof \/ sock'[c].down => sock'[c].stage \in {"connected", "refused"}
    <3> HIDE DEF s
    <3>1. CASE PeerAccepts(c)
      <4>1. sock'[c] = [s EXCEPT !.stage = "connected"]
        BY <1>2, <3>1 DEF PeerAccepts, Outside, s
      <4>2. QED
        BY <1>1, <4>1 DEF SockType
    <3>2. CASE PeerRefuses(c)
      <4>1. sock'[c] = [s EXCEPT !.stage = "refused", !.down = TRUE, !.error = TRUE]
        BY <1>2, <3>2 DEF PeerRefuses, Outside, s
      <4>2. QED
        BY <1>1, <4>1 DEF SockType
    <3>3. CASE PeerSends(c) \/ PeerCloses(c) \/ PeerReads(c)
      <4>1. \/ sock'[c] = [s EXCEPT !.inbox = 1]
            \/ sock'[c] = [s EXCEPT !.eof = TRUE]
            \/ sock'[c] = [s EXCEPT !.space = TRUE]
        BY <1>2, <3>3 DEF PeerSends, PeerCloses, PeerReads, Outside, s
      <4>2. s.stage = "connected"
        BY <3>3 DEF PeerSends, PeerCloses, PeerReads, s
      <4>3. QED
        BY <1>1, <4>1, <4>2 DEF SockType
    <3>4. CASE PeerAborts(c)
      <4>1. \E left \in {0, s.inbox} :
              sock'[c] = [s EXCEPT !.down = TRUE, !.error = TRUE, !.inbox = left]
        BY <1>2, <3>4 DEF PeerAborts, Outside, s
      <4>2. s.stage = "connected"
        BY <3>4 DEF PeerAborts, s
      <4>3. QED
        BY <1>1, <4>1, <4>2 DEF SockType
    <3>5. QED
      BY <1>5, <3>1, <3>2, <3>3, <3>4
  <2>3. QED
    BY <1>1, <2>1, <2>2 DEF Kept, Attentive, Waiting
<1>6. QED
  BY <1>3, <1>4, <1>5

LEMMA KeptInductive ==
  ASSUME IInv, KeptInv, [Next]_vars
  PROVE  KeptInv'
<1>1. conn \in [Conn -> ConnType] /\ sock \in [Conn -> SockType]
  BY DEF IInv, TypeOK
<1>2. ASSUME NEW c \in Conn,
             HandleClose(c) \/ HandleMessage(c) \/ HandleConnect(c) \/ HandleWrite(c)
      PROVE  KeptInv'
  <2>1. \A d \in Conn : d # c => sock'[d] = sock[d] /\ conn'[d] = conn[d]
    BY <1>1, <1>2 DEF HandleClose, HandleMessage, HandleConnect, HandleWrite
  <2>2. /\ sock'[c].eof = sock[c].eof /\ sock'[c].down = sock[c].down
        /\ sock'[c].stage = sock[c].stage
    BY <1>1, <1>2 DEF HandleClose, HandleMessage, HandleConnect, HandleWrite, SockType
  <2>3. Attentive(conn'[c]) /\ (AskState => Waiting(sock'[c], conn'[c]))
    BY <1>2, HandleKept
  <2>4. Kept(sock'[c], conn'[c])
    BY <2>2, <2>3 DEF KeptInv, Kept
  <2>5. QED
    BY <2>1, <2>4 DEF KeptInv
<1>3. ASSUME NEW c \in Conn,
             \/ Connect(c) \/ TimedTask(c)
             \/ PeerAccepts(c) \/ PeerRefuses(c) \/ PeerSends(c) \/ PeerCloses(c)
             \/ PeerReads(c) \/ PeerAborts(c)
      PROVE  KeptInv'
  <2>1. \A d \in Conn : d # c => sock'[d] = sock[d] /\ conn'[d] = conn[d]
    BY <1>1, <1>3 DEF Connect, TimedTask, PeerAccepts, PeerRefuses, PeerSends, PeerCloses,
       PeerReads, PeerAborts, Outside
  <2>2. Kept(sock'[c], conn'[c])
    BY <1>3, OtherKept
  <2>3. QED
    BY <2>1, <2>2 DEF KeptInv
<1>4. CASE Poll
  <2>1. ASSUME NEW c \in Conn PROVE Kept(sock'[c], conn'[c])
    <3> DEFINE r == [conn[c] EXCEPT !.revents = Revents(c)]
    <3>1. sock' = sock /\ (conn'[c] = r \/ conn'[c] = conn[c])
      BY <1>4 DEF Poll
    <3>2. /\ r.mem = conn[c].mem /\ r.state = conn[c].state
          /\ r.interest = conn[c].interest /\ r.writeCallback = conn[c].writeCallback
          /\ r.output = conn[c].output /\ r.isWillClose = conn[c].isWillClose
      BY <1>1 DEF ConnType
    <3>3. Kept(sock[c], conn[c])
      BY DEF KeptInv
    <3> HIDE DEF r
    <3>4. QED
      BY <3>1, <3>2, <3>3 DEF Kept, Attentive, Waiting
  <2>2. QED
    BY <2>1 DEF KeptInv
<1>5. CASE UNCHANGED vars
  BY <1>5 DEF vars, KeptInv
<1>6. QED
  BY <1>2, <1>3, <1>4, <1>5 DEF Next, LoopStep

LEMMA KeptAlways == Spec => []KeptInv
<1>1. Init => KeptInv
  BY DEF Init, KeptInv, Kept, Attentive, Waiting, NoSock, NoConn
<1>2. IInv /\ KeptInv /\ [Next]_vars => KeptInv'
  BY KeptInductive
<1>3. QED
  BY <1>1, <1>2, InvAlways, PTL DEF Spec

(* For any number of connections no end of one is missed, and timed tasks  *)
(* are all that can make a client forget a close.                          *)
THEOREM EndCorrect == Spec => []EndIsHeard
<1>1. ASSUME IInv, KeptInv PROVE EndIsHeard
  <2> SUFFICES ASSUME NEW c \in Conn, conn[c].mem = "live", sock[c].eof \/ sock[c].down
               PROVE  \/ c \in Ready
                      \/ /\ conn[c].isWillClose /\ conn[c].output > 0
                         /\ AskState => ~ sock[c].space
                      \/ TaskSends /\ CloseForgotten(c)
    BY DEF EndIsHeard
  <2>1. Kept(sock[c], conn[c]) /\ conn[c].registered
    BY <1>1, InvOf DEF KeptInv, ConnBase
  <2>2. CASE "in" \in conn[c].interest
    <3>1. "in" \in Revents(c)
      BY <2>1, <2>2 DEF Kept, Revents
    <3>2. QED
      BY <2>1, <3>1 DEF Ready
  <2>3. CASE "in" \notin conn[c].interest
    <3>1. \/ conn[c].isWillClose /\ conn[c].output > 0
          \/ TaskSends /\ CloseForgotten(c)
      BY <2>1, <2>3 DEF Kept, Attentive, CloseForgotten
    <3>2. ASSUME AskState, conn[c].output > 0, sock[c].space
          PROVE  c \in Ready
      <4>1. Armed(conn[c]) /\ ConnBase(conn[c], Up(sock[c])) /\ conn[c] \in ConnType
        BY <1>1, <3>2, InvOf
      <4>2. conn[c].state = "ESTABLISHED"
        BY <3>2, <4>1 DEF Armed, HandedOver, ConnBase, ConnType
      <4>3. "out" \in conn[c].interest
        BY <3>2, <4>1, <4>2 DEF Armed
      <4>4. "out" \in Revents(c)
        BY <2>1, <3>2, <4>3 DEF Kept, Revents
      <4>5. QED
        BY <2>1, <4>4 DEF Ready
    <3>3. QED
      BY <3>1, <3>2
  <2>4. QED
    BY <2>2, <2>3
<1>2. QED
  BY <1>1, InvAlways, KeptAlways, PTL

(* The callback of connect() is never lost to a program that asks for      *)
(* state() before it sends.                                                *)
THEOREM ConnectCorrect == Spec => []ConnectIsHeard
<1>1. ASSUME IInv, KeptInv PROVE ConnectIsHeard
  <2> SUFFICES ASSUME AskState, NEW c \in Conn, conn[c].mem = "live",
                      conn[c].state = "BLANK", sock[c].stage # "connecting"
               PROVE  c \in Ready /\ "out" \in Revents(c) /\ conn[c].writeCallback = "connect"
    BY DEF ConnectIsHeard
  <2>1. /\ conn[c].registered /\ Kept(sock[c], conn[c])
    BY <1>1, InvOf DEF KeptInv, ConnBase
  <2>2. "out" \in Revents(c) /\ conn[c].writeCallback = "connect"
    BY <2>1 DEF Kept, Waiting, Revents
  <2>3. QED
    BY <2>1, <2>2 DEF Ready
<1>2. QED
  BY <1>1, InvAlways, KeptAlways, PTL
=============================================================================
